--------------------------- MODULE JobScheduler ---------------------------
(***************************************************************************)
(* The JobScheduler of the C++ library: every calculator object owns one   *)
(* (member `job`), sets run_params on it, pushes the steps of its script   *)
(* and calls run(directory).  run() empties and rebuilds the working       *)
(* directory, copies the structure file in, writes the script of the       *)
(* chosen server and, depending on auto_level, executes it with bash or    *)
(* hands it to the local batch system.                                     *)
(*                                                                         *)
(* Each calculator lives in an operating-system process of its own         *)
(* (atomsciflow-calc, a Python script), so the file-system calls of two    *)
(* runs interleave.  One action is one such call.  The batch system is     *)
(* external: it executes what was submitted, some time later.              *)
(***************************************************************************)
EXTENDS Integers, Sequences

CONSTANTS
    Proc,       \* calculator objects, each in its own process
    Dir,        \* working directories
    NoDir,      \* no working directory chosen yet
    Server,     \* values given to run_params["server"]
    Level,      \* values given to run_params["auto_level"]
    Clearing,   \* calculators whose run() starts with job.steps.clear()
    Blocks,     \* how many steps run() of a calculator pushes
    Uses,       \* the directories a calculator is told to run in
    XyzHome,    \* the directory a calculator's structure file lives in
    XyzName,    \* the file name of a calculator's structure file
    MaxRuns     \* bound: calls of run() per calculator

ASSUME JobAssumption ==
    /\ NoDir \notin Dir
    /\ Level \subseteq 0..6
    /\ Server \subseteq STRING
    /\ Clearing \subseteq Proc
    /\ Blocks \in [Proc -> Nat \ {0}]
    /\ Uses \in [Proc -> SUBSET Dir]
    /\ XyzHome \in [Proc -> Dir \cup {NoDir}]
    /\ XyzName \in [Proc -> STRING]
    /\ MaxRuns \in Nat

VARIABLES
    run_params, \* auto_level, server and whether xyz_file is set
    steps,      \* job.steps: for every step the run() call that pushed it
    runs,       \* how many times run() was called
    pc,         \* the next file-system call of run(), "idle" outside of it
    target,     \* run_params["absolute_work_dir"]
    outcome,    \* how the last run() ended
    kind,       \* what the path of a working directory is
    scripts,    \* the scripts in a working directory
    copies,     \* the structure files copied into a working directory
    results,    \* the calculations whose output is in a working directory
    source,     \* calculators whose structure file still exists
    queue,      \* jobs waiting in the local batch system
    users,      \* history: who ever ran in a working directory
    crossed     \* history: calculators whose run() another one overlapped

callVars == <<run_params, steps, runs, target>>
dirVars == <<kind, scripts, copies, results, source>>
history == <<users, crossed>>
vars == <<callVars, pc, outcome, dirVars, queue, history>>

-----------------------------------------------------------------------------
(* The suffix of the script run() generates, by server; the other values   *)
(* of "server" generate nothing.                                           *)
Known == {"llhpc", "lsf_sz", "pbs", "lsf_sustc", "cdcloud", "slurm"}

\* A mutant of ScriptName.
ScriptNameMixed(s) ==
    CASE s = "llhpc" -> "slurm" [] s = "cdcloud" -> "slurm_cd" [] OTHER -> s

ScriptName(s) ==
    CASE s = "llhpc"     -> "slurm_llhpc"
      [] s = "lsf_sz"    -> "lsf_sz"
      [] s = "pbs"       -> "pbs"
      [] s = "lsf_sustc" -> "lsf_sustc"
      [] s = "cdcloud"   -> "slurm_cd"
      [] s = "slurm"     -> "slurm"

\* A mutant of SubmitName.
SubmitNameMixed(s) == IF s = "llhpc" THEN "slurm_llhpc" ELSE "slurm"

(* The suffix server_handle submits, by server. *)
SubmitName(s) ==
    CASE s = "pbs"       -> "pbs"
      [] s = "llhpc"     -> "slurm_llhpc"
      [] s = "lsf_sz"    -> "lsf_sz"
      [] s = "lsf_sustc" -> "lsf_sustc"
      [] s = "cdcloud"   -> "slurm_cd"
      [] s = "slurm"     -> "slurm"

Names == {ScriptName(s) : s \in Known} \cup {"sh"}
Script == [name: Names, by: Proc, run: Nat, steps: Seq(Nat), dir: Dir]
Result == [by: Proc, run: Nat, via: {"bash", "batch"}]
Job == [by: Proc, run: Nat, script: Script]
Phases == {"idle", "remove", "create", "copy", "script", "bash", "system", "handle"}

\* A mutant of Generates.
GeneratesHere(l) == l \in 1..2

Generates(l) == l \in 1..6

Generating(p) == Generates(run_params[p].auto_level)

-----------------------------------------------------------------------------
(* The file-system calls, as boost::filesystem and std::ofstream make them. *)

Written(files, f) == {g \in files : g.name # f.name} \cup {f}

(* The heading of a script names the directory; its body is job.steps. *)
Render(p, name) == [name |-> name, by |-> p, run |-> runs[p],
                    steps |-> steps[p], dir |-> target[p]]

(* std::ofstream::open on a path under a missing directory fails silently. *)
WriteScript(p, name) ==
    LET d == target[p] IN
    scripts' = IF kind[d] = "directory"
               THEN [scripts EXCEPT ![d] = Written(@, Render(p, name))]
               ELSE scripts

(* Every step starts by changing to the directory of the script, and       *)
(* leaves its output there.                                                *)
Execute(s, via) ==
    results' = IF kind[s.dir] = "directory"
               THEN [results EXCEPT ![s.dir] =
                        @ \cup {[by |-> s.by, run |-> s.steps[i], via |-> via] : i \in DOMAIN s.steps}]
               ELSE results

-----------------------------------------------------------------------------
Init ==
    /\ run_params = [p \in Proc |-> [auto_level |-> 0, server |-> "", xyz_file |-> FALSE]]
    /\ steps = [p \in Proc |-> <<>>]
    /\ runs = [p \in Proc |-> 0]
    /\ pc = [p \in Proc |-> "idle"]
    /\ target = [p \in Proc |-> NoDir]
    /\ outcome = [p \in Proc |-> "none"]
    /\ kind \in [Dir -> {"absent", "directory"}]
    /\ \A p \in Proc : XyzHome[p] \in Dir => kind[XyzHome[p]] = "directory"
    /\ scripts = [d \in Dir |-> {}]
    /\ copies = [d \in Dir |-> {}]
    /\ results = [d \in Dir |-> {}]
    /\ source = Proc
    /\ queue = {}
    /\ users = [d \in Dir |-> {}]
    /\ crossed = {}

-----------------------------------------------------------------------------
(* Configuration, between two runs. *)

Configure(p, key, value) ==
    /\ pc[p] = "idle"
    /\ run_params' = [run_params EXCEPT ![p] = [@ EXCEPT ![key] = value]]
    /\ UNCHANGED <<steps, runs, target, pc, outcome, dirVars, queue, history>>

SetAutoLevel(p) == \E l \in Level : Configure(p, "auto_level", l)

SetServer(p) == \E s \in Server : Configure(p, "server", s)

\* A mutant of SetRunDefault.
SetRunDefaultUnset(p) == Configure(p, "auto_level", -1)

(* set_run_default(platform) also puts auto_level back to 0. *)
SetRunDefault(p) == Configure(p, "auto_level", 0)

GetXyz(p) == Configure(p, "xyz_file", TRUE)

-----------------------------------------------------------------------------
\* A mutant of Renew.
RenewByAppending(p, block) == steps[p] \o block

(* What run() of a calculator makes of job.steps: it pushes its own block  *)
(* of steps, most calculators after clearing the list.                     *)
Renew(p, block) == IF p \in Clearing THEN block ELSE steps[p] \o block

(* The other calculators that are in a run() of theirs in a directory. *)
Others(p, d) ==
    {q \in Proc \ {p} : pc[q] # "idle" /\ target[q] = d /\ Generating(q)}

(* A calculator's run(directory): it renews or extends job.steps, then     *)
(* enters JobScheduler::run.                                               *)
BeginRun(p, d) ==
    LET r == runs[p] + 1
    IN  /\ pc[p] = "idle"
        /\ runs[p] < MaxRuns
        /\ runs' = [runs EXCEPT ![p] = r]
        /\ steps' = [steps EXCEPT ![p] = Renew(p, [i \in 1..Blocks[p] |-> r])]
        /\ target' = [target EXCEPT ![p] = d]
        /\ IF Generates(run_params[p].auto_level)
           THEN /\ pc' = [pc EXCEPT ![p] = "remove"]
                /\ users' = [users EXCEPT ![d] = @ \cup {p}]
                /\ crossed' = IF Others(p, d) = {} THEN crossed \ {p}
                              ELSE crossed \cup Others(p, d) \cup {p}
           ELSE /\ pc' = [pc EXCEPT ![p] = "handle"]
                /\ UNCHANGED history
        /\ UNCHANGED <<run_params, outcome, dirVars, queue>>

\* A mutant of RemoveAll.
RemoveNothing(p) ==
    /\ pc[p] = "remove"
    /\ pc' = [pc EXCEPT ![p] = "create"]
    /\ UNCHANGED <<callVars, outcome, dirVars, queue, history>>

(* fs::exists and fs::remove_all: with the tree goes every structure file  *)
(* that lived in it.                                                       *)
RemoveAll(p) ==
    LET d == target[p] IN
    /\ pc[p] = "remove"
    /\ pc' = [pc EXCEPT ![p] = "create"]
    /\ kind' = [kind EXCEPT ![d] = "absent"]
    /\ scripts' = [scripts EXCEPT ![d] = {}]
    /\ copies' = [copies EXCEPT ![d] = {}]
    /\ results' = [results EXCEPT ![d] = {}]
    /\ source' = {q \in source : XyzHome[q] # d}
    /\ UNCHANGED <<callVars, outcome, queue, history>>

(* An exception leaves run(); the Python caller may catch it and go on. *)
Throw(p) ==
    /\ pc' = [pc EXCEPT ![p] = "idle"]
    /\ outcome' = [outcome EXCEPT ![p] = "threw"]

(* fs::create_directories throws when a regular file is in the way. *)
CreateDirectories(p) ==
    LET d == target[p] IN
    /\ pc[p] = "create"
    /\ IF kind[d] = "regular"
       THEN Throw(p) /\ kind' = kind
       ELSE /\ kind' = [kind EXCEPT ![d] = "directory"]
            /\ pc' = [pc EXCEPT ![p] = "copy"]
            /\ outcome' = outcome
    /\ UNCHANGED <<callVars, scripts, copies, results, source, queue, history>>

\* A mutant of CopyXyz: fs::copy with an error_code, which nobody looks at.
CopyXyzQuietly(p) ==
    LET d == target[p]
        readable == run_params[p].xyz_file /\ p \in source
    IN  /\ pc[p] = "copy"
        /\ copies' = IF readable /\ kind[d] = "directory"
                     THEN [copies EXCEPT ![d] = @ \cup {XyzName[p]}]
                     ELSE copies
        /\ pc' = [pc EXCEPT ![p] = "script"]
        /\ UNCHANGED <<callVars, outcome, kind, scripts, results, source, queue, history>>

(* fs::copy of a file: into a directory under its own name, onto a path    *)
(* that does not exist as that very file, and never over an existing one.  *)
CopyXyz(p) ==
    LET d == target[p]
        readable == run_params[p].xyz_file /\ p \in source
        intoDir == kind[d] = "directory" /\ XyzName[p] \notin copies[d]
        asPath == kind[d] = "absent"
    IN  /\ pc[p] = "copy"
        /\ IF readable /\ (intoDir \/ asPath)
           THEN /\ kind' = [kind EXCEPT ![d] = IF asPath THEN "regular" ELSE @]
                /\ copies' = IF asPath THEN copies
                             ELSE [copies EXCEPT ![d] = @ \cup {XyzName[p]}]
                /\ pc' = [pc EXCEPT ![p] = "script"]
                /\ outcome' = outcome
           ELSE Throw(p) /\ UNCHANGED <<kind, copies>>
        /\ UNCHANGED <<callVars, scripts, results, source, queue, history>>

(* gen_llhpc, gen_pbs, ...: nothing for a server without a branch. *)
GenScript(p) ==
    LET s == run_params[p].server IN
    /\ pc[p] = "script"
    /\ IF s \in Known THEN WriteScript(p, ScriptName(s)) ELSE scripts' = scripts
    /\ pc' = [pc EXCEPT ![p] = IF run_params[p].auto_level = 2 THEN "bash" ELSE "handle"]
    /\ UNCHANGED <<callVars, outcome, kind, copies, results, source, queue, history>>

GenBash(p) ==
    /\ pc[p] = "bash"
    /\ WriteScript(p, "sh")
    /\ pc' = [pc EXCEPT ![p] = "system"]
    /\ UNCHANGED <<callVars, outcome, kind, copies, results, source, queue, history>>

(* std::system("bash <directory>/<head>.sh"); its status is ignored. *)
SystemBash(p) ==
    /\ pc[p] = "system"
    /\ \/ \E s \in scripts[target[p]] : s.name = "sh" /\ Execute(s, "bash")
       \/ (\A s \in scripts[target[p]] : s.name # "sh") /\ results' = results
    /\ pc' = [pc EXCEPT ![p] = "handle"]
    /\ UNCHANGED <<callVars, outcome, kind, scripts, copies, source, queue, history>>

(* server_handle: only level 3 does anything, and only when the submit     *)
(* command finds the script; the status of the command is ignored.         *)
Submittable(p) ==
    {s \in scripts[target[p]] : /\ run_params[p].auto_level = 3
                                /\ run_params[p].server \in Known
                                /\ s.name = SubmitName(run_params[p].server)}

ServerHandle(p) ==
    /\ pc[p] = "handle"
    /\ queue' = queue \cup {[by |-> p, run |-> runs[p], script |-> s] : s \in Submittable(p)}
    /\ pc' = [pc EXCEPT ![p] = "idle"]
    /\ outcome' = [outcome EXCEPT ![p] = "ok"]
    /\ UNCHANGED <<callVars, dirVars, history>>

Run(p) ==
    \/ RemoveAll(p)
    \/ CreateDirectories(p)
    \/ CopyXyz(p)
    \/ GenScript(p)
    \/ GenBash(p)
    \/ SystemBash(p)
    \/ ServerHandle(p)

-----------------------------------------------------------------------------
(* The batch system (external): a job runs the script as it was submitted. *)
RunJob(j) ==
    /\ j \in queue
    /\ queue' = queue \ {j}
    /\ Execute(j.script, "batch")
    /\ UNCHANGED <<callVars, pc, outcome, kind, scripts, copies, source, history>>

Next ==
    \/ \E p \in Proc :
        \/ SetAutoLevel(p)
        \/ SetServer(p)
        \/ SetRunDefault(p)
        \/ GetXyz(p)
        \/ \E d \in Uses[p] : BeginRun(p, d)
        \/ Run(p)
    \/ \E j \in queue : RunJob(j)

Spec == Init /\ [][Next]_vars

(* A call of run() goes on until it returns; the batch system serves every *)
(* job in the end.                                                         *)
Fairness ==
    /\ \A p \in Proc : WF_vars(Run(p))
    /\ WF_vars(\E j \in queue : RunJob(j))

FairSpec == Spec /\ Fairness

-----------------------------------------------------------------------------
TypeOK ==
    /\ run_params \in [Proc -> [auto_level: {0} \cup Level,
                                server: {""} \cup Server, xyz_file: BOOLEAN]]
    /\ steps \in [Proc -> Seq(Nat)]
    /\ runs \in [Proc -> Nat]
    /\ pc \in [Proc -> Phases]
    /\ target \in [Proc -> Dir \cup {NoDir}]
    /\ outcome \in [Proc -> {"none", "ok", "threw"}]
    /\ kind \in [Dir -> {"absent", "directory", "regular"}]
    /\ scripts \in [Dir -> SUBSET Script]
    /\ copies \in [Dir -> SUBSET STRING]
    /\ results \in [Dir -> SUBSET Result]
    /\ source \subseteq Proc
    /\ queue \subseteq Job
    /\ users \in [Dir -> SUBSET Proc]
    /\ crossed \subseteq Proc

(* No run() of another calculator in the directory of p has overlapped     *)
(* with this run() of p; others may have run there before.                 *)
Alone(p) == p \notin crossed

Fresh(s) == s.by \in Clearing => s.steps = [i \in 1..Blocks[s.by] |-> s.run]

(* A calculator whose run() clears job.steps never writes or submits a     *)
(* script that repeats steps of an earlier run().                          *)
OneRunPerScript ==
    /\ \A d \in Dir : \A s \in scripts[d] : Fresh(s)
    /\ \A j \in queue : Fresh(j.script)

(* In a directory of its own, what a run() submits is the script this very *)
(* run() wrote, never one left by an earlier run().                        *)
SubmittedIsOwn ==
    \A j \in queue : users[j.script.dir] = {j.by} =>
        j.script.by = j.by /\ j.script.run = j.run

(* A run() that generates, and that no other run() of the directory        *)
(* overlaps, reaches server_handle with the structure file there, and with *)
(* the script that server_handle names for this server, written by this    *)
(* run(): whatever others left in the directory, or do elsewhere.          *)
DeliveredRun ==
    \A p \in Proc : pc[p] = "handle" /\ Generating(p) /\ Alone(p) =>
        /\ XyzName[p] \in copies[target[p]]
        /\ run_params[p].server \in Known =>
            \E s \in scripts[target[p]] :
                /\ s.name = SubmitName(run_params[p].server)
                /\ s.by = p
                /\ s.run = runs[p]

(* Overlapped by no other run() of its directory, run() throws only for    *)
(* want of the structure file: it was never given, or it lived in a        *)
(* directory that was emptied.                                             *)
ThrowNeedsCause ==
    [][\A p \in Proc :
        pc[p] \in {"create", "copy"} /\ pc'[p] = "idle" /\ Alone(p) =>
            ~run_params[p].xyz_file \/ p \notin source]_vars

(* A run() at level 3, for a server with a branch and with its structure   *)
(* file outside of the directory, gets its output into the directory,      *)
(* unless the same calculator starts another run().                        *)
Submits(p) ==
    /\ run_params[p].auto_level = 3
    /\ run_params[p].server \in Known
    /\ run_params[p].xyz_file
    /\ p \in source
    /\ XyzHome[p] # target[p]

LevelThreeDelivers ==
    \A p \in Proc, d \in Dir, n \in 1..MaxRuns :
        (pc[p] = "remove" /\ target[p] = d /\ runs[p] = n /\ Submits(p))
            ~> ([by |-> p, run |-> n, via |-> "batch"] \in results[d] \/ runs[p] > n)

-----------------------------------------------------------------------------
(* The inductive strengthening of OneRunPerScript: inside of a call the    *)
(* steps of a clearing calculator are those of this call.                  *)
FreshSteps ==
    \A p \in Proc : pc[p] # "idle" /\ p \in Clearing =>
        steps[p] = [i \in 1..Blocks[p] |-> runs[p]]

(* The inductive strengthening of SubmittedIsOwn, DeliveredRun and         *)
(* ThrowNeedsCause: what stands in the working directory of a run() that   *)
(* nobody interferes with, call after call, and who interferes with whom.  *)
Prepared == {"script", "bash", "system", "handle"}
Generated == Prepared \ {"script"}

ScriptsInPlace ==
    \A d \in Dir :
        /\ \A s \in scripts[d] : s.dir = d
        /\ \A s, t \in scripts[d] : s.name = t.name => s = t

UsersKnown ==
    /\ \A p \in Proc : pc[p] \in Phases \ {"idle", "handle"} => Generating(p)
    /\ \A p \in Proc : pc[p] # "idle" /\ Generating(p) => p \in users[target[p]]
    /\ \A j \in queue : j.by \in users[j.script.dir]

CrossedKnown ==
    \A p \in Proc : pc[p] # "idle" /\ Generating(p) =>
        /\ Others(p, target[p]) # {} => p \in crossed
        /\ p \in crossed => users[target[p]] # {p}

Ready(p) ==
    /\ pc[p] = "create" => kind[target[p]] = "absent"
    /\ pc[p] = "copy" => kind[target[p]] = "directory"
    /\ pc[p] \in {"create", "copy"} => copies[target[p]] = {}
    /\ pc[p] \in Prepared =>
        /\ kind[target[p]] = "directory"
        /\ XyzName[p] \in copies[target[p]]
    /\ pc[p] \in Generated /\ run_params[p].server \in Known =>
        \E s \in scripts[target[p]] :
            /\ s.name = ScriptName(run_params[p].server)
            /\ s.by = p
            /\ s.run = runs[p]

AloneReady == \A p \in Proc : pc[p] # "idle" /\ Generating(p) /\ Alone(p) => Ready(p)

OwnInv == ScriptsInPlace /\ UsersKnown /\ CrossedKnown /\ AloneReady /\ SubmittedIsOwn
=============================================================================
