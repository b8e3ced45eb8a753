---------------------------- MODULE RunScripts ----------------------------
(***************************************************************************)
(* What the run() of every calculator pushes into job.steps, and what bash *)
(* does with it.  A script is a sequence of commands; it has no `set -e`,  *)
(* so a command that fails changes nothing and the next one is executed.   *)
(* The same script may be executed several times in one directory: a batch *)
(* system requeues a job, a user submits it again, or a calculator that    *)
(* does not clear job.steps pushed its block twice.                        *)
(*                                                                         *)
(* The simulation programs and phonopy are external: they read the files   *)
(* named for them and then write, or fail.                                 *)
(***************************************************************************)
EXTENDS Integers, Sequences, SequencesExt, Selections

CONSTANTS
    Calculators,    \* the calculators of an instance
    MaxStructures,  \* bound: supercells phonopy makes
    MaxPasses       \* bound: executions of the steps of one run()

ASSUME ScriptAssumption == MaxStructures \in Nat \ {0} /\ MaxPasses \in Nat \ {0}

VARIABLES
    calc,       \* the calculator whose script this is
    count,      \* how many supercells phonopy makes of its structure
    todo,       \* the commands still to be executed
    cwd,        \* the current directory
    dirs,       \* the supercells that have a directory run-supercell-*
    files,      \* path -> what the content was made from
    pass,       \* which execution of the steps this is
    clean       \* no command failed during this execution

vars == <<calc, count, todo, cwd, dirs, files, pass, clean>>

-----------------------------------------------------------------------------
(* Directories are numbered: the working directory, the directory above    *)
(* it, the directory of every supercell, and the one that a pattern        *)
(* without a match names literally, run-supercell-* itself.                *)
Above == -1
Work == 0
Structures == 1..MaxStructures
Star == MaxStructures + 1

(* A path in a command: relative to the current directory ("here"), in the *)
(* directory of the loop's item ("item"), or under ${ABSOLUTE_WORK_DIR}.   *)
(* `of` is Each for a file named after the item of the loop.               *)
Each == -2
Here(name) == [dir |-> "here", name |-> name, of |-> 0]
InItem(name) == [dir |-> "item", name |-> name, of |-> 0]
InWork(name) == [dir |-> "work", name |-> name, of |-> 0]
HereOf(name) == [dir |-> "here", name |-> name, of |-> Each]
None == Here("")

Command(op, reads, writes, mode, body) ==
    [op |-> op, reads |-> reads, writes |-> writes, mode |-> mode,
     body |-> body, item |-> 0]

Cd(to) == Command("cd", {}, None, to, <<>>)
Doc(path) == Command("doc", {}, path, "new", <<>>)
DocAppended(path) == Command("doc", {}, path, "append", <<>>)
Fetch(path) == Command("fetch", {}, path, "new", <<>>)
Cat(from, to) == Command("cat", from, to, "new", <<>>)
CpToItem(name) == Command("cp", {Here(name)}, InItem(name), "new", <<>>)
Mkdir == Command("mkdir", {}, None, "", <<>>)
Phonopy(from, to) == Command("phonopy", {Here(from)}, Here(to), "new", <<>>)
Program(reads, out, mode) == Command("program", reads, out, mode, <<>>)
For(pattern, body) == Command("for", {}, Here(pattern), "", body)

-----------------------------------------------------------------------------
(* One step: the input, then the program that reads it. *)
SingleStep(input, out) ==
    <<Cd("work"), Doc(Here(input)), Program({Here(input)}, Here(out), "new")>>

Octopus == SingleStep("inp", "octopus.out")
Orca == SingleStep("orca.inp", "own")
Gromacs == SingleStep("input", "own")
NWChem == SingleStep("nwchem.nw", "nwchem.out")
Gaussian == SingleStep("gaussian.gjf", "own")
Elk == SingleStep("elk.in", "elk.out")
Xtb == SingleStep("xtb.inp", "own")
GamessUS == SingleStep("gamessus.inp", "gamessus.out")
Exciting == SingleStep("input", "own")
DftbPlus == SingleStep("input", "own")
Dalton == SingleStep("DALTON.INP", "own")
QChem == SingleStep("qchem.inp", "own")
Lammps == SingleStep("input", "own")
Qmcpack == SingleStep("input", "own")

(* With pseudopotentials, copied to the working directory. *)
PwScf ==
    <<Cd("work"), Doc(Here("input")), Fetch(InWork("pseudo")),
      Program({Here("input"), Here("pseudo")}, Here("output"), "new")>>

Siesta ==
    <<Cd("work"), Doc(Here("input")), Fetch(Here("pseudo")),
      Program({Here("input"), Here("pseudo")}, Here("output"), "new")>>

Abinit ==
    <<Cd("work"), Doc(Here("abinit.abi")), Fetch(Here("pseudo")),
      Program({Here("abinit.abi"), Here("pseudo")}, Here("own"), "new")>>

\* A mutant of VaspInputs.
VaspInputsNoPotcar ==
    <<Cd("work"), Doc(Here("INCAR")), Doc(Here("KPOINTS")), Doc(Here("POSCAR"))>>

VaspInputs ==
    <<Cd("work"), Doc(Here("INCAR")), Doc(Here("KPOINTS")), Doc(Here("POSCAR")),
      Fetch(Here("POTCAR"))>>

VaspProgram ==
    Program({Here("INCAR"), Here("KPOINTS"), Here("POSCAR"), Here("POTCAR")},
            Here("own"), "new")

Vasp == Append(VaspInputs, VaspProgram)

(* CP2K's output goes through `tee -a`. *)
Cp2k ==
    <<Cd("work"), Doc(Here("input")),
      Program({Here("input")}, Here("output"), "append")>>

Neb ==
    <<Cd("work"), Fetch(InWork("images")), Cd("work"), Doc(Here("input")),
      Program({Here("input"), Here("images")}, Here("output"), "append")>>

(* Phonopy: the unit cell is displaced, every supercell gets its input and *)
(* is computed.  VASP, ABINIT and SIESTA: in a directory of its own.       *)
InEveryDirectory(program) == For("run-supercell", <<Cd("item"), program, Cd("up")>>)

\* A mutant of VaspSupercell.
VaspSupercellNoMkdir ==
    <<Cat({HereOf("POSCAR-")}, InItem("POSCAR")),
      CpToItem("INCAR"), CpToItem("KPOINTS"), CpToItem("POTCAR")>>

VaspSupercell ==
    <<Mkdir, Cat({HereOf("POSCAR-")}, InItem("POSCAR")),
      CpToItem("INCAR"), CpToItem("KPOINTS"), CpToItem("POTCAR")>>

VaspPhonopy ==
    VaspInputs \o
    <<Phonopy("POSCAR", "POSCAR-"),
      Cd("work"), For("POSCAR-", VaspSupercell),
      InEveryDirectory(VaspProgram)>>

AbinitSupercell ==
    <<Mkdir, Cat({Here("part-1"), HereOf("supercell")}, InItem("abinit.abi")),
      CpToItem("pseudo")>>

AbinitPhonopy ==
    <<Cd("work"), Doc(Here("abinit.abi")), Fetch(Here("pseudo")),
      Phonopy("abinit.abi", "supercell"),
      Cd("work"), Doc(Here("part-1")), For("supercell", AbinitSupercell),
      InEveryDirectory(Program({Here("abinit.abi"), Here("pseudo")}, Here("own"), "new"))>>

SiestaSupercell ==
    <<Mkdir, Cat({Here("part-1"), HereOf("supercell")}, InItem("fdf")),
      DocAppended(InItem("fdf")), CpToItem("pseudo")>>

SiestaPhonopy ==
    <<Cd("work"), Doc(Here("input")), Fetch(Here("pseudo")),
      Phonopy("input", "supercell"),
      Cd("work"), Doc(Here("part-1")), For("supercell", SiestaSupercell),
      InEveryDirectory(Program({Here("fdf"), Here("pseudo")}, Here("output"), "new"))>>

\* A mutant of PwSupercell.
PwSupercellUnitCell ==
    <<Cat({Here("part-1")}, HereOf("run-input")), DocAppended(HereOf("run-input"))>>

(* Quantum ESPRESSO and CP2K: side by side in the working directory. *)
PwSupercell ==
    <<Cat({Here("part-1"), HereOf("supercell")}, HereOf("run-input")),
      DocAppended(HereOf("run-input"))>>

PwPhonopy ==
    <<Cd("work"), Doc(Here("input")), Fetch(InWork("pseudo")),
      Phonopy("input", "supercell"),
      Cd("work"), Doc(Here("part-1")), For("supercell", PwSupercell),
      For("run-input", <<Program({HereOf("run-input"), Here("pseudo")},
                                 HereOf("output"), "new")>>)>>

Cp2kPhonopy ==
    <<Cd("work"), Doc(Here("input")),
      Phonopy("input", "supercell"),
      For("supercell", <<Program({HereOf("supercell")}, HereOf("output"), "append")>>)>>

Steps == [
    octopus |-> Octopus, orca |-> Orca, gromacs |-> Gromacs, nwchem |-> NWChem,
    gaussian |-> Gaussian, elk |-> Elk, xtb |-> Xtb, gamessus |-> GamessUS,
    exciting |-> Exciting, dftbplus |-> DftbPlus, dalton |-> Dalton,
    qchem |-> QChem, lammps |-> Lammps, qmcpack |-> Qmcpack,
    pwscf |-> PwScf, siesta |-> Siesta, abinit |-> Abinit, vasp |-> Vasp,
    cp2k |-> Cp2k, neb |-> Neb,
    vasp_phonopy |-> VaspPhonopy, abinit_phonopy |-> AbinitPhonopy,
    siesta_phonopy |-> SiestaPhonopy, pw_phonopy |-> PwPhonopy,
    cp2k_phonopy |-> Cp2kPhonopy]

(* The calculators that are looked at have a script. *)
ASSUME CalculatorAssumption == Calculators \subseteq DOMAIN Steps

-----------------------------------------------------------------------------
(* bash. *)

Resolve(path, item) ==
    <<CASE path.dir = "here" -> cwd
        [] path.dir = "work" -> Work
        [] path.dir = "item" -> IF cwd = Work THEN item ELSE Above,
      path.name,
      IF path.of = Each THEN item ELSE path.of>>

Exists(path) == path \in DOMAIN files
DirExists(d) == d \in {Work} \cup dirs

(* An unquoted ${item} that holds a pattern expands once more; with        *)
(* several matches a redirection is ambiguous.                             *)
Matches(name) ==
    IF name = "run-supercell"
    THEN IF cwd = Work THEN dirs ELSE {}
    ELSE {i \in Structures \cup {Star} : Exists(<<cwd, name, i>>)}

Ambiguous(path, item) ==
    /\ item = Star
    /\ \/ path.dir = "item" /\ Matches("run-supercell") \ {Star} # {}
       \/ path.of = Each /\ Matches(path.name) \ {Star} # {}

(* The file a redirection creates, if its directory is there. *)
Put(path, content) ==
    LET old == IF Exists(path) THEN files[path] ELSE {}
    IN  [f \in DOMAIN files \cup {path} |->
            IF f # path THEN files[f]
            ELSE IF todo[1].mode = "append" THEN old \cup content ELSE content]

Fails == clean' = FALSE /\ UNCHANGED <<cwd, dirs, files>>

Leaves(path) == [tag |-> path[2], of |-> path[3], pass |-> pass]

Sources(paths) == UNION {files[p] : p \in {q \in paths : Exists(q)}}

Next1(op) ==
    /\ todo # <<>>
    /\ todo[1].op = op
    /\ UNCHANGED <<calc, count, pass>>

Pops == todo' = Tail(todo)

-----------------------------------------------------------------------------
Init ==
    /\ calc \in Calculators
    /\ count \in Structures
    /\ todo = Steps[calc]
    /\ cwd = Work
    /\ dirs = {}
    /\ files = <<>>
    /\ pass = 1
    /\ clean = TRUE

ChangeDirectory ==
    LET to == todo[1].mode
        item == todo[1].item
    IN  /\ Next1("cd")
        /\ Pops
        /\ \/ /\ to = "work"
              /\ cwd' = Work
              /\ UNCHANGED <<dirs, files, clean>>
           \/ /\ to = "up"
              /\ cwd' = IF cwd \in dirs THEN Work ELSE Above
              /\ UNCHANGED <<dirs, files, clean>>
           \/ /\ to = "item" /\ cwd = Work /\ item \in dirs
              /\ cwd' = item
              /\ UNCHANGED <<dirs, files, clean>>
           \/ /\ to = "item"
              /\ \/ ~(cwd = Work /\ item \in dirs)
                 \/ item = Star /\ dirs # {Star}    \* cd: too many arguments
              /\ Fails

(* cat > file <<EOF *)
HereDocument ==
    LET path == Resolve(todo[1].writes, todo[1].item) IN
    /\ Next1("doc")
    /\ Pops
    /\ IF DirExists(path[1]) /\ ~Ambiguous(todo[1].writes, todo[1].item)
       THEN files' = Put(path, {Leaves(path)}) /\ UNCHANGED <<cwd, dirs, clean>>
       ELSE Fails

(* cp from the pseudopotential library or from where the images are. *)
FetchExternal ==
    LET path == Resolve(todo[1].writes, todo[1].item) IN
    /\ Next1("fetch")
    /\ Pops
    /\ \/ files' = Put(path, {Leaves(path)}) /\ UNCHANGED <<cwd, dirs, clean>>
       \/ Fails

(* mkdir fails on a directory that exists; nothing depends on its status. *)
MakeDirectory ==
    LET item == todo[1].item IN
    /\ Next1("mkdir")
    /\ Pops
    /\ dirs' = IF cwd = Work /\ ~(item = Star /\ dirs # {}) THEN dirs \cup {item} ELSE dirs
    /\ UNCHANGED <<cwd, files, clean>>

(* cat a b > c: what is missing is left out. *)
Concatenate ==
    LET item == todo[1].item
        from == {Resolve(p, item) : p \in todo[1].reads}
        to == Resolve(todo[1].writes, item)
    IN  /\ Next1("cat")
        /\ Pops
        /\ IF DirExists(to[1]) /\ ~Ambiguous(todo[1].writes, item)
           THEN /\ files' = Put(to, Sources(from))
                /\ clean' = (clean /\ \A p \in from : Exists(p))
                /\ UNCHANGED <<cwd, dirs>>
           ELSE Fails

Copy ==
    LET item == todo[1].item
        from == {Resolve(p, item) : p \in todo[1].reads}
        to == Resolve(todo[1].writes, item)
    IN  /\ Next1("cp")
        /\ Pops
        /\ IF /\ DirExists(to[1])
              /\ ~Ambiguous(todo[1].writes, item)
              /\ \A p \in from : Exists(p)
           THEN files' = Put(to, Sources(from)) /\ UNCHANGED <<cwd, dirs, clean>>
           ELSE Fails

(* phonopy -d: the supercells, each from the structure it read. *)
Displace ==
    LET from == {Resolve(p, 0) : p \in todo[1].reads}
        made == {<<cwd, todo[1].writes.name, i>> : i \in 1..count}
    IN  /\ Next1("phonopy")
        /\ Pops
        /\ \/ /\ \A p \in from : Exists(p)
              /\ files' = [f \in DOMAIN files \cup made |->
                              IF f \in made THEN {Leaves(f)} ELSE files[f]]
              /\ UNCHANGED <<cwd, dirs, clean>>
           \/ Fails

(* A program with its inputs may succeed; its output tells what it read.   *)
(* When it fails, its output is as it was or cut short.                    *)
RunProgram ==
    LET item == todo[1].item
        from == {Resolve(p, item) : p \in todo[1].reads}
        to == Resolve(todo[1].writes, item)
    IN  /\ Next1("program")
        /\ Pops
        /\ \/ /\ \A p \in from : Exists(p)
              /\ ~\E p \in todo[1].reads : Ambiguous(p, item)
              /\ files' = Put(to, Sources(from) \cup {Leaves(to)})
              /\ UNCHANGED <<cwd, dirs, clean>>
           \/ Fails
           \/ /\ DirExists(to[1])
              /\ ~Ambiguous(todo[1].writes, item)
              /\ files' = Put(to, {})
              /\ clean' = FALSE
              /\ UNCHANGED <<cwd, dirs>>

(* for item in pattern: the matches, or the pattern itself; the locale     *)
(* decides whether a literal * comes before the digits or after them.      *)
Loop ==
    LET found == Matches(todo[1].writes.name)
        numbered == Only([i \in Structures |-> i], found)
        literal == IF found = {} \/ Star \in found THEN <<Star>> ELSE <<>>
        Body(i) == [k \in DOMAIN todo[1].body |-> [todo[1].body[k] EXCEPT !.item = i]]
    IN  /\ Next1("for")
        /\ \E items \in {literal \o numbered, numbered \o literal} :
              todo' = FlattenSeq([k \in DOMAIN items |-> Body(items[k])]) \o Tail(todo)
        /\ UNCHANGED <<cwd, dirs, files, clean>>

(* The steps are executed once more, from the start: after the script was  *)
(* killed or had ended.                                                    *)
Again ==
    /\ pass < MaxPasses
    /\ pass' = pass + 1
    /\ todo' = Steps[calc]
    /\ cwd' = Work
    /\ clean' = TRUE
    /\ UNCHANGED <<calc, count, dirs, files>>

Execute ==
    \/ ChangeDirectory
    \/ HereDocument
    \/ FetchExternal
    \/ MakeDirectory
    \/ Concatenate
    \/ Copy
    \/ Displace
    \/ RunProgram
    \/ Loop

Next == Execute \/ Again

Spec == Init /\ [][Next]_vars

-----------------------------------------------------------------------------
Content == [tag: STRING, of: 0..Star, pass: 1..MaxPasses]

TypeOK ==
    /\ calc \in Calculators
    /\ count \in Structures
    /\ cwd \in {Above, Work} \cup dirs
    /\ dirs \subseteq Structures \cup {Star}
    /\ \A f \in DOMAIN files :
        /\ f[1] \in {Work} \cup dirs
        /\ f[3] \in 0..Star
        /\ files[f] \subseteq Content
    /\ pass \in 1..MaxPasses
    /\ clean \in BOOLEAN

(* The current directory is the working directory or one below it, whatever *)
(* fails during the first execution; later it is left only when an earlier  *)
(* execution had made the literal directory run-supercell-* for want of     *)
(* supercells.                                                              *)
LeavesOnlyAfterFailedPhonopy == cwd = Above => pass > 1 /\ Star \in dirs

(* As long as nothing failed and nothing literal is left from an earlier    *)
(* execution, phonopy and every program find the files written for them.    *)
Literal == Star \in dirs \/ \E f \in DOMAIN files : f[3] = Star

InputsAreThere ==
    clean /\ ~Literal /\ todo # <<>> /\ todo[1].op \in {"program", "phonopy", "cat", "cp"} =>
        \A p \in todo[1].reads : Exists(Resolve(p, todo[1].item))

IsPhonopy == \E i \in DOMAIN Steps[calc] : Steps[calc][i].op = "phonopy"
Appends == calc \in {"cp2k", "neb", "cp2k_phonopy"}

OutputNames == {"own", "output", "octopus.out", "nwchem.out", "elk.out", "gamessus.out"}
Outputs == {f \in DOMAIN files : f[2] \in OutputNames /\ Leaves(f) \in files[f]}

(* The supercells an output was computed from. *)
Computed(f) == {c.of : c \in {d \in files[f] : d.tag \in {"POSCAR-", "supercell"}}}

(* An execution that ends without a failure has computed every supercell,  *)
(* one output for each, also when it is a repetition that found the files  *)
(* of an earlier, failed or interrupted one; beside those there are at     *)
(* most outputs under a literal pattern.                                   *)
CleanEndComputesAll ==
    clean /\ todo = <<>> =>
        IF IsPhonopy
        THEN /\ \A f \in Outputs : f[1] # Star /\ f[3] # Star =>
                    \E i \in 1..count : Computed(f) = {i} /\ i \in {f[1], f[3]}
             /\ \A i \in 1..count : \E f \in Outputs : Computed(f) = {i}
        ELSE Outputs # {}

(* Every output of such an execution is made from the files of this        *)
(* execution, except where CP2K's output is appended to and under a        *)
(* literal pattern.                                                        *)
CleanEndIsOfThisPass ==
    clean /\ todo = <<>> /\ ~Appends =>
        \A f \in Outputs : f[1] # Star /\ f[3] # Star =>
            \A c \in files[f] : c.pass = pass

(* Both: what a clean execution leaves is complete and its own.            *)
CleanEnd == CleanEndComputesAll /\ CleanEndIsOfThisPass

(* What the help of --directory says of the directory of run(): "The       *)
(* working directory where calculation is happening".                      *)
CalculationInWorkDir ==
    todo # <<>> /\ todo[1].op = "program" => cwd # Above
=============================================================================
