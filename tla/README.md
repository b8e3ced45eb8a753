# atomsciflow: the specification project

AtomSciFlow is a workflow manager for atomistic calculations.  A *calculator*
object per simulation program (Abinit, CP2K, Quantum ESPRESSO, VASP, SIESTA,
...) holds the input parameters, turns a structure file into the program's
input, renders everything into one shell script and lets a *job scheduler*
object put that script into a working directory, execute it or submit it.

This directory holds TLA+ modules that model the library, TLC configurations
that check them, and proofs that TLAPS checks.  The code is in four places: the
C++ library in `src/src/atomsciflow/`, the C++ commands in `src/cmd/`, the Python
front end in `src/atomsciflow/` and its bindings in `src/pybind11/`.  Paths below
are relative to `src/src/atomsciflow/` unless they begin with `src/`.

Run from this directory: `tlc -config JobShared.cfg MCJobScheduler` (and so on,
one line per run of section 4), `tlapm JobSchedulerProofs.tla`.

## 1. Inventory

### JobScheduler - `server/job_scheduler.cpp`, `remote/server.cpp`

*State.* `run_params` (a string map: server, auto_level, xyz_file,
script_name_head, queue parameters) and `steps` (the text blocks of the
script).  On disk: the working directory.  *Operations.* `set_run`,
`set_run_default(platform)`, `run(directory)`, one `gen_*` per platform,
`server_handle`.  *Interaction.* Every calculator has a member `job`; it writes
`run_params` and pushes `steps`, then calls `job.run`.  The batch system and
bash execute the script later.  *Hard.* `run` is up to seven separate file-system
steps on a directory that other processes may be using; `remove_all` is among
them; a call may throw half-way; the batch job runs at any later time, when the
directory may have been rebuilt; nothing but the calculator's own discipline
keeps `steps` from growing over several runs.  *Correct when* what is executed
or submitted is what the last `run` asked for, complete, and in its directory.

### Calculators - `abinit/ cp2k/ qe/ vasp/ siesta/ elk/ octopus/ nwchem/ gamessus/ orca/ gaussian/ ...`

*State.* An input document (datasets, sections, namelists and cards, blocks,
directives), an `Xyz`, a `JobScheduler`.  *Operations.* `get_xyz`, `set_param`,
`set_status`, `set_kpoints`, `basic_setting`, `to_string`, `run`.  *Interaction.*
`run` renders the input into `job.steps` as here-documents and the commands
that read them.  *Hard.* All operations are legal in any order and any number
of times on one object; `to_string` and `run` of some calculators modify the
document they render; parts that must agree (number of types and list of
types, the tolerance switches, a count and its rows) are kept by separate
calls; the scripts have no `set -e`, so every command of theirs may fail and be
followed by the next.  *Correct when* the rendered input describes the structure
and the parameters last given, whatever was called before, and the script
computes it in the working directory.

### Structure, crystals and k-paths - `base/`, `utils.cpp`, `utils/structure.cpp`

*State.* `Xyz` (cell, atoms, element set), `Crystal`, `Kpath`.  *Operations.* Reading a
structure; supercells, redefined lattices, surfaces, vacuum layers, merged layers, moves,
tubes; the structure commands `atomsciflow_stru.py`.  *Hard.* Reading a second file
into the same object: atoms and cell are replaced, the element set grows; a
conversion from Cartesian to fractional coordinates rounds on the faces of the cell;
functions that assume a rectangular cell, one after the other.  *Correct when* a series of
them keeps the infinite crystal, and layers and tubes have the measures asked for.

### Variables and groups - `variable/`

*State.* `Variable` (type, two-dimensional value, status) and `VariableGroup`
(a map of them), the base of most input documents; `VariableV2` and `VariableGroupV2`
keep integers and doubles in two maps and are used by no calculator.  *Hard.* A name
may live in several groups; a status outlives a value; rows written over a longer table
leave its end.

### Script headers - `server/submit_script.cpp`

*State.* None; functions of `run_params`.  *Hard.* The keys a header reads are
set by several calls of `set_run_default`, the later of which overwrite the
earlier; `operator[]` inserts an empty value for a key nobody set.  *Correct when* a
header tells the scheduler what the command line said.

### Command lines - `src/atomsciflow/cmd/` (Python), `src/cmd/` (C++)

They parse options and map them to calculator calls in a fixed order; no state of
their own.  *Hard.* The order of calls that depend on one another; options that
reach nothing; methods that a binding does not expose.  *Correct when* structure, path
and parameters reach every input file of every calculation, and a command stops
half-way only for a cause its user can see.

### Post-processing - `post/`, `*/post/`, `src/atomsciflow/*/post.py`

*State.* A `Post` object: the rules (a pattern and what to do with a line that has it), the
lines read so far, the property tree; on disk `post.dir`.  *Operations.* `read`
(four threads apply the rules to each line), `set_kpath`, `run`, `extract_data`.
*Interaction.* It reads what the program left, possibly while it still runs, and is told
again what the calculator was told (the k-path, the number of supercells).  *Hard.*
Several files read at several moments; threads without a lock; an object used twice;
files of an earlier calculation in the directory; six or seven copies of one
algorithm with column numbers and counters of their own.  *Correct when* what it saves
or draws is of one calculation, at the right place of the axis, and complete.

### Remote access - `remote/ssh.cpp`, `src/cmd/atomsciflow_ssh.cpp`

*State.* A socket, a libssh2 session, server information from a file.
*Operations.* connect, execute (empty in the library), close.

### Configuration - `config/config_manager.cpp`

*State.* JSON files under `~/.atomsciflow`, written on first use.  *Hard.* Two
processes on their first use; a reader between the creation and the writing.

### Parsers, cubes, Plumed, Fortran, bindings

`parser/`, `cube_handle/`, `plumed/`, `src/fortran`: functions from files to files.
`src/pybind11/`: declarations that expose the C++ classes, which decide what a command
can call at all.

## 2. Plan

| # | modules | what | state |
|---|---------|------|-------|
| 1 | `JobScheduler` | building, executing, submitting the working directory; several processes | done, 5 theorems |
| 2 | `RunScripts` | the script of every calculator and bash | done, 4 theorems |
| 3 | `AbinitDatasets`, `AbinitCli` | Abinit's documents; the command and scripts composed with them | done, 7 theorems |
| 4 | `StructureFile` (abstract), `StructureInput` | structure files into inputs; the second implements the first | done, 5 theorems |
| 5 | `Cp2kSections`, `Cp2kCli` | CP2K's tree of sections and its paths; scripts and the command composed with it | done, 9 theorems |
| 6 | `Keywords` and nine input modules, `ScriptHeaders`, `CalcCommands` | the documents of the other seventeen calculators, headers, command and scripts | done |
| 7 | `Lattice`, `StructureTools`, `LayersAndTubes`, `StructureCommands` | structure functions and series of commands | done |
| 8 | `PostReader` (abstract), `PostRules`, `PostRuns` | reading outputs in threads beside a running calculation; the second implements the first | done, 6 theorems |
| 9 | `BandPaths`, `PhonopyPost`, `DensityPost` | calculator, program and plot together | done, 2 theorems |
| 10 | `Selections`, `RecursionLemmas` | loops over sequences as folds, and what can be proved of them | done |
| 11 | `ConfigStore` | first use by several processes | open |

## 3. Modules

### JobScheduler, MCJobScheduler, JobSchedulerProofs

`Proc` are calculator objects in operating-system processes of their own;
several may be told the same directory (`Uses`).  `run_params` keeps the three keys
that steer `run`.  `steps` keeps for each step the number of the `run` that pushed
it, so that a script which repeats an old calculation is recognised.  `kind`,
`scripts`, `copies` and `results` are the contents of each working directory; `kind` may
be *regular*, because `copy` onto a path that has just vanished makes a file of
that name.  `pc` is the next file-system call of `run`:

| action | code |
|--------|------|
| `SetAutoLevel`, `SetServer`, `GetXyz`, `SetRunDefault` | `set_run`, `get_xyz`, `set_run_default`, which also resets `auto_level` |
| `BeginRun` | the calculator's `run`: renew or extend `job.steps`, enter `JobScheduler::run` |
| `RemoveAll`, `CreateDirectories`, `CopyXyz` | lines 373-378, one call each; the last two may throw |
| `GenScript`, `GenBash`, `SystemBash` | the branch by server; `.sh` and `std::system` at level 2 |
| `ServerHandle` | `server_handle`: submission at level 3 |
| `RunJob` (external) | the batch system executes a spooled script, at any time |

Assumed of what is outside: `remove_all` and each write of a script are one step;
the batch system spools the script when it is submitted; `cd` before the submit
command succeeds.  `users` and `crossed` are history variables: who ever ran in a directory,
and whose present or last `run` another calculator's overlapped in its directory.  `Alone`
says that none did; what happened in the directory before does not matter then.

### RunScripts, MCRunScripts, RunScriptsProofs

`Steps` gives the command sequence each of the 25 `run()` methods writes; `todo` is
what bash still has to execute.  Files are keyed by directory, name and item, and
hold what they were *made from* (and in which execution): that is what the
properties tell apart.  Every fetch, phonopy and program may fail; a failed
command changes nothing or truncates its output, and the next command follows.  A
glob without a match is one item, the pattern itself (`Star`).  `Again` executes
the script once more in the same directory at any moment: a requeued or killed
job, or a second push of the same block.  Left out: the directory above the working
directory is one place whose contents are not modelled; a program whose input is
fixed by its command is only assumed to read that input; the `exit` of
QE's choice of pseudopotentials.

### AbinitDatasets, AbinitCli, MCAbinitCli, AbinitProofs

A dataset is a record: its number, the status of the groups that can be switched
off, and for every keyword who gave it (`set_param` or `use_tol`) and whether it is
switched on.  `datasets` only grows while `ndtset` goes up and down.  `Run` and
`RunPhonopy` change the documents they print, as the code does.  `AbinitCli`
has its two users: a script, which makes any `ScriptCalls` calls in any order, and the
Python command: the calls of the constructor of the calculation's class, `set_pot`,
`get_xyz`, the `--custom` parameters and `run`, in this order, each of them an action
of `AbinitDatasets`.  Not modelled: a run before a
structure is given and a `use_tol` beyond the datasets (both undefined in the
code), negative dataset numbers, values.

### Selections, RecursionLemmas

`Selections` has the one loop many functions of the code share, "go through the list and
keep what is in a set", as a fold.  `RecursionLemmas` proves of that fold, of
`FlattenSeq` and of the community modules' folds what the other proofs need for lists
of any length.

### StructureFile, StructureInput, MCStructureInput, StructureInputProofs

`StructureFile` is what a calculator promises: the program is given the structure of
the file read last.  `StructureInput` has twelve calculator classes and how each
carries `xyz.atoms` into its document: `Overlay` (rows written one by one over
what is there, with or without a stated count), replacement, or appending and
sorting.  An atom carries its file and place, so that a row of an earlier file is
recognised.  `std::sort` leaves the order of equal keys open: `Sortings` is the set of
the allowed results.  A Phonopy's `run` changes the count and leaves it changed
(`displaced`).  `kinds` is the number of species a document states, counted from the set of
elements; SIESTA's labels and indices come from a list instead that every `get_xyz` appends to.
Left out: files that cannot be parsed (`exit(1)`), `run` before the first
file, numerical values.

### Cp2kSections, Cp2kCli, MCCp2kCli, Cp2kProofs

`sections` is the tree: a function from the names on the way to a section to its
argument and its parameters; a name is the key of the C++ map, index included
(`kind[H]`).  `Prepared`, `WithArguments` and `WithParam` are the parts of `set_param`,
`Visited` the pointers it dereferences; `crashed` is set when one of them is null, or
when `set_kpoint_set` gets a k-path without a point.  `WithSubsys` puts the new subsys in
the place of the old one, as `add_section` does.  `PrintedImages` is the order in
which a `std::map` iterates over `replica[i]`: `Place` counts the names, compared as text,
of the first hundred numbers.  `wanted` and `listed` are history variables: what was
set last, by section and key, as long as no call renews that section; and the images there
were at the last `run`.

`Cp2kCli` starts in one of two ways: a script calls the object as it likes, or
`plan` holds the calls of `cp2k_processor`, which `Commanded` takes off one at a time.
`Cp2kClasses` is what the constructors set.  `Raise` is the Python exception for a
`--calc static` or `band` without `--kpath` and a `neb` without `--images`.  The values of
the class are one value, since no property compares two of them.  `OneSpelling`,
`OthersAreLeft`, `KpointsAreLeft` and `StructureIsLeft` are the hypotheses of the theorems:
the options write a parameter in one way; options, classes and scripts set nothing in
`kpoint_set`, `coord` and `replica` and give no `kind` a name, which a later `get_xyz`
or `set_kpoint_set` would not undo.  TLC evaluates them for the instance (`MCHypotheses`).

### Keywords, the input modules, ScriptHeaders, CalcCommands, MCCalcCommands

`Keywords` is what `VariableGroup`, cards, blocks and directives have in common: a
document is a function from places to tables of words, each switched on or off; a call
is a series of *edits* (`set_param`, `set_block_data`, a cell, an option, removal), and
`Perform` is one edit on an object with its `job.steps`.  `PwInput`, `SiestaInput`,
`OctopusInput`, `ElkInput`, `NWChemInput`, `VaspInput`, `GamessInput` and
`SmallInputs` say, each for its program, which edits the constructors of the classes
(`New`), `get_xyz`, `set_kpath`, a custom parameter and `run` make, and which text a
step of the script holds (`Text`): what is switched off, or in a group that is not
printed, is not in it.  `ScriptHeaders` adds the directives of the eight headers.

`CalcCommands` is the state machine: `CommandCall` takes the calls of a command line
off one at a time, `CommandRun` runs; `ScriptXyz`, `ScriptPath`, `ScriptCustom`,
`ScriptExtra` and `ScriptRun` are the same calls in any order.  `mine` is a history
variable: what the user set and nothing has set since.  A failure ends the object
(`raised`, `exited`, `undefined`).  `ranSince` is another: the supercells
asked for in the runs since the last `get_xyz`.  The programs' words are opaque strings where
no property compares them.  The structure files of one object have the same elements and
different numbers of atoms here (`AtomsOf`; files with other elements are `StructureInput`'s):
an atom is a row, so that the rows of a longer file stay where the code leaves them, counts
are numbers, and SIESTA's labels and VASP's elements grow by one list with every
`get_xyz`.  `Parts` says which places of an input make a structure.

### Lattice, StructureTools, LayersAndTubes, StructureCommands, MCStructureCommands

Coordinates are integers in a small unit, so that conversions to fractional coordinates
are exact: a numerator over the volume.  Where the code compares a computed
fraction with 0 or 1, `low` chooses the axes along which it came out below.  A result that
is no whole number of units is outside (the `Possible` operators say so).  The radius of
a tube is a length over 2 pi: rolled coordinates are pairs of a multiple of it and a
half-integer.  `StructureCommands` applies any function to any structure it got before,
and a command's structure passes through the file that it writes and the next one reads:
the lines of an xyz file (`Saved`, which the reader counts) or a cif file (`Convert`).  `base`
is a history variable: the crystal the structure stands for, and where it was moved.

### PostRules, PostReader, PostRuns, PostRunsProofs

`PostRules` gives the rules of eight classes as operators on the tree, by the kind of
line they find.  In `PostRuns` the calculation writes its output, positions and cell
step by step, ends, and may be executed again in the same files, while `run` reads lines, starts
four threads (`Thread(t)`: one rule at a time; `Join` waits for all of them), writes the tree
and then reads the structure from other files.  `PostReader` is the promise: line by
line, rule by rule, in order; `Sequential` is the refinement.  Threads interleave between
rules; a rule that writes the tree is one step, which is sound as long as no two threads write
for one line - and `Sequential` would not hold if they did.

### BandPaths, PhonopyPost, DensityPost, MCBandPaths, BandPathsProofs

A path is a sequence of points with the number of k-points to the next, 0 for a break.
`SetKpath`, the program (external: which k-points it computes for which input) and
the plot are three actions of one module, so that a coordinate of the plot can be traced to
the point it was computed at.  A coordinate counts steps, since only equality of
coordinates matters.  `PhonopyPost` has the phonon classes: `phonopy -d` again with another
number of supercells, inputs and outputs up to a point, `analysis.sh` and
what of it fails.  `DensityPost` has six density-of-states classes: the files a program leaves (external) are
columns, each the set of the channels (orbital of an atom with a spin) it holds the
sum of; a curve is the bag of the channels that were added to it.

## 4. Runs

| run | question | result |
|-----|----------|--------|
| `job_shared` | Two calculators rebuild two directories; one structure file lies inside one of them.  What survives every interleaving? | A clearing calculator's script is of one run (`OneRunPerScript`); a run that no other overlaps finds its script and structure in place at `server_handle` (`DeliveredRun`) and throws only for a missing structure file (`ThrowNeedsCause`) |
| `job_levels` | Every level and server, three runs of one calculator, with fairness | What is submitted is the script this run wrote (`SubmittedIsOwn`); script and structure are there when `server_handle` looks (`DeliveredRun`); level 3 delivers, unless run again (`LevelThreeDelivers`) |
| `scripts_all` | All 25 scripts, up to three executions, any command failing | The working directory is left only after phonopy had failed before; a program finds its inputs (`InputsAreThere`); a clean end has computed every supercell from this execution's files (`CleanEnd`) |
| `scripts_rerun` | Does every program start in the working directory or below? | Violated by VASP's phonopy script, executed again after phonopy had failed |
| `abinit` | Scripts of any five calls, every calculation class of the command | Datasets in effect exist, one used tolerance, structure of dataset 0 only, types number the elements; every keyword that a command's class or `--custom` sets is printed for its dataset (`SettingsReachInput`) |
| `structure_reread` | Three files into one object, twelve classes | Eight classes implement `StructureFile` (`CalculatesFile`); NWChem's stale atoms follow the structure; a sorted POSCAR is the file; every element has a species among those counted and its own pseudopotential, and SIESTA's indices are within NumberOfSpecies exactly as long as one file was read (`SpeciesServeAtoms`) |
| `cp2k_users` | Any five calls on an object of two classes, and every command line of twelve | What was set stays set while other sections are made or renewed; a crash needs a path without a section or an empty k-path; the input has the last structure, each element with one kind, the images in order (up to ten), the last k-path, what `--custom` says |
| `calc_commands` | Seventeen calculators: every calculation with pairs of parameters, file and path; scripts of up to six calls | The user's parameters and the path are in every input file, and the structure read last: whole, counts included, if and only if no case of `Spoiled` applies (`StructureInEveryInput`); a step follows those it reads; a failure has one of the causes named; headers say what the command line said |
| `structure_tools` | Two structure functions on four structures, with every rounding on a face | The infinite crystal is kept, also through xyz and cif files (`SameCrystal`); gaps and tubes have the measures asked for (`BuiltAsAsked`) |
| `structure_redefine` | Has a redefined lattice all of its atoms? | Violated in a cell that is not rectangular |
| `post_runs` | Output read while the calculation runs, is executed again, or is read twice | Four threads give what the rules give in order (`Sequential`, a refinement); a saved structure is of one step and named for what it is (`SavedStructure`); an object used again repeats its lists, and only those (`ListsRepeat`) |
| `post_plots` | Band paths of seven programs, phonons of six, densities of states of six, objects used again | Tics stand at their points and breaks have no width (`AxisFollowsPath`); tics name their points (`TicsNameStops`); FORCE_SETS is of every supercell of this calculation; projected curves hold every orbital once |

The two violations are disagreements of the code with its own help text and comment;
PROJECT.json quotes both under "findings".

**Bounds.**  Two processes are enough for the scheduler's hazards: each is between
one process and one other that rebuilds its directory; three runs let one
execution lie between two others.  A supercell loop shows every defect with two
items (the first, and one that comes after a failed one); three executions let
a literal directory be made, used and met again.  Two datasets beyond 0 and five calls:
grow, give, shrink, grow, run.  Files of one or two atoms over three elements with
three reads: longer, shorter and again longer, with an element leaving and coming
back; one element has no pseudopotential.  CP2K's scripts have five
calls (read, set below subsys, read again, set a parameter twice), on the two classes
whose own calls differ; twelve images are more than the ten that print in order.  The
other calculators' scripts have six calls: up to three structures, of which the second is the
longest, two paths, two parameters, two runs; their parameters are one the constructor sets too, one with several words or
rows, and one that goes wrong.  Structures have two atoms in two rectangular and two
oblique cells, and series of two functions: the second meets what the first left.
Post-processing: two executions of two steps, two runs, three of these together; rules
are shared out to four threads, as in the code.  Band paths have two to four points with
up to three k-points between them or a break, a first and a last one included; supercells
are counted 1, 999, 1000 and 10000, the edges of their three- and four-digit ranges; a
density of states has up to three atoms of two elements with two spins.  `MaxRuns`,
`MaxPasses`, `MaxCalls`, `MaxReads`, `MaxSteps`, `MaxTurns` bound the calls and,
with `MaxAtoms`, are the only constraints.

**Deadlock** is not checked (`CHECK_DEADLOCK FALSE`) where the object may simply
not be used any more or the script has ended: all but the two job runs.

**Fairness** (`FairSpec`, for `LevelThreeDelivers`): weak fairness of
the sequential code inside a call of `run` - it has no loop and waits for nothing
but the file system and `std::system` - and of the batch system taking a job,
which is what a batch system is for.  Nothing is assumed of users: nobody has
to call `run` again, and configuration steps need not happen.

**What the properties leave out, because the code does otherwise.**  These were met while
modelling and are visible in the models:

- `--server yhbatch` at level 3 generates and submits nothing (`server.cpp:64`); levels 4
  to 6 behave as level 1.
- A second `run` of Abinit's Phonopy has no structure; a `--custom` keyword of Abinit's
  dfpt group is never printed.
- A second `get_xyz` doubles the elements, atoms and potentials of VASP (`vasp_poscar.cpp:46`) and
  SIESTA's labels, whose indices then exceed NumberOfSpecies (`siesta.cpp:158`, `:177`).
- A Phonopy object that runs again without a `get_xyz` in between has QE's nat of the supercell
  (`qe/phonopy.cpp:114`) or lacks SIESTA's counts (`siesta/phonopy.cpp:82`); Elk's never has
  atoms again (`elk.py:103`).  NWChem keeps the atoms that a longer file had more.
- More than ten CP2K images are listed out of order; a shorter SIESTA path keeps the end of
  the longer one.
- `--custom-file` of VASP's phonopy and of GAMESS ends with a TypeError, since the binding
  lacks the overload; Octopus' `md` has no branch; SIESTA's `static` demands `--kpath`.
- Headers: `-n` of llhpc is the number of tasks of one node; `--queue` and
  `--jobname` are not handed over.
- VASP: `set_runtype` resets ENCUT and three others; LEPSILON and LRPA are never printed
  (`vasp_incar.cpp:105` spells dftp); its band list states one point too few of a segment
  with one k-point.
- QE: `additional_k_pionts` (sic) is the only spelling of that card; a
  mesh without shifts makes Band and Dos raise.
- NWChem: a path without an index is looked up out of bounds (`nwchem.cpp:107`).
- Structures: a tube around c on the plane bc has lost its centre; `tube --plane ac` and
  `bc` import each other's function and raise (`atomsciflow_stru.py:302-307`), so that these
  tubes are those of the binding.
- Post-processing: `extract_data` is called for phonons of three of the six programs only; the status of
  `analysis.sh` is ignored; above 9999 supercells (CP2K: 999) no FORCE_SETS is made; a break before
  GAMMA splits a label that has one part (`utils.cpp:108`, `vasp/post/phonopy.cpp:266`);
  files of an earlier, larger calculation are added into a density of states.

## 5. Theorems

TLAPS proves the following for every value of the constants that satisfies the
modules' assumptions: any number of processes, directories, servers, runs, supercells,
executions of a script, keywords, datasets, elements, atoms and files.

| theorem | statement |
|---------|-----------|
| `JobSchedulerProofs!TypeCorrect` | `TypeOK` |
| `JobSchedulerProofs!ScriptsOfOneRun` | `OneRunPerScript`, by `FreshSteps`: inside a call, the steps of a clearing calculator are those of this call |
| `JobSchedulerProofs!JobsAreOfTheirRun` | `SubmittedIsOwn`, by `OwnInv` |
| `JobSchedulerProofs!RunsDeliver` | `DeliveredRun`: a run that no other overlaps has its script and structure in place, by `OwnInv` |
| `JobSchedulerProofs!ThrowsHaveCause` | `ThrowNeedsCause`, an action property, by `OwnInv` |
| `RunScriptsProofs!FormHolds` | `FormInv`: every script of the program, executed any number of times, stays the script it was, and a file made from a supercell belongs to this supercell |
| `RunScriptsProofs!LeavesOnlyAfterFailure` | `LeavesOnlyAfterFailedPhonopy`, by `LeaveInv` |
| `RunScriptsProofs!InputsFound`, `CleanEndHolds` | `InputsAreThere`, `CleanEnd`, by `CleanInv` |
| `AbinitProofs!TypeCorrect`, `DatasetsExist`, `TolerancesExclude`, `StructureOfDatasetZero` | `TypeOK`, `DatasetsInEffectExist`, `OneUsedTolerance`, `SystemOfDatasetZero`, by `AbinitInv` |
| `AbinitProofs!TypesNumberElements` | `TypesCountElements`, by `TypesInv` |
| `AbinitProofs!UsersMakeCalls` | `CliSpec => Spec`: commands and scripts implement the calculator in any order of calls, so that the theorems above hold of every user |
| `AbinitProofs!CommandsReachInput` | `SettingsReachInput` of every command, by `TodoInv` and `CommandInv` |
| `StructureInputProofs!TypeCorrect` | `TypeOK`, by all invariants of the module |
| `StructureInputProofs!InputsDescribeFile` | `CalculatesFile`: the eight classes that keep the file's order implement `StructureFile`, by `StructureInv` |
| `StructureInputProofs!NWChemKeepsStaleAtoms` | `StaleAtomsFollow`, by `StructureInv` |
| `StructureInputProofs!SpeciesAlwaysServe`, `GroupsAreFiles` | `SpeciesServeAtoms`, `GroupedIsFile`, by `SpeciesInv` and `InputInv` |
| `Cp2kProofs!ParametersAreKept` | `SetIsKept`, by `KeptInv` |
| `Cp2kProofs!CrashesNeedCause` | `CrashNeedsCause`, by `KeptInv` and `CrashInv` |
| `Cp2kProofs!KpointSetsAreSegments` | `KpointSetsFollowPath`, by `KpointsInv`, if no other parameter that is set is in a `kpoint_set` (`KpointsAreLeft`; TLC evaluates it for the classes of the command) |
| `Cp2kProofs!StructureReachesInput` | `StructureIsComplete`, by `StructureInv` and `ImagesInv`, under `StructureIsLeft` |
| `Cp2kProofs!CommandsKeepParameters`, `CommandsCrashNeedCause`, `CommandsFollowKpath`, `CommandsReachStructure` | the four properties above of `CliSpec`, every command and script, by `PlanInv` |
| `Cp2kProofs!CustomIsInInput` | `CustomReachesInput` of every command, by `CommandInv`, under `OneSpelling` and `OthersAreLeft` |
| `PostRunsProofs!FramesAreWhole`, `FinishedIsOneStep` | `PositionsAndCell` and `OverIsOneStep`, two of the three parts of `SavedStructure`, by `IInv` |
| `PostRunsProofs!SavedIsNamedRight` | `SavedStructure` as a whole, by `OptInv` |
| `PostRunsProofs!ThreadsShareRules` | every rule is in the share of exactly one of the four threads, for every number of rules |
| `PostRunsProofs!ThreadsReadSequentially` | `Sequential`: the four threads implement `PostReader`, by `ReadInv` |
| `PostRunsProofs!ListsAreRepeated` | `ListsRepeat`, by `RepeatInv` and `ReadInv` |
| `BandPathsProofs!ForcesAreOfThisCalculation` | `ForcesOfThisCalculation`, by `CellsInv` and `ForcesInv` |
| `BandPathsProofs!TicsAreNamed` | `TicsNameStops`, by `PathsInv` and `TicsInv`, under `ProperPaths` |

*OwnInv.*  `SubmittedIsOwn` is not inductive: it says nothing of the calls between
`remove_all` and `server_handle`.  `OwnInv` adds what each of those calls has
established while no other run overlapped (`AloneReady`: after `remove_all`
nothing is there, after `create` it is an empty directory, after `copy` the structure is in
it, after `script` this run's script is), that a directory holds one script per name and
only of those that used it (`ScriptsInPlace`), that whoever is inside `run` is known as a
user (`UsersKnown`), and that `crossed` has all who share a directory at the moment
(`CrossedKnown`).  The step that matters is another process entering the directory: it puts
both into `crossed`, and nobody else's step touches the directory of one who is not
(`AloneUntouched`).  `ThrowsHaveCause` follows step by step: in a run of its own,
`create_directories` finds nothing and `copy` an empty directory, so that
of the conditions under which they throw only the missing file is left.

*The invariants of `RunScripts`.*  What the 25 scripts share is said once: `Lawful` lists the
commands a script is made of and asks that each finds what it needs among what the
earlier ones give, that a loop over directories comes last and after one that makes
them, and that outputs are given.  `ScriptsAreLawful` proves it of every script of `Steps`,
for any number of supercells; no later step looks at a single script.
`FormInv` says that what is still to be executed is the rest of the script, with the
current loop unrolled in its place (`ExpandIs`, `TriplesIs`, by induction over what the glob
matched), and that a file holds no part of another supercell than its own.  `LeaveInv`
adds where the script is: in the first execution there are directories of supercells or
the one of the literal pattern, never both, so that a loop enters no directory it cannot
leave.  Later executions may have both, which is the behaviour that
`scripts_rerun` shows.  `CleanInv` adds, for an execution in which nothing has failed, that
the files of this execution with what the rest of the script gives are all that the whole
script gives (`Have`, `ReadyTo`), and `CleanEnd` follows when nothing is left.
Assumed are `CalculatorAssumption`, that the calculators have a script, and that there may be at
least one supercell and one execution.  TLC checked the three invariants on the instance of
`scripts_all` before they were proved.  `TypeOK` of this module is not proved: the provers
cannot show that a word is in `STRING`.

*AbinitInv.*  `OneUsedTolerance` must hold also of datasets that a smaller `ndtset`
put out of effect, since a later `set_ndtset` brings them back; `DocumentInv` carries
what `WithoutSystem` does to the documents into the printed input.  *TypesInv* adds that
the numbers of the types are distinct and not above the number of elements, which needs the
lemmas about what a loop over the atoms collects; that each number then has its element,
which `znucl` prints at its place, follows by counting (`FS_Injection`).
*CommandInv of Abinit* says of a command how many of its calls are made, and that what these
set is in the datasets, unless a later `use_tol` switched it off.  It is inductive because a
class makes its datasets before it sets them (`WellOrdered`, proved of every
calculation), and because the groups stay enabled until `run` switches some off.

*StructureInv.*  The structure is a prefix of the rows, whatever longer file was read
before, and the stated number is its length unless a Phonopy has displaced it.
`CalculatesFile` is then a refinement: each `get_xyz` is a `Read`, each `run` a
`Calculate` (`InitOfFile`, `StepOfFile`), and `run` of an unchanged document a stutter.

*SpeciesInv* says of the object, *InputInv* of the last input, that every element has a species, that
Siesta's indices are places of species of that name, *KindsInv* that these are as many as are
counted after one file and more after each later one, and that a document grouped by
elements is the file, group by group.  The lemmas about `Only` and `FlattenSeq` carry it
over files of any length: the groups are disjoint selections that together have
every atom (`OnlySplits`, `OnlyTwice`).

*KeptInv.*  `SetIsKept` with what makes an update of a section meaningful: every
section has parameters and what is wanted is a pair of a section and a key.  One
lemma for each operation on trees says which sections it keeps; a call keeps the
invariant when it forgets what was wanted of the others (`ForgetKeeps`).
`CrashesNeedCause` rests on `PreparedKeeps`: `set_param` makes every section of its path
before it looks them up.
*KpointsInv* follows the k-point sets: those that are there have the parameters of a
segment and a number some k-path had, and the first ones are the last k-path, segment
by segment.

*StructureInv, ImagesInv.*  Every element ever read has its kind with basis set and
potential, no other kind has a name, and the coordinates are those read last: `new_section`
and `set_param` change none of it on a path that leaves the structure alone.  The replicas of
the tree are numbered below the number of images, those of the input are the images of the
last `run`.  Their order is proved by counting: the places of the first hundred
numbers differ (`PlacesDiffer`), so that for every number up to how many there are one image has as many
before it (`Ranks`); up to ten, its place is its own number (`RankUpToTen`).

*Commands of CP2K.*  The theorems hold for `AnyCall(S)`, any call with a path of a set
`S`; a step of a script is one (`NextIsAnyCall`), and so is a step of a command, whose
calls still to be made are calls (`PlanInv`, `CliStep`).  `PlanIs` takes the plan of a command apart: a prelude, the
parameters of the file, those of the dict, `run`; `DictIs` says what a Python dict keeps.
*CommandInv of CP2K*: until `run`, each parameter set by the calls made so far, and by none
of them again, is `wanted`; nothing that follows but `set_param` and `run` forgets it (`PlanOrdered`), and
`SetIsKept` puts it into the tree that `run` prints.

*IInv of `PostRuns`.*  What is saved depends on what the calculation did between two
reads.  `FilesInv` says that its files are at most one step apart, and not at all once it
is over; `RunInv` that the frame `run()` holds is one the calculation had written, the last
one if it was over before; `SavedInv` that what was saved stays so when the files grow or
are started again.  `CalculationGoesOn` and `CalculationKeepsRuns` are the steps of the
calculation, every other step leaves its files alone.  *OptInv* follows the word
`optimized`: what tells of convergence is in the output, the lines or the tree only when
the calculation had converged, and the frame `run()` holds is then its last.

*ReadInv of `PostRuns`.*  The refinement needs that the order of the threads does not
matter.  No line of the output is matched by two rules of its class (`Sound`, one lemma
for each class), so one thread at most has something to do for it; while the threads are
at work the tree is the one before the line or, when that thread is through, the one
after it (`ThreadInv`), and the reader of `PostReader` goes on when they join.

*RepeatInv of `PostRuns`.*  A list of energies grows by one value with each line of its
rule (`LineCounts`), whichever list of its class that is (`EnergyIsRead`: each class has one
such rule, and no other writes that list).  `PassedInv` counts while the threads are at work:
the list holds what it had to hold before this reading, and one value for each energy among the lines
they have passed (`Tally`), so that after the last line it holds what `seen` says (`TimesOf`).
`RepeatInv` adds that the lines of the object are the outputs it has read, one after another
(`SumsTo`), so that a reading of all of them adds the newest once and the older ones once
more (`TimesGrow`), and that an output has as many energies as steps.  `ReadInv` gives that the threads
together have written nothing else when they join.

*ForcesInv.*  `ForcesOfThisCalculation` speaks of the directory as it is; `ForcesInv` of the one a
plot was made of, so that later displacements do not disturb it.  `CellsInv` keeps the
counts of the directory in their order; in a finished one they are equal, and the shell then
expands the file names `run()` has made to just that many (`ExpandedOne`, `ExpandedTwo`).

*TicsInv.*  The labels of a plot are made in another loop than the stops they belong to: point by
point with the link before it (`ByLinks`), or set by set from what is joined
(`SetLabels`, `PhononLabels`).  Each loop is a sequence of steps (`StopsSteps` to
`PhononLabelSteps`), and two of them are walked along together.  Point by point, a label and
its stop grow alike (`LinksName`).  Set by set, the labels are as many as the stops
only if every point is joined to another and the path begins and ends with a joined segment
(`Connected`, `BreakOfSets`); for CP2K this is an exception of the property, while phonopy
computes no band otherwise (`BandOfJoined`).  `PathsInv` says that the paths in the state are those that
were given, and that CP2K's object holds no sets before its first plot.
`ProperPaths` is assumed: neighbours have different names, and the last point leads nowhere; two
neighbours of one name would be one place to the set loops.  TLC evaluates it for the paths of `post_plots`.

*Induction.*  The provers take no induction rule with an operator as parameter.
`RecursionLemmas` states induction over sets instead (`InductionOnNat`, `InductionOnSeq`: a
set that has the empty sequence and with a sequence every one longer by an element has
all), proves them from well-foundedness, and derives that the folds exist and what
they compute.

**Model-checked only.**  The liveness property `LevelThreeDelivers` (liveness under
fairness is out of the prover's reach);
`CalcCommands`, a series of calls with given parameters; `AxisFollowsPath` and
`ProjectionsAddUp` of `BandPaths`, which compare sums and bags that recursion over the rows and
files makes; the structure functions, whose statements are arithmetic over given cells;
`TypeOK` of `RunScripts`, since the provers cannot show that a word is in `STRING`.

## 6. Not modelled, and why

- *Remote access*: `execute` is empty in the library; nothing depends on a connection.
- *Configuration files*: one write per user and no later state; the race of two first
  uses is in the list of hazards.
- *Command line (C++)*: the same few calls as the Python commands make;
  `src/cmd/atomsciflow.cpp` does not compile at this commit (line 583 passes an int where a
  string is expected).
- *Text*: regular expressions, formats and reports of the post-processing and the
  parsers; the tables of keywords, elements and radii.
- *Unused code*: `variable_v2`, `group_v2`, `qe/misc.cpp`, the `basic_setting_*` functions of
  `PwScf`, CP2K's C++ class `Opt`, functions of `utils.cpp` that nothing calls.
- *Real arithmetic*: cubes, the Fortran library, thermodynamics of phonons, and results of
  structure functions that are no whole number of units.
- *Plumed, bindings, build*: formatting and declarations.
