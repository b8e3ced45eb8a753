-------------------------- MODULE AbinitDatasets --------------------------
(***************************************************************************)
(* The ABINIT calculator: class Abinit with its datasets and the derived   *)
(* class Phonopy.  Dataset 0 holds the common settings, datasets 1..ndtset *)
(* those of one step each; a keyword of dataset i is written with the      *)
(* suffix i.  Every dataset routes a keyword to one of its groups          *)
(* (electrons, ions, dfpt, misc), each with a status of its own, and the   *)
(* structure belongs to dataset 0.                                         *)
(*                                                                         *)
(* All operations may be called in any order and any number of times; one  *)
(* action is one call.                                                     *)
(***************************************************************************)
EXTENDS Integers, Sequences, FiniteSets

CONSTANTS
    Tols,       \* the keywords use_tol switches between
    Electrons,  \* the other keywords in charge of AbinitElectrons
    Ions,       \* the keywords in charge of AbinitIons
    Dfpt,       \* the keywords in charge of AbinitDfpt
    Misc,       \* keywords of no other group
    Basic,      \* the keywords of AbinitElectrons::basic_setting
    DfptBasic,  \* the keywords of AbinitDfpt::basic_setting
    KpointKeys, \* the keywords in charge of Kpoints
    Pots,       \* pseudopotential families
    DefaultTol, \* the tolerance of the constructor
    DefaultPot, \* the pseudopotentials of the constructor
    Element,    \* chemical elements
    Structures, \* structure files, as the sequence of their atoms
    MaxNdtset,  \* bound: values given to set_ndtset
    MaxCalls    \* bound: calls after the constructor

Keys == Tols \cup Electrons \cup Ions \cup Dfpt \cup Misc

ASSUME AbinitAssumption ==
    /\ DefaultTol \in Tols
    /\ DefaultPot \in Pots
    /\ Basic \subseteq Electrons
    /\ DfptBasic \subseteq Dfpt
    /\ "none" \notin Pots
    /\ Structures \subseteq Seq(Element) \ {<<>>}
    /\ Tols \cap Electrons = {}
    /\ MaxNdtset \in Nat \ {0}
    /\ MaxCalls \in Nat
    /\ Ions \cap (Tols \cup Electrons) = {}
    /\ Dfpt \cap (Tols \cup Electrons \cup Ions) = {}

VARIABLES
    class,      \* Abinit or Phonopy
    ndtset,
    size,       \* datasets.size()
    datasets,   \* the AbinitInput of every dataset
    pseudo_ext, \* the pseudopotential files that run() copies
    pseudos,    \* the pseudopotential files that the input names
    coordtype,  \* datasets[0]->system->coordtype
    elem_typat, \* datasets[0]->system->elem_typat
    elements,   \* the elements of the current structure
    species,    \* datasets[0]->system->xyz.elements_set
    files,      \* history: the elements of the first structure file
    abi,        \* the last abinit.abi
    runs,       \* calls of run()
    calls,      \* calls of anything
    exited      \* std::exit was called

structure == <<pseudos, elem_typat, elements, species, files>>
vars == <<class, ndtset, size, datasets, pseudo_ext, coordtype, structure, abi,
          runs, calls, exited>>

-----------------------------------------------------------------------------
(* A parameter: absent, or given by set_param or by use_tol, and enabled.  *)
Absent == [by |-> "nobody", status |-> FALSE]
Given(caller) == [by |-> caller, status |-> TRUE]
Param == [by: {"nobody", "set_param", "use_tol"}, status: BOOLEAN]

Input == [n: Nat, system: BOOLEAN, ions: BOOLEAN, dfpt: BOOLEAN,
          params: [Keys -> Param], kpoints: [KpointKeys -> BOOLEAN]]

(* AbinitInput::AbinitInput and the constructors of the groups. *)
NewInput(n) == [n |-> n, system |-> TRUE, ions |-> TRUE, dfpt |-> FALSE,
                params |-> [k \in Keys |-> IF k \in DfptBasic THEN Given("set_param")
                                                             ELSE Absent],
                kpoints |-> [k \in KpointKeys |-> FALSE]]

(* AbinitInput::set_param: whatever the group, the variable is a new one.  *)
WithParam(input, k) == [input EXCEPT !.params[k] = Given("set_param")]

\* A mutant of WithTol.
WithTolKept(input, t) == [input EXCEPT !.params[t] = Given("use_tol")]

(* AbinitElectrons::use_tol: the others are switched off, not removed. *)
WithTol(input, t) ==
    [input EXCEPT !.params =
        [k \in Keys |-> CASE k = t -> Given("use_tol")
                          [] k \in Tols \ {t} -> [@[k] EXCEPT !.status = FALSE]
                          [] OTHER -> @[k]]]

(* AbinitSystem::to_string, for one dataset or for all: how many types are *)
(* stated, and for each number from 1 on the element whose nucleus is      *)
(* printed.  The atoms are printed by their elements' numbers.             *)
System ==
    [ntypat |-> Cardinality(species),
     znucl |-> [i \in 1..Cardinality(DOMAIN elem_typat) |->
                   {e \in DOMAIN elem_typat : elem_typat[e] = i}]]

(* AbinitInput::to_string: the keywords of the groups that are enabled. *)
GroupEnabled(input, k) ==
    CASE k \in Ions -> input.ions [] k \in Dfpt -> input.dfpt [] OTHER -> TRUE

Lines(input) ==
    {[n |-> input.n, key |-> k] : k \in {q \in Keys : input.params[q].status
                                                     /\ GroupEnabled(input, q)}}

WithoutSystem(inputs) ==
    [i \in DOMAIN inputs |-> IF i \in 1..ndtset THEN [inputs[i] EXCEPT !.system = FALSE]
                                                ELSE inputs[i]]

\* A mutant of Document.
DocumentToNdtset(inputs) ==
    [lines |-> UNION {Lines(inputs[i]) : i \in 0..(ndtset - 1)},
     systems |-> {i \in 0..ndtset : inputs[i].system}]

Document(inputs) ==
    [lines |-> UNION {Lines(inputs[i]) : i \in 0..ndtset},
     systems |-> {i \in 0..ndtset : inputs[i].system}]

NoDocument == [lines |-> {}, systems |-> {}, coordtype |-> "none", named |-> "none",
               copied |-> "none", ran |-> FALSE]

-----------------------------------------------------------------------------
Init ==
    /\ class \in {"Abinit", "Phonopy"}
    /\ ndtset = 1
    /\ size = 2
    /\ datasets = [i \in 0..1 |->
                      IF i = 0
                      THEN [WithTol(NewInput(0), DefaultTol) EXCEPT
                               !.params = [k \in Keys |-> IF k \in Basic
                                                          THEN Given("set_param") ELSE @[k]]]
                      ELSE NewInput(i)]
    /\ pseudo_ext = DefaultPot
    /\ pseudos = "none"
    /\ coordtype = "cartesian"
    /\ elem_typat = <<>>
    /\ elements = {}
    /\ species = {}
    /\ files = {}
    /\ abi = NoDocument
    /\ runs = 0
    /\ calls = 0
    /\ exited = FALSE

Call ==
    /\ ~exited
    /\ calls < MaxCalls
    /\ calls' = calls + 1
    /\ UNCHANGED class

(* A dataset beyond ndtset ends the process. *)
Exit ==
    /\ exited' = TRUE
    /\ UNCHANGED <<ndtset, size, datasets, pseudo_ext, coordtype, structure, abi, runs>>

SetParam(k, i) ==
    /\ Call
    /\ IF i > ndtset
       THEN Exit
       ELSE /\ datasets' = [datasets EXCEPT ![i] = WithParam(@, k)]
            /\ UNCHANGED <<ndtset, size, pseudo_ext, coordtype, structure, abi, runs, exited>>

SetKpoints(k, i) ==
    /\ Call
    /\ IF i > ndtset
       THEN Exit
       ELSE /\ datasets' = [datasets EXCEPT ![i].kpoints[k] = TRUE]
            /\ UNCHANGED <<ndtset, size, pseudo_ext, coordtype, structure, abi, runs, exited>>

(* use_tol does not look at ndtset; beyond datasets it is undefined. *)
UseTol(t, i) ==
    /\ Call
    /\ i < size
    /\ datasets' = [datasets EXCEPT ![i] = WithTol(@, t)]
    /\ UNCHANGED <<ndtset, size, pseudo_ext, coordtype, structure, abi, runs, exited>>

\* A mutant of SetNdtset.
SetNdtsetOnly(m) ==
    /\ Call
    /\ ndtset' = m
    /\ UNCHANGED <<size, datasets, pseudo_ext, coordtype, structure, abi, runs, exited>>

(* The container only grows: what a dataset held is there when ndtset      *)
(* comes back to it.                                                       *)
SetNdtset(m) ==
    /\ Call
    /\ ndtset' = m
    /\ size' = IF size > m THEN size ELSE m + 1
    /\ datasets' = [i \in 0..(size' - 1) |-> IF i < size THEN datasets[i] ELSE NewInput(i)]
    /\ UNCHANGED <<pseudo_ext, coordtype, structure, abi, runs, exited>>

SetPot(pot) ==
    /\ Call
    /\ pseudo_ext' = pot
    /\ UNCHANGED <<ndtset, size, datasets, coordtype, structure, abi, runs, exited>>

(* AbinitSystem::get_xyz numbers the elements it did not know from 1 on,   *)
(* in the order in which the atoms name them first.                        *)
FirstAtom(file, e) ==
    CHOOSE j \in DOMAIN file : file[j] = e /\ \A k \in 1..(j - 1) : file[k] # e

NewUpTo(file, j) == {file[k] : k \in 1..j} \ DOMAIN elem_typat

\* A mutant of Typat.
TypatFromZero(file) ==
    [e \in DOMAIN elem_typat \cup NewUpTo(file, Len(file)) |->
        IF e \in DOMAIN elem_typat THEN elem_typat[e]
        ELSE Cardinality(NewUpTo(file, FirstAtom(file, e))) - 1]

\* A mutant of Typat.
TypatRenewed(file) ==
    [e \in {file[j] : j \in DOMAIN file} |->
        Cardinality({file[k] : k \in 1..FirstAtom(file, e)})]

Typat(file) ==
    [e \in DOMAIN elem_typat \cup NewUpTo(file, Len(file)) |->
        IF e \in DOMAIN elem_typat THEN elem_typat[e]
        ELSE Cardinality(NewUpTo(file, FirstAtom(file, e)))]

GetXyz(file) ==
    LET here == {file[j] : j \in DOMAIN file} IN
    /\ Call
    /\ elem_typat' = Typat(file)
    /\ elements' = here
    /\ species' = species \cup here
    /\ pseudos' = pseudo_ext
    /\ files' = IF DOMAIN elem_typat = {} THEN here ELSE files
    /\ UNCHANGED <<ndtset, size, datasets, pseudo_ext, coordtype, abi, runs, exited>>

\* A mutant of Run.
RunAbinitAll ==
    /\ Call
    /\ class = "Abinit"
    /\ species # {}
    /\ abi' = [lines |-> Document(datasets).lines, systems |-> Document(datasets).systems,
               coordtype |-> coordtype, named |-> pseudos, copied |-> pseudo_ext, ran |-> TRUE]
    /\ runs' = runs + 1
    /\ UNCHANGED <<ndtset, size, datasets, pseudo_ext, coordtype, structure, exited>>

(* Abinit::run: abinit.abi is to_string(), which switches the systems of   *)
(* datasets 1..ndtset off.  Without a structure file to_string indexes an  *)
(* empty cell, which is undefined: there is no run before GetXyz.          *)
Run ==
    LET inputs == WithoutSystem(datasets) IN
    /\ Call
    /\ class = "Abinit"
    /\ species # {}
    /\ datasets' = inputs
    /\ abi' = [lines |-> Document(inputs).lines, systems |-> Document(inputs).systems,
               coordtype |-> coordtype, named |-> pseudos, copied |-> pseudo_ext, ran |-> TRUE]
    /\ runs' = runs + 1
    /\ UNCHANGED <<ndtset, size, pseudo_ext, coordtype, structure, exited>>

(* Phonopy::run: abinit.abi in reduced coordinates for phonopy; then the   *)
(* part of every supercell's input without structure and ions, for which   *)
(* the groups are switched off and stay off.                               *)
PartOne(inputs) ==
    [i \in DOMAIN inputs |->
        CASE i = 0 -> [inputs[i] EXCEPT !.system = FALSE, !.ions = FALSE]
          [] i = 1 -> [inputs[i] EXCEPT !.ions = FALSE]
          [] OTHER -> inputs[i]]

RunPhonopy ==
    LET inputs == WithoutSystem(datasets) IN
    /\ Call
    /\ class = "Phonopy"
    /\ species # {}
    /\ coordtype' = "reduced"
    /\ abi' = [lines |-> Document(inputs).lines, systems |-> Document(inputs).systems,
               coordtype |-> "reduced", named |-> pseudos, copied |-> pseudo_ext, ran |-> TRUE]
    /\ datasets' = PartOne(inputs)
    /\ runs' = runs + 1
    /\ UNCHANGED <<ndtset, size, pseudo_ext, structure, exited>>

Next ==
    \/ \E k \in Keys, i \in 0..(MaxNdtset + 1) : SetParam(k, i)
    \/ \E k \in KpointKeys, i \in 0..(MaxNdtset + 1) : SetKpoints(k, i)
    \/ \E t \in Tols, i \in 0..MaxNdtset : UseTol(t, i)
    \/ \E m \in 0..MaxNdtset : SetNdtset(m)
    \/ \E pot \in Pots : SetPot(pot)
    \/ \E file \in Structures : GetXyz(file)
    \/ Run
    \/ RunPhonopy

Spec == Init /\ [][Next]_vars

-----------------------------------------------------------------------------
DocumentType ==
    [lines: SUBSET [n: Nat, key: Keys], systems: SUBSET Nat,
     coordtype: {"none", "cartesian", "reduced"}, named: Pots \cup {"none"},
     copied: Pots \cup {"none"}, ran: BOOLEAN]

(* The variables keep their types: the datasets are numbered without gap,  *)
(* and every known element has a type.                                     *)
TypeOK ==
    /\ class \in {"Abinit", "Phonopy"}
    /\ ndtset \in Nat
    /\ size \in Nat \ {0, 1}
    /\ datasets \in [0..(size - 1) -> Input]
    /\ pseudo_ext \in Pots
    /\ pseudos \in Pots \cup {"none"}
    /\ coordtype \in {"cartesian", "reduced"}
    /\ DOMAIN elem_typat = species
    /\ elements \subseteq species
    /\ files \subseteq species
    /\ abi \in DocumentType
    /\ runs \in Nat
    /\ calls \in Nat
    /\ exited \in BOOLEAN

(* Whatever the order of set_ndtset, set_param and use_tol: the datasets   *)
(* in effect exist (set_param and to_string index them without a check     *)
(* against datasets.size()), and each writes its own number, dataset 0 the *)
(* keywords without one.  Abinit::set_ndtset keeps it.                     *)
DatasetsInEffectExist ==
    /\ ndtset < size
    /\ \A i \in 0..(size - 1) : datasets[i].n = i

(* In every dataset at most one of the tolerances that use_tol has given   *)
(* is switched on, whatever set_param did to the others in between, and    *)
(* also in datasets that a smaller ndtset has put out of effect.           *)
OneUsedTolerance ==
    \A i \in 0..(size - 1) : \A t, u \in Tols :
        (/\ datasets[i].params[t] = Given("use_tol")
         /\ datasets[i].params[u] = Given("use_tol")) => t = u

(* "The AbinitSystem related setting for dataset other than 0 is           *)
(* prohibited" (Abinit::to_string): no abinit.abi ever holds one, although *)
(* every new dataset comes with its system switched on.                    *)
SystemOfDatasetZero == abi.systems \subseteq {0}

(* As long as no later structure file brought an element that the first    *)
(* one did not have, the types are numbered 1..ntypat, each is the number  *)
(* of one element, and znucl has this element at its place: so typat,      *)
(* znucl and pseudos of the input speak of the same types.                 *)
TypesCountElements ==
    species = files =>
        /\ \A e \in species : elem_typat[e] \in 1..System.ntypat
        /\ DOMAIN System.znucl = 1..System.ntypat
        /\ \A i \in 1..System.ntypat : \E e \in species : System.znucl[i] = {e}
=============================================================================
