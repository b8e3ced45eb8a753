-------------------------- MODULE StructureInput --------------------------
(***************************************************************************)
(* How a calculator object carries a structure file into the input of its  *)
(* program, when get_xyz is called again and again on one object.          *)
(*                                                                         *)
(* Every calculator reads the file into its Xyz: the atoms are replaced,   *)
(* the set of elements only grows (Xyz::read_xyz_file clears atoms and     *)
(* cell, not elements_set).  What the calculator then does with its input  *)
(* document differs: some renew the part, some write row by row over what  *)
(* an earlier file left and say how many rows count, some do not say it.   *)
(* run() renders the document; the Phonopy classes also change it.         *)
(*                                                                         *)
(* An atom is a record of its element, its file and its place there, so    *)
(* that a row left by an earlier file is told from a row of this one.      *)
(***************************************************************************)
EXTENDS Integers, Sequences, FiniteSets, SequencesExt, Selections

CONSTANTS
    Calculators,  \* the calculator classes of this instance
    ElementOrder, \* the chemical elements, as std::set<std::string> sorts them
    Number,       \* their atomic numbers
    Potentials,   \* those with a file among the SSSP pseudopotentials
    Cells,        \* unit cells of a supercell, the product of phonopy_dim_*
    MaxAtoms,     \* bound: atoms of a file
    MaxReads      \* bound: calls of get_xyz

Elements == {ElementOrder[i] : i \in DOMAIN ElementOrder}

Classes ==
    {"PwScf", "PwPhonopy", "Octopus", "NWChem", "Siesta", "SiestaPhonopy",
     "Vasp", "Elk", "Cp2k", "Orca", "QChem", "GamessUS"}

ASSUME StructureAssumption ==
    /\ Calculators \subseteq Classes
    /\ ElementOrder \in Seq(STRING)
    /\ Distinct(ElementOrder)
    /\ Number \in [Elements -> Nat \ {0}]
    /\ Potentials \subseteq Elements
    /\ Cells \subseteq Nat \ {0}
    /\ MaxAtoms \in Nat \ {0}
    /\ MaxReads \in Nat \ {0}

VARIABLES
    calc,      \* the class of the object
    files,     \* history: the files read so far
    longest,   \* history: the number of atoms of the longest of them
    displaced, \* history: run() of a Phonopy since the last get_xyz
    atoms,     \* xyz.atoms
    elements,  \* xyz.elements_set
    rows,      \* the coordinates of the document, one row per atom
    number,    \* the number of atoms the document states, 0 if it states none
    species,   \* the species of the document: element and pseudopotential
    kinds,     \* the number of species the document states, 0 if none
    order,     \* elem_index_in_number_order, elem_natom_in_number_order
    index,     \* elem_index_map
    input      \* the input that the last run() rendered

xyzVars == <<files, longest, displaced, atoms, elements>>
docVars == <<rows, number, species, kinds, order, index>>
vars == <<calc, xyzVars, docVars, input>>

Atom == [name: Elements, file: Nat, at: Nat]

NoInput ==
    [of |-> <<>>, atoms |-> <<>>, count |-> 0, species |-> <<>>, kinds |-> 0]

Names(s) == {s[i].name : i \in DOMAIN s}

Named(e) == {a \in Atom : a.name = e}

\* The elements of a set in the order a std::set iterates over them.
InOrder(S) == Only(ElementOrder, S)

\* A mutant of Overlay: rows that are there are kept.
OverlayKept(old, new) ==
    [i \in 1..(IF Len(old) > Len(new) THEN Len(old) ELSE Len(new)) |->
        IF i <= Len(old) THEN old[i] ELSE new[i]]

\* Element by element assignment into a container that is only ever resized
\* up: the rows behind the new ones stay.
Overlay(old, new) ==
    [i \in 1..(IF Len(old) > Len(new) THEN Len(old) ELSE Len(new)) |->
        IF i <= Len(new) THEN new[i] ELSE old[i]]

\* A mutant of GroupedBy: the atoms are not compared with the element.
GroupedByAll(es, as) == FlattenSeq([i \in DOMAIN es |-> as])

\* The rows a loop over the elements and, within it, over the atoms writes.
GroupedBy(es, as) ==
    FlattenSeq([i \in DOMAIN es |-> Only(as, Named(es[i].name))])

Init ==
    /\ calc \in Calculators
    /\ files = 0
    /\ longest = 0
    /\ displaced = FALSE
    /\ atoms = <<>>
    /\ elements = {}
    /\ rows = <<>>
    /\ number = 0
    /\ species = <<>>
    /\ kinds = 0
    /\ order = <<>>
    /\ index = <<>>
    /\ input = NoInput

-----------------------------------------------------------------------------
\* A mutant of ReadXyz: the element is inserted once, behind the loop.
ReadXyzLastElement(names) ==
    /\ files < MaxReads
    /\ files' = files + 1
    /\ atoms' = [i \in DOMAIN names |->
                    [name |-> names[i], file |-> files + 1, at |-> i]]
    /\ elements' = elements \cup {names[Len(names)]}
    /\ longest' = IF Len(names) > longest THEN Len(names) ELSE longest
    /\ displaced' = FALSE
    /\ UNCHANGED <<calc, input>>

\* Xyz::read_xyz_file of a file with the given elements.
ReadXyz(names) ==
    /\ files < MaxReads
    /\ files' = files + 1
    /\ atoms' = [i \in DOMAIN names |->
                    [name |-> names[i], file |-> files + 1, at |-> i]]
    /\ elements' = elements \cup {names[i] : i \in DOMAIN names}
    /\ longest' = IF Len(names) > longest THEN Len(names) ELSE longest
    /\ displaced' = FALSE
    /\ UNCHANGED <<calc, input>>

\* The species of the elements, each with a pseudopotential of the document's.
SpeciesOf(S) ==
    [i \in DOMAIN InOrder(S) |-> [name |-> InOrder(S)[i], pseudo |-> "none"]]

\* Rows of the card atomic_species: the name of the file is set only when
\* there is one, so that of the row's former element may stay.
AtomicSpecies(old, S) ==
    Overlay(old,
            [i \in DOMAIN InOrder(S) |->
                LET e == InOrder(S)[i]
                IN  [name |-> e,
                     pseudo |-> IF e \in Potentials THEN e
                                ELSE IF i \in DOMAIN old THEN old[i].pseudo
                                ELSE "none"]])

PwGetXyz(names) ==
    /\ calc \in {"PwScf", "PwPhonopy"}
    /\ ReadXyz(names)
    /\ rows' = Overlay(rows, atoms')
    /\ number' = Len(atoms')
    /\ species' = AtomicSpecies(species, elements')
    /\ kinds' = Cardinality(elements')
    /\ UNCHANGED <<order, index>>

\* A mutant of OctopusGetXyz: every row of the block counts.
OctopusGetXyzAllRows(names) ==
    /\ calc = "Octopus"
    /\ ReadXyz(names)
    /\ rows' = Overlay(rows, atoms')
    /\ number' = Len(rows')
    /\ species' = Overlay(species, SpeciesOf(elements'))
    /\ UNCHANGED <<kinds, order, index>>

\* set_block_data also sets num_rows, so the block says how many rows count.
OctopusGetXyz(names) ==
    /\ calc = "Octopus"
    /\ ReadXyz(names)
    /\ rows' = Overlay(rows, atoms')
    /\ number' = Len(atoms')
    /\ species' = Overlay(species, SpeciesOf(elements'))
    /\ UNCHANGED <<kinds, order, index>>

\* The fields of the directive geometry are never taken away.
NWChemGetXyz(names) ==
    /\ calc = "NWChem"
    /\ ReadXyz(names)
    /\ rows' = Overlay(rows, atoms')
    /\ species' = SpeciesOf(elements')
    /\ UNCHANGED <<number, kinds, order, index>>

\* push_back of all elements with their numbers, behind what an earlier call
\* left, and std::sort, which leaves the order of equal keys open.
Appended(S) ==
    order \o [i \in DOMAIN InOrder(S) |->
                 [name |-> InOrder(S)[i], key |-> Number[InOrder(S)[i]]]]

Insertions(q, x) ==
    {InsertAt(q, i, x) :
        i \in {i \in 1..(Len(q) + 1) :
                  /\ i > 1 => q[i - 1].key <= x.key
                  /\ i <= Len(q) => x.key <= q[i].key}}

Sortings(q) ==
    FoldLeft(LAMBDA S, x : UNION {Insertions(t, x) : t \in S}, {<<>>}, q)

\* The position of an element in the sorted list; a later one overwrites.
LastPosition(es, e) ==
    CHOOSE i \in DOMAIN es :
        /\ es[i].name = e
        /\ \A j \in DOMAIN es : es[j].name = e => j <= i

\* NumberOfSpecies counts elements_set; the rows of ChemicalSpeciesLabel and
\* the numbers of the elements come from the list every call appends to.
SiestaGetXyz(names) ==
    /\ calc \in {"Siesta", "SiestaPhonopy"}
    /\ ReadXyz(names)
    /\ \E q \in Sortings(Appended(elements')) :
        /\ order' = [i \in DOMAIN q |-> [name |-> q[i].name, key |-> i]]
        /\ index' = [e \in Names(q) |-> LastPosition(q, e)]
        /\ species' = Overlay(species,
                              [i \in DOMAIN q |-> [name |-> q[i].name,
                                                   pseudo |-> q[i].name]])
    /\ kinds' = Cardinality(elements')
    /\ rows' = Overlay(rows, atoms')
    /\ number' = Len(atoms')

VaspGetXyz(names) ==
    /\ calc = "Vasp"
    /\ ReadXyz(names)
    /\ \E q \in Sortings(Appended(elements')) :
        order' = [i \in DOMAIN q |->
                     [name |-> q[i].name,
                      key |-> Len(Only(atoms', Named(q[i].name)))]]
    /\ UNCHANGED <<rows, number, species, kinds, index>>

\* atposl(j,i), natoms(i) and nspecies are set anew for every element.
ElkGetXyz(names) ==
    /\ calc = "Elk"
    /\ ReadXyz(names)
    /\ species' = SpeciesOf(elements')
    /\ kinds' = Cardinality(elements')
    /\ rows' = GroupedBy(species', atoms')
    /\ UNCHANGED <<number, order, index>>

\* add_section replaces the section subsys and what it held.
Cp2kGetXyz(names) ==
    /\ calc = "Cp2k"
    /\ ReadXyz(names)
    /\ rows' = atoms'
    /\ species' = SpeciesOf(elements')
    /\ UNCHANGED <<number, kinds, order, index>>

\* new_block replaces the block coords.
OrcaGetXyz(names) ==
    /\ calc = "Orca"
    /\ ReadXyz(names)
    /\ rows' = atoms'
    /\ UNCHANGED <<number, species, kinds, order, index>>

\* new_section replaces the section molecule; the stream the lines are built
\* in is never emptied, so every line repeats those before it.
QChemGetXyz(names) ==
    /\ calc = "QChem"
    /\ ReadXyz(names)
    /\ rows' = FlattenSeq([i \in DOMAIN atoms' |-> SubSeq(atoms', 1, i)])
    /\ UNCHANGED <<number, species, kinds, order, index>>

GamessUSGetXyz(names) ==
    /\ calc = "GamessUS"
    /\ ReadXyz(names)
    /\ UNCHANGED docVars

FileContents == UNION {[1..n -> Elements] : n \in 1..MaxAtoms}

GetXyz ==
    \E names \in FileContents :
        \/ PwGetXyz(names)
        \/ OctopusGetXyz(names)
        \/ NWChemGetXyz(names)
        \/ SiestaGetXyz(names)
        \/ VaspGetXyz(names)
        \/ ElkGetXyz(names)
        \/ Cp2kGetXyz(names)
        \/ OrcaGetXyz(names)
        \/ QChemGetXyz(names)
        \/ GamessUSGetXyz(names)

-----------------------------------------------------------------------------
\* The atoms that to_string writes.
Coordinates ==
    CASE calc = "Octopus"  -> SubSeq(rows, 1, number)
      [] calc = "Vasp"     -> GroupedBy(order, atoms)
      [] calc = "GamessUS" -> atoms
      [] OTHER             -> rows

\* The number of atoms the input states; where it states none, the program
\* takes every row.
Count == IF number = 0 THEN Len(Coordinates) ELSE number

SpeciesPart ==
    IF calc = "Vasp"
    THEN [i \in DOMAIN order |-> [name |-> order[i].name, pseudo |-> order[i].name]]
    ELSE species

Render ==
    input' = [of |-> atoms, atoms |-> Coordinates, count |-> Count,
              species |-> SpeciesPart, kinds |-> kinds]

Run ==
    /\ files > 0
    /\ calc \notin {"PwPhonopy", "SiestaPhonopy"}
    /\ Render
    /\ UNCHANGED <<calc, xyzVars, docVars>>

\* The unit cell is rendered first; then the number of atoms becomes that of
\* the supercell, for pwscf-input-part-1.in, and remains so.
PwPhonopyRun ==
    /\ files > 0
    /\ calc = "PwPhonopy"
    /\ Render
    /\ \E n \in Cells : number' = Len(atoms) * n
    /\ displaced' = TRUE
    /\ UNCHANGED <<calc, files, longest, atoms, elements, rows, species, kinds,
                   order, index>>

\* The unit cell is rendered first; then NumberOfAtoms is switched off, for
\* siesta-input-part-1.fdf, and remains so.
SiestaPhonopyRun ==
    /\ files > 0
    /\ calc = "SiestaPhonopy"
    /\ Render
    /\ number' = 0
    /\ displaced' = TRUE
    /\ UNCHANGED <<calc, files, longest, atoms, elements, rows, species, kinds,
                   order, index>>

Next == GetXyz \/ Run \/ PwPhonopyRun \/ SiestaPhonopyRun

Spec == Init /\ [][Next]_vars

-----------------------------------------------------------------------------
(* The variables keep their types; every index in elem_index_map is that   *)
(* of a row of ChemicalSpeciesLabel, and every sorted element has one.     *)
TypeOK ==
    /\ calc \in Calculators
    /\ files \in 0..MaxReads
    /\ longest \in Nat
    /\ displaced \in BOOLEAN
    /\ atoms \in Seq(Atom)
    /\ elements \subseteq Elements
    /\ rows \in Seq(Atom)
    /\ number \in Nat
    /\ species \in Seq([name: Elements, pseudo: Elements \cup {"none"}])
    /\ kinds \in Nat
    /\ order \in Seq([name: Elements, key: Nat])
    /\ DOMAIN index = Names(order) \/ calc = "Vasp"
    /\ \A e \in DOMAIN index : index[e] \in DOMAIN species
    /\ input.of \in Seq(Atom)
    /\ input.atoms \in Seq(Atom)
    /\ input.count \in Nat

\* The calculators whose input has the atoms in the order of the file.
InFileOrder ==
    {"PwScf", "PwPhonopy", "Octopus", "Siesta", "SiestaPhonopy", "Cp2k", "Orca",
     "GamessUS"}

\* The atoms that the program takes from an input: none if there are fewer
\* than the input states, and the program stops.
Calculated(in) ==
    IF in.count <= Len(in.atoms) THEN SubSeq(in.atoms, 1, in.count) ELSE <<>>

File == INSTANCE StructureFile WITH
    Structures <- Seq(Atom) \ {<<>>},
    structure  <- atoms,
    calculated <- Calculated(input)

(* The calculators that keep the order of the file implement StructureFile *)
(* although they write over the rows of longer files: what get_xyz leaves  *)
(* behind the new rows is never counted.  A Phonopy does so until its own  *)
(* run() has changed the number of atoms.                                  *)
CalculatesFile ==
    [][(calc \in InFileOrder /\ ~ displaced) => File!Next]_<<atoms, input>>

(* ELK and the first POSCAR group the atoms by element: no atom is lost,   *)
(* none is repeated, and those of an element keep the order of the file.   *)
GroupedIsFile ==
    calc = "Elk" \/ (calc = "Vasp" /\ files = 1) =>
        /\ Len(input.atoms) = Len(input.of)
        /\ \A e \in Elements :
              Only(input.atoms, Named(e)) = Only(input.of, Named(e))

(* NWChem::get_xyz writes over the fields of geometry: the structure comes *)
(* first, and atoms of an earlier file follow exactly when one was longer. *)
StaleAtomsFollow ==
    calc = "NWChem" /\ files > 0 =>
        /\ SubSeq(rows, 1, Len(atoms)) = atoms
        /\ Len(rows) = longest

Siestas == {"Siesta", "SiestaPhonopy"}

\* The species that the program takes from an input: as many as it states.
SpeciesRead(in) ==
    IF in.kinds = 0 THEN in.species ELSE SubSeq(in.species, 1, in.kinds)

(* Every element of the structure has a species among those the input      *)
(* counts, although the species come from elements_set and the rows from   *)
(* atoms; for Siesta only until a second get_xyz has appended its labels.  *)
EveryElementHasSpecies ==
    /\ calc \notin {"Orca", "QChem", "GamessUS"}
    /\ calc \in Siestas => files = 1
    => Names(input.of) \subseteq Names(SpeciesRead(input))

(* The number that AtomicCoordinatesAndAtomicSpecies gives an atom labels  *)
(* its own element in ChemicalSpeciesLabel, also when a second get_xyz has *)
(* sorted old indices among atomic numbers.                                *)
LabelNamesElement ==
    calc \in Siestas => \A e \in DOMAIN index : species[index[e]].name = e

(* But it is a number up to NumberOfSpecies only as long as one file was   *)
(* read: the first one gives every element such a number, and after each   *)
(* later one some element has a greater one.                               *)
IndexWithinSpecies ==
    calc \in Siestas /\ files > 0 =>
        ((\A e \in elements : index[e] <= kinds) <=> files = 1)

(* A species of pw.in has the pseudopotential of its own element, if there *)
(* is one, wherever a growing elements_set moves its row.                  *)
PseudoOfElement ==
    calc \in {"PwScf", "PwPhonopy"} =>
        \A i \in DOMAIN species :
            species[i].name \in Potentials => species[i].pseudo = species[i].name

(* The four together: the species of an input serve its atoms.             *)
SpeciesServeAtoms ==
    /\ EveryElementHasSpecies
    /\ LabelNamesElement
    /\ IndexWithinSpecies
    /\ PseudoOfElement
=============================================================================
