----------------------- MODULE StructureInputProofs -----------------------
(***************************************************************************)
(* Proofs about StructureInput: the calculators that keep the order of the *)
(* file implement StructureFile, and what NWChem's geometry holds, for any *)
(* number of files of any length and any elements.                         *)
(*                                                                         *)
(* The invariant says of the calculators that write over old rows that the *)
(* structure is a prefix of the rows and that the number they state is its *)
(* length, of the others that they state none.                             *)
(*                                                                         *)
(* The second part follows the elements: into the sorted lists, the rows   *)
(* of species and the atoms grouped by element, each a fold, so that what  *)
(* it makes of a file of any length is proved by induction.                *)
(***************************************************************************)
EXTENDS StructureInput, RecursionLemmas, FiniteSetTheorems, TLAPS

Phonopies == {"PwPhonopy", "SiestaPhonopy"}

\* The classes that write over the rows and state how many count.
Counting == {"PwScf", "Octopus", "Siesta"} \cup Phonopies

\* The classes that write over the rows.
Overlaying == Counting \cup {"NWChem"}

\* s begins with t.
Begins(s, t) ==
    /\ Len(t) <= Len(s)
    /\ \A i \in 1..Len(t) : s[i] = t[i]

AtomsInv ==
    /\ atoms \in Seq(Atom)
    /\ files \in Nat
    /\ longest \in Nat
    /\ number \in Nat
    /\ displaced \in BOOLEAN
    /\ files > 0 <=> atoms # <<>>

RowsInv ==
    /\ calc \in Overlaying => rows \in Seq(Atom) /\ Begins(rows, atoms)
    /\ calc \in {"Cp2k", "Orca"} => rows = atoms
    /\ calc = "NWChem" => Len(rows) = longest

NumberInv ==
    /\ calc \in Counting /\ files > 0 /\ ~ displaced => number = Len(atoms)
    /\ calc \notin Counting => number = 0
    /\ displaced => calc \in Phonopies

StructureInv == AtomsInv /\ RowsInv /\ NumberInv

-----------------------------------------------------------------------------
(* A sequence that begins with t, cut to the length of t, is t. *)
LEMMA CutToPrefix ==
    ASSUME NEW S, NEW s \in Seq(S), NEW t \in Seq(S), Begins(s, t)
    PROVE  SubSeq(s, 1, Len(t)) = t
<1> DEFINE u == SubSeq(s, 1, Len(t))
<1>1. Len(t) \in Nat /\ Len(s) \in Nat /\ Len(t) <= Len(s)
    BY DEF Begins
<1>2. u \in Seq(S) /\ Len(u) = Len(t)
    BY <1>1
<1>3. \A i \in 1..Len(t) : u[i] = t[i]
    BY <1>1 DEF Begins
<1>4. QED
    BY <1>2, <1>3

(* Writing row by row over an old sequence leaves the new one in front; the *)
(* result is as long as the longer of the two.                              *)
LEMMA OverlayBegins ==
    ASSUME NEW S, NEW old \in Seq(S), NEW new \in Seq(S)
    PROVE  /\ Overlay(old, new) \in Seq(S)
           /\ Begins(Overlay(old, new), new)
           /\ Len(Overlay(old, new)) = IF Len(old) > Len(new) THEN Len(old) ELSE Len(new)
<1> DEFINE m == IF Len(old) > Len(new) THEN Len(old) ELSE Len(new)
<1>1. Len(old) \in Nat /\ Len(new) \in Nat /\ m \in Nat
    OBVIOUS
<1>2. \A i \in 1..m : (IF i <= Len(new) THEN new[i] ELSE old[i]) \in S
    BY <1>1
<1>3. Overlay(old, new) = [i \in 1..m |-> IF i <= Len(new) THEN new[i] ELSE old[i]]
    BY DEF Overlay
<1>4. Overlay(old, new) \in Seq(S) /\ Len(Overlay(old, new)) = m
    BY <1>1, <1>2, <1>3
<1>5. \A i \in 1..Len(new) : Overlay(old, new)[i] = new[i]
    BY <1>1, <1>3
<1>6. QED
    BY <1>1, <1>4, <1>5 DEF Begins

(* Reading a file makes its atoms the structure, and nothing else. *)
LEMMA ReadAtoms ==
    ASSUME AtomsInv, NEW names \in FileContents, ReadXyz(names)
    PROVE  /\ atoms' \in Seq(Atom) /\ atoms' # <<>>
           /\ files' \in Nat /\ files' > 0
           /\ Len(atoms') = Len(names)
           /\ longest' = (IF Len(atoms') > longest THEN Len(atoms') ELSE longest)
           /\ longest' \in Nat
           /\ displaced' = FALSE /\ calc' = calc /\ input' = input
<1>1. PICK n \in 1..MaxAtoms : names \in [1..n -> Elements]
    BY DEF FileContents
<1>2. n \in Nat /\ n > 0 /\ Len(names) = n /\ DOMAIN names = 1..n
    BY <1>1, StructureAssumption DEF StructureAssumption
<1>3. atoms' = [i \in 1..n |-> [name |-> names[i], file |-> files + 1, at |-> i]]
    BY <1>2 DEF ReadXyz
<1>4. \A i \in 1..n : [name |-> names[i], file |-> files + 1, at |-> i] \in Atom
    BY <1>1, <1>2 DEF AtomsInv, Atom
<1>5. atoms' \in Seq(Atom) /\ Len(atoms') = n
    BY <1>2, <1>3, <1>4
<1>6. QED
    BY <1>2, <1>5 DEF ReadXyz, AtomsInv

(* The initial states satisfy the invariant. *)
LEMMA InitStructureInv ==
    Init => StructureInv
<1> SUFFICES ASSUME Init PROVE StructureInv
    OBVIOUS
<1>1. AtomsInv
    <2>1. atoms = <<>> /\ files = 0 /\ longest = 0 /\ number = 0
        BY DEF Init
    <2>2. atoms \in Seq(Atom)
        BY <2>1
    <2>3. displaced \in BOOLEAN
        BY DEF Init
    <2>4. ~ (files > 0)
        BY <2>1
    <2>5. QED
        BY <2>1, <2>2, <2>3, <2>4 DEF AtomsInv
<1>2. RowsInv
    BY DEF Init, RowsInv, Begins
<1>3. NumberInv
    BY DEF Init, NumberInv
<1>4. QED
    BY <1>1, <1>2, <1>3 DEF StructureInv

(* Every step keeps the invariant: a calculator of its own kind of rows at *)
(* a time.                                                                 *)
LEMMA NextStructureInv ==
    StructureInv /\ [Next]_vars => StructureInv'
<1> SUFFICES ASSUME StructureInv, [Next]_vars PROVE StructureInv'
    OBVIOUS
<1> USE DEF StructureInv
<1>1. ASSUME NEW names \in FileContents, ReadXyz(names),
             calc \in Overlaying, rows' = Overlay(rows, atoms'),
             calc # "NWChem" => number' = Len(atoms'),
             calc = "NWChem" => number' = number
      PROVE  StructureInv'
    <2>1. /\ atoms' \in Seq(Atom) /\ atoms' # <<>>
          /\ files' \in Nat /\ files' > 0
          /\ longest' = (IF Len(atoms') > longest THEN Len(atoms') ELSE longest)
          /\ longest' \in Nat
          /\ displaced' = FALSE /\ calc' = calc
        BY <1>1, ReadAtoms
    <2>2. rows \in Seq(Atom)
        BY <1>1 DEF RowsInv
    <2>3. /\ rows' \in Seq(Atom) /\ Begins(rows', atoms')
          /\ Len(rows') = IF Len(rows) > Len(atoms') THEN Len(rows) ELSE Len(atoms')
        BY <1>1, <2>1, <2>2, OverlayBegins
    <2>4. number' \in Nat
        BY <1>1, <2>1 DEF AtomsInv
    <2>5. AtomsInv'
        BY <2>1, <2>4 DEF AtomsInv
    <2>6. calc = "NWChem" => Len(rows') = longest'
        BY <2>1, <2>2, <2>3 DEF RowsInv
    <2>7. RowsInv'
        BY <1>1, <2>1, <2>3, <2>6 DEF RowsInv, Overlaying, Counting, Phonopies
    <2>8. NumberInv'
        BY <1>1, <2>1 DEF NumberInv, Overlaying, Counting, Phonopies
    <2>9. QED
        BY <2>5, <2>7, <2>8
<1>2. ASSUME NEW names \in FileContents, ReadXyz(names),
             calc \notin Overlaying, number' = number,
             calc \in {"Cp2k", "Orca"} => rows' = atoms'
      PROVE  StructureInv'
    <2>1. /\ atoms' \in Seq(Atom) /\ atoms' # <<>>
          /\ files' \in Nat /\ files' > 0
          /\ longest' \in Nat
          /\ displaced' = FALSE /\ calc' = calc
        BY <1>2, ReadAtoms
    <2>2. AtomsInv'
        BY <1>2, <2>1 DEF AtomsInv
    <2>3. RowsInv'
        BY <1>2, <2>1 DEF RowsInv, Overlaying, Counting, Phonopies
    <2>4. NumberInv'
        BY <1>2, <2>1 DEF NumberInv, Overlaying, Counting, Phonopies
    <2>5. QED
        BY <2>2, <2>3, <2>4
<1>3. CASE GetXyz
    <2>1. PICK names \in FileContents :
            \/ PwGetXyz(names) \/ OctopusGetXyz(names) \/ NWChemGetXyz(names)
            \/ SiestaGetXyz(names) \/ VaspGetXyz(names) \/ ElkGetXyz(names)
            \/ Cp2kGetXyz(names) \/ OrcaGetXyz(names) \/ QChemGetXyz(names)
            \/ GamessUSGetXyz(names)
        BY <1>3 DEF GetXyz
    <2>2. CASE PwGetXyz(names)
        BY <2>2, <1>1 DEF PwGetXyz, Overlaying, Counting, Phonopies
    <2>3. CASE OctopusGetXyz(names)
        BY <2>3, <1>1 DEF OctopusGetXyz, Overlaying, Counting, Phonopies
    <2>4. CASE NWChemGetXyz(names)
        BY <2>4, <1>1 DEF NWChemGetXyz, Overlaying, Counting, Phonopies
    <2>5. CASE SiestaGetXyz(names)
        BY <2>5, <1>1 DEF SiestaGetXyz, Overlaying, Counting, Phonopies
    <2>6. CASE VaspGetXyz(names)
        BY <2>6, <1>2 DEF VaspGetXyz, Overlaying, Counting, Phonopies
    <2>7. CASE ElkGetXyz(names)
        BY <2>7, <1>2 DEF ElkGetXyz, Overlaying, Counting, Phonopies
    <2>8. CASE Cp2kGetXyz(names)
        BY <2>8, <1>2 DEF Cp2kGetXyz, Overlaying, Counting, Phonopies
    <2>9. CASE OrcaGetXyz(names)
        BY <2>9, <1>2 DEF OrcaGetXyz, Overlaying, Counting, Phonopies
    <2>10. CASE QChemGetXyz(names)
        BY <2>10, <1>2 DEF QChemGetXyz, Overlaying, Counting, Phonopies
    <2>11. CASE GamessUSGetXyz(names)
        BY <2>11, <1>2 DEF GamessUSGetXyz, docVars, Overlaying, Counting, Phonopies
    <2>12. QED
        BY <2>1, <2>2, <2>3, <2>4, <2>5, <2>6, <2>7, <2>8, <2>9, <2>10, <2>11
<1>4. ASSUME files > 0, calc \in Phonopies, number' \in Nat, displaced' = TRUE,
             UNCHANGED <<calc, files, longest, atoms, rows>>
      PROVE  StructureInv'
    BY <1>4 DEF AtomsInv, RowsInv, NumberInv, Begins, Overlaying, Counting, Phonopies
<1>5. CASE Run
    BY <1>5 DEF Run, xyzVars, docVars, AtomsInv, RowsInv, NumberInv, Begins
<1>6. CASE PwPhonopyRun
    <2>1. PICK n \in Cells : number' = Len(atoms) * n
        BY <1>6 DEF PwPhonopyRun
    <2>2. number' \in Nat
        BY <2>1, StructureAssumption DEF StructureAssumption, AtomsInv
    <2>3. QED
        BY <1>4, <1>6, <2>2 DEF PwPhonopyRun, Phonopies
<1>7. CASE SiestaPhonopyRun
    BY <1>4, <1>7 DEF SiestaPhonopyRun, Phonopies
<1>8. CASE UNCHANGED vars
    BY <1>8 DEF vars, xyzVars, docVars, AtomsInv, RowsInv, NumberInv, Begins
<1>9. QED
    BY <1>3, <1>5, <1>6, <1>7, <1>8 DEF Next

LEMMA AlwaysStructureInv ==
    Spec => []StructureInv
BY InitStructureInv, NextStructureInv, PTL DEF Spec

-----------------------------------------------------------------------------
(* What an input of a calculator in file order gives the program is the    *)
(* structure, unless a Phonopy has changed the number of atoms.            *)
LEMMA RenderedIsStructure ==
    ASSUME StructureInv, Render, files > 0, calc \in InFileOrder, ~ displaced
    PROVE  Calculated(input') = atoms
<1> USE DEF StructureInv
<1>1. atoms \in Seq(Atom) /\ atoms # <<>> /\ Len(atoms) \in Nat /\ Len(atoms) > 0
    BY DEF AtomsInv
<1>2. SubSeq(atoms, 1, Len(atoms)) = atoms
    BY <1>1
<1>3. ASSUME Coordinates \in Seq(Atom), Begins(Coordinates, atoms), Count = Len(atoms)
      PROVE  Calculated(input') = atoms
    <2>1. input'.atoms = Coordinates /\ input'.count = Len(atoms)
        BY <1>3 DEF Render
    <2>2. SubSeq(Coordinates, 1, Len(atoms)) = atoms
        BY <1>1, <1>3, CutToPrefix
    <2>3. Len(atoms) <= Len(Coordinates)
        BY <1>3 DEF Begins
    <2>4. QED
        BY <2>1, <2>2, <2>3 DEF Calculated
<1>4. CASE calc = "Octopus"
    <2>1. rows \in Seq(Atom) /\ Begins(rows, atoms) /\ number = Len(atoms)
        BY <1>4 DEF RowsInv, NumberInv, Overlaying, Counting
    <2>2. Coordinates = atoms
        BY <1>1, <1>4, <2>1, CutToPrefix DEF Coordinates
    <2>3. QED
        BY <1>1, <1>3, <2>1, <2>2 DEF Count, Begins
<1>5. CASE calc \in {"PwScf", "PwPhonopy", "Siesta", "SiestaPhonopy"}
    <2>1. rows \in Seq(Atom) /\ Begins(rows, atoms) /\ number = Len(atoms)
        BY <1>5 DEF RowsInv, NumberInv, Overlaying, Counting, Phonopies
    <2>2. Coordinates = rows
        BY <1>5 DEF Coordinates
    <2>3. QED
        BY <1>1, <1>3, <2>1, <2>2 DEF Count
<1>6. CASE calc \in {"Cp2k", "Orca", "GamessUS"}
    <2>1. Coordinates = atoms
        BY <1>6 DEF Coordinates, RowsInv
    <2>2. number = 0
        BY <1>6 DEF NumberInv, Counting, Phonopies
    <2>3. QED
        BY <1>1, <1>3, <2>1, <2>2 DEF Count, Begins
<1>7. QED
    BY <1>4, <1>5, <1>6 DEF InFileOrder

(* The initial states are those of StructureFile. *)
LEMMA InitOfFile ==
    Init => File!Init
<1> SUFFICES ASSUME Init PROVE File!Init
    OBVIOUS
<1>1. atoms = <<>> /\ input.atoms = <<>> /\ input.count = 0
    BY DEF Init, NoInput
<1>2. Calculated(input) = <<>>
    BY <1>1 DEF Calculated
<1>3. QED
    BY <1>1, <1>2 DEF File!Init

(* A step of such a calculator is a step of StructureFile, or changes       *)
(* neither the structure nor the input.                                     *)
LEMMA StepOfFile ==
    ASSUME StructureInv, [Next]_vars, calc \in InFileOrder, ~ displaced
    PROVE  File!Next \/ UNCHANGED <<atoms, input>>
<1>1. CASE GetXyz
    <2>1. PICK names \in FileContents : ReadXyz(names)
        BY <1>1 DEF GetXyz, PwGetXyz, OctopusGetXyz, NWChemGetXyz, SiestaGetXyz,
                    VaspGetXyz, ElkGetXyz, Cp2kGetXyz, OrcaGetXyz, QChemGetXyz,
                    GamessUSGetXyz
    <2>2. atoms' \in Seq(Atom) /\ atoms' # <<>> /\ input' = input
        BY <2>1, ReadAtoms DEF StructureInv
    <2>3. File!Read
        BY <2>2 DEF File!Read
    <2>4. QED
        BY <2>3 DEF File!Next
<1>2. ASSUME files > 0, Render, UNCHANGED atoms
      PROVE  File!Next
    <2>1. Calculated(input') = atoms
        BY <1>2, RenderedIsStructure
    <2>2. atoms # <<>>
        BY <1>2 DEF StructureInv, AtomsInv
    <2>3. File!Calculate
        BY <1>2, <2>1, <2>2 DEF File!Calculate
    <2>4. QED
        BY <2>3 DEF File!Next
<1>3. CASE Run
    BY <1>2, <1>3 DEF Run, xyzVars
<1>4. CASE PwPhonopyRun
    BY <1>2, <1>4 DEF PwPhonopyRun
<1>5. CASE SiestaPhonopyRun
    BY <1>2, <1>5 DEF SiestaPhonopyRun
<1>6. CASE UNCHANGED vars
    BY <1>6 DEF vars, xyzVars
<1>7. QED
    BY <1>1, <1>3, <1>4, <1>5, <1>6 DEF Next

(* The calculators that keep the order of the file implement StructureFile *)
(* for any files read in any order: every get_xyz is a Read, every run() a *)
(* Calculate (PwScf::get_xyz to GamessUS::get_xyz with their to_string).   *)
THEOREM InputsDescribeFile ==
    Spec => CalculatesFile
<1>1. StructureInv /\ [Next]_vars =>
          [(calc \in InFileOrder /\ ~ displaced) => File!Next]_<<atoms, input>>
    BY StepOfFile
<1>2. QED
    BY <1>1, AlwaysStructureInv, PTL DEF Spec, CalculatesFile

(* The geometry of NWChem begins with the structure and is as long as the  *)
(* longest file read (NWChem::get_xyz).                                    *)
THEOREM NWChemKeepsStaleAtoms ==
    Spec => []StaleAtomsFollow
<1>1. StructureInv => StaleAtomsFollow
    <2> SUFFICES ASSUME StructureInv, calc = "NWChem"
                 PROVE  /\ SubSeq(rows, 1, Len(atoms)) = atoms
                        /\ Len(rows) = longest
        BY DEF StaleAtomsFollow
    <2>1. rows \in Seq(Atom) /\ Begins(rows, atoms) /\ atoms \in Seq(Atom)
        BY DEF StructureInv, AtomsInv, RowsInv, Overlaying
    <2>2. QED
        BY <2>1, CutToPrefix DEF StructureInv, RowsInv
<1>2. QED
    BY <1>1, AlwaysStructureInv, PTL

-----------------------------------------------------------------------------
Keyed == [name: Elements, key: Nat]

(* No two elements of a sequence have one name. *)
NamedApart(s) == \A i, j \in DOMAIN s : s[i].name = s[j].name => i = j

(* An insertion adds its element and moves the ones behind it. *)
LEMMA InsertionAdds ==
  ASSUME NEW S, NEW q \in Seq(S), NEW x \in S, NEW t \in Insertions(q, x)
  PROVE  /\ t \in Seq(S)
         /\ Len(t) = Len(q) + 1
         /\ Range(t) = Range(q) \cup {x}
         /\ NamedApart(q) /\ x.name \notin Names(q) => NamedApart(t)
<1>. DEFINE n == Len(q)
<1>1. PICK k \in 1..n + 1 : t = InsertAt(q, k, x)
  BY DEF Insertions
<1>2. n \in Nat /\ DOMAIN q = 1..n
  OBVIOUS
<1>. DEFINE a == SubSeq(q, 1, k - 1)
            b == SubSeq(q, k, n)
<1>3. t \in Seq(S) /\ Len(t) = n + 1 /\ \A j \in 1..n + 1 :
          t[j] = IF j < k THEN q[j] ELSE IF j = k THEN x ELSE q[j - 1]
  <2>1. a \in Seq(S) /\ Len(a) = k - 1 /\ \A j \in 1..k - 1 : a[j] = q[j]
    BY <1>2
  <2>2. b \in Seq(S) /\ Len(b) = (n - k) + 1 /\ \A j \in 1..(n - k) + 1 : b[j] = q[(k + j) - 1]
    BY <1>2
  <2>3. t = a \o <<x>> \o b
    BY <1>1 DEF InsertAt
  <2>. DEFINE c == a \o <<x>>
  <2>4. c \in Seq(S) /\ Len(c) = k /\ c[k] = x /\ \A j \in 1..k - 1 : c[j] = q[j]
    BY <1>2, <2>1
  <2>. HIDE DEF a, b, c, n
  <2>5. /\ t \in Seq(S) /\ Len(t) = k + ((n - k) + 1)
        /\ \A j \in 1..k : t[j] = c[j]
        /\ \A j \in 1..(n - k) + 1 : t[k + j] = b[j]
    <3>1. t = c \o b
      BY <2>3 DEF c
    <3>3. c \in Seq(S) /\ b \in Seq(S)
      BY <2>2, <2>4
    <3>2. /\ c \o b \in Seq(S) /\ Len(c \o b) = Len(c) + Len(b)
          /\ \A j \in 1..Len(c) : (c \o b)[j] = c[j]
          /\ \A j \in 1..Len(b) : (c \o b)[Len(c) + j] = b[j]
      BY <3>3, ConcatIs
    <3>. QED  BY <2>2, <2>4, <3>1, <3>2
  <2>6. ASSUME NEW j \in 1..n + 1
        PROVE  t[j] = IF j < k THEN q[j] ELSE IF j = k THEN x ELSE q[j - 1]
    <3>1. CASE j < k
      BY <1>2, <2>4, <2>5, <3>1
    <3>2. CASE j = k
      BY <1>2, <2>4, <2>5, <3>2
    <3>3. CASE j > k
      <4>. DEFINE m == j - k
      <4>1. m \in 1..(n - k) + 1 /\ (k + m) - 1 = j - 1 /\ k + m = j
        BY <1>2, <3>3
      <4>. HIDE DEF m
      <4>2. t[j] = b[m] /\ b[m] = q[j - 1]
        BY <2>2, <2>5, <4>1
      <4>. QED  BY <3>3, <4>2
    <3>. QED  BY <1>2, <3>1, <3>2, <3>3
  <2>7. k + ((n - k) + 1) = n + 1
    BY <1>2
  <2>. QED  BY <2>5, <2>6, <2>7
<1>4. \A j \in 1..n + 1 : t[j] = IF j < k THEN q[j] ELSE IF j = k THEN x ELSE q[j - 1]
  BY <1>3
<1>5. DOMAIN t = 1..n + 1
  BY <1>3
<1>8. Len(t) = Len(q) + 1
  BY <1>3
<1>. HIDE DEF n
<1>6. Range(t) = Range(q) \cup {x}
  <2>1. ASSUME NEW j \in 1..n + 1 PROVE t[j] \in Range(q) \cup {x}
    <3>1. CASE j < k
      BY <1>2, <1>4, <3>1 DEF Range
    <3>2. CASE j = k
      BY <1>4, <3>2
    <3>3. CASE j > k
      <4>1. j - 1 \in 1..n /\ t[j] = q[j - 1]
        BY <1>2, <1>4, <3>3
      <4>. QED  BY <1>2, <4>1 DEF Range
    <3>. QED  BY <3>1, <3>2, <3>3
  <2>2. ASSUME NEW j \in 1..n PROVE q[j] \in Range(t)
    <3>1. CASE j < k
      <4>1. j \in 1..n + 1 /\ t[j] = q[j]
        BY <1>2, <1>4, <3>1
      <4>. QED  BY <1>5, <4>1 DEF Range
    <3>2. CASE ~(j < k)
      <4>1. j + 1 \in 1..n + 1 /\ (j + 1) - 1 = j /\ ~(j + 1 < k) /\ j + 1 # k
        BY <1>2, <3>2
      <4>2. t[j + 1] = q[j]
        BY <1>4, <4>1
      <4>. QED  BY <1>5, <4>1, <4>2 DEF Range
    <3>. QED  BY <3>1, <3>2
  <2>3. x \in Range(t)
    BY <1>1, <1>2, <1>4, <1>5 DEF Range
  <2>. QED  BY <1>2, <1>5, <2>1, <2>2, <2>3 DEF Range
<1>7. ASSUME NamedApart(q), x.name \notin Names(q) PROVE NamedApart(t)
  <2>. DEFINE from == [j \in 1..n + 1 |-> IF j < k THEN j ELSE IF j = k THEN 0 ELSE j - 1]
  <2>1. \A j \in 1..n + 1 : from[j] \in 0..n
    BY <1>2
  <2>2. \A i, j \in 1..n + 1 : from[i] = from[j] => i = j
    BY <1>2
  <2>3. \A j \in 1..n + 1 : IF from[j] = 0 THEN t[j] = x ELSE t[j] = q[from[j]]
    BY <1>2, <1>4
  <2>. HIDE DEF from
  <2>4. ASSUME NEW i \in 1..n + 1, NEW j \in 1..n + 1, t[i].name = t[j].name PROVE i = j
    <3>1. \A m \in 1..n : q[m].name # x.name
      BY <1>2, <1>7 DEF Names
    <3>2. from[i] = from[j]
      <4>1. CASE from[i] = 0
        BY <1>2, <2>1, <2>3, <2>4, <3>1, <4>1
      <4>2. CASE from[i] # 0
        <5>1. from[i] \in 1..n /\ t[i] = q[from[i]]
          BY <1>2, <2>1, <2>3, <4>2
        <5>2. from[j] # 0
          BY <2>3, <2>4, <3>1, <5>1
        <5>3. from[j] \in 1..n /\ t[j] = q[from[j]]
          BY <1>2, <2>1, <2>3, <5>2
        <5>. QED  BY <1>2, <1>7, <2>4, <5>1, <5>3 DEF NamedApart
      <4>. QED  BY <4>1, <4>2
    <3>. QED  BY <2>2, <3>2
  <2>. QED  BY <1>5, <2>4 DEF NamedApart
<1>. QED  BY <1>3, <1>6, <1>7, <1>8

(* The fold of Sortings, as steps. *)
LEMMA SortingsSteps ==
  ASSUME NEW S, NEW q \in Seq(S)
  PROVE  \E g : /\ Iterates(g, Len(q), SUBSET Seq(S), {<<>>},
                            [i \in 1..Len(q) |-> [U \in SUBSET Seq(S) |->
                                UNION {Insertions(t, q[i]) : t \in U}]])
                /\ Sortings(q) = g[Len(q)]
<1>. DEFINE n == Len(q)
            V == SUBSET Seq(S)
            step == [i \in 1..n |-> [U \in V |-> UNION {Insertions(t, q[i]) : t \in U}]]
            P(G) == G = [X \in SUBSET DOMAIN q |->
                          IF X = {} THEN {<<>>}
                          ELSE UNION {Insertions(t, q[Max(X)]) : t \in G[X \ {Max(X)}]}]
            C == CHOOSE G : P(G)
            Into(U, x) == UNION {Insertions(t, x) : t \in U}
<1>1. n \in Nat /\ DOMAIN q = 1..n /\ {<<>>} \in V
  OBVIOUS
<1>2. step \in [1..n -> [V -> V]]
  <2>1. ASSUME NEW i \in 1..n, NEW U \in V PROVE UNION {Insertions(t, q[i]) : t \in U} \in V
    <3>1. q[i] \in S
      OBVIOUS
    <3>2. \A t \in U : \A u \in Insertions(t, q[i]) : u \in Seq(S)
      BY <3>1, InsertionAdds
    <3>. QED  BY <3>2
  <2>. QED  BY <2>1
<1>3. PICK F : FoldsOver(F, n, V, {<<>>}, step)
  <2>. HIDE DEF n, step, V
  <2>. QED  BY <1>1, <1>2, FoldDefines
<1>4. Sortings(q) = C[DOMAIN q]
  BY DEF Sortings, FoldLeft, MapThenFoldSet
<1>5. ASSUME NEW X \in SUBSET (1..n), X # {}
      PROVE  F[X] = UNION {Insertions(t, q[Max(X)]) : t \in F[X \ {Max(X)}]}
  <2>. HIDE DEF n, V
  <2>1. Max(X) \in 1..n
    BY <1>1, <1>5, MaxOfNumbers
  <2>2. F[X \ {Max(X)}] \in V /\ F[X] = step[Max(X)][F[X \ {Max(X)}]]
    <3>. HIDE DEF step
    <3>. QED  BY <1>3, <1>5 DEF FoldsOver
  <2>. QED  BY <2>1, <2>2
<1>6. F[{}] = {<<>>} /\ F \in [SUBSET (1..n) -> V]
  <2>. HIDE DEF n, step, V
  <2>. QED  BY <1>3 DEF FoldsOver
<1>7. P(F)
  <2>. HIDE DEF n, step, V
  <2>. QED  BY <1>1, <1>5, <1>6
<1>8. P(C)
  <2>. HIDE DEF P
  <2>. QED  BY <1>7
<1>. HIDE DEF C
<1>12. \A X \in SUBSET (1..n) : X # {} =>
          /\ C[X] = Into(C[X \ {Max(X)}], q[Max(X)])
          /\ F[X] = Into(F[X \ {Max(X)}], q[Max(X)])
  <2>. HIDE DEF n, step, V
  <2>. QED  BY <1>1, <1>5, <1>8
<1>9. C[1..n] = F[1..n]
  <2>. DEFINE I == {i \in 0..n : C[1..i] = F[1..i]}
  <2>. HIDE DEF n, step, V, Into
  <2>1. 0 \in I
    <3>1. 1..0 = {}
      OBVIOUS
    <3>. QED  BY <1>1, <1>6, <1>8, <3>1
  <2>2. ASSUME NEW i \in 1..n, i - 1 \in I PROVE i \in I
    <3>1. 1..i \in SUBSET (1..n) /\ 1..i # {} /\ Max(1..i) = i /\ (1..i) \ {i} = 1..i - 1
      BY <1>1, FoldSteps
    <3>2. C[1..i] = Into(C[1..i - 1], q[i])
      BY <1>12, <3>1
    <3>3. F[1..i] = Into(F[1..i - 1], q[i])
      BY <1>12, <3>1
    <3>. QED  BY <2>2, <3>2, <3>3
  <2>. HIDE DEF I
  <2>3. n \in 0..n
    BY <1>1
  <2>4. n \in I
    BY <1>1, <2>1, <2>2, <2>3, InductionUpTo
  <2>. QED  BY <2>4 DEF I
<1>10. Iterates([i \in 0..n |-> F[1..i]], n, V, {<<>>}, step)
  <2>. HIDE DEF n, step, V
  <2>. QED  BY <1>1, <1>3, FoldAlong
<1>11. [i \in 0..n |-> F[1..i]][n] = F[1..n]
  BY <1>1
<1>. QED  BY <1>1, <1>4, <1>9, <1>10, <1>11

LEMMA SortingsEmpty ==
  Sortings(<<>>) = {<<>>}
<1>. DEFINE step == [i \in 1..0 |-> [U \in SUBSET Seq({}) |->
                        UNION {Insertions(t, <<>>[i]) : t \in U}]]
<1>1. <<>> \in Seq({}) /\ Len(<<>>) = 0
  OBVIOUS
<1>2. PICK g : Iterates(g, 0, SUBSET Seq({}), {<<>>}, step) /\ Sortings(<<>>) = g[0]
  BY <1>1, SortingsSteps
<1>. HIDE DEF step
<1>. QED  BY <1>2 DEF Iterates

LEMMA SortingsAppend ==
  ASSUME NEW S, NEW q \in Seq(S), NEW x \in S
  PROVE  \A u \in Sortings(Append(q, x)) : \E t \in Sortings(q) : u \in Insertions(t, x)
<1>. DEFINE n == Len(q)
            V == SUBSET Seq(S)
            r == Append(q, x)
            Into(U, y) == UNION {Insertions(t, y) : t \in U}
            steps == [i \in 1..n |-> [U \in V |-> Into(U, q[i])]]
            more == [i \in 1..n + 1 |-> [U \in V |-> Into(U, r[i])]]
<1>1. n \in Nat /\ r \in Seq(S) /\ Len(r) = n + 1 /\ r[n + 1] = x
  OBVIOUS
<1>2. \A i \in 1..n : steps[i] = more[i]
  <2>1. \A i \in 1..n : r[i] = q[i] /\ i \in 1..n + 1
    OBVIOUS
  <2>. HIDE DEF n, r, V, Into
  <2>. QED  BY <2>1
<1>3. PICK f : Iterates(f, n, V, {<<>>}, steps) /\ Sortings(q) = f[n]
  BY SortingsSteps
<1>4. PICK g : Iterates(g, n + 1, V, {<<>>}, more) /\ Sortings(r) = g[n + 1]
  <2>. HIDE DEF r
  <2>1. \E g : /\ Iterates(g, Len(r), SUBSET Seq(S), {<<>>},
                            [i \in 1..Len(r) |-> [U \in SUBSET Seq(S) |->
                                UNION {Insertions(t, r[i]) : t \in U}]])
               /\ Sortings(r) = g[Len(r)]
    BY <1>1, SortingsSteps
  <2>. QED  BY <1>1, <2>1
<1>5. f[n] \in V /\ g[n + 1] = more[n + 1][f[n]]
  <2>. HIDE DEF n, r, V, steps, more
  <2>. QED  BY <1>1, <1>2, <1>3, <1>4, LastStep
<1>6. more[n + 1][f[n]] = Into(f[n], x)
  <2>1. n + 1 \in 1..n + 1
    BY <1>1
  <2>. HIDE DEF n, r, V, Into
  <2>2. more[n + 1][f[n]] = Into(f[n], r[n + 1])
    BY <1>5, <2>1
  <2>. QED  BY <1>1, <2>2
<1>7. Sortings(r) = Into(Sortings(q), x)
  <2>. HIDE DEF more, Into, n
  <2>. QED  BY <1>3, <1>4, <1>5, <1>6
<1>8. \A U : \A u \in Into(U, x) : \E t \in U : u \in Insertions(t, x)
  OBVIOUS
<1>. HIDE DEF Into
<1>. QED  BY <1>7, <1>8

LEMMA ApartAppend ==
  ASSUME NEW S, NEW q \in Seq(S), NEW x \in S, NamedApart(Append(q, x))
  PROVE  NamedApart(q) /\ x.name \notin Names(q)
<1>. DEFINE n == Len(q)
            r == Append(q, x)
<1>1. n \in Nat /\ DOMAIN q = 1..n /\ DOMAIN r = 1..n + 1 /\ r[n + 1] = x
  OBVIOUS
<1>2. \A i \in 1..n : r[i] = q[i] /\ i \in 1..n + 1
  OBVIOUS
<1>3. NamedApart(r) /\ n + 1 \in 1..n + 1 /\ \A i \in 1..n : i # n + 1
  BY <1>1
<1>. HIDE DEF n, r
<1>4. \A i \in 1..n : q[i].name # x.name
  BY <1>1, <1>2, <1>3 DEF NamedApart
<1>. QED  BY <1>1, <1>2, <1>3, <1>4 DEF NamedApart, Names

(* Sorting keeps the elements, and none of them twice. *)
LEMMA SortingsKeep ==
  ASSUME NEW S
  PROVE  \A q \in Seq(S) : \A t \in Sortings(q) :
            /\ t \in Seq(S) /\ Range(t) = Range(q) /\ Len(t) = Len(q)
            /\ NamedApart(q) => NamedApart(t)
<1>. DEFINE Keeps(q, t) == /\ t \in Seq(S) /\ Range(t) = Range(q) /\ Len(t) = Len(q)
                           /\ NamedApart(q) => NamedApart(t)
            I == {q \in Seq(S) : \A t \in Sortings(q) : Keeps(q, t)}
<1>1. <<>> \in I
  <2>1. Keeps(<<>>, <<>>) /\ <<>> \in Seq(S)
    OBVIOUS
  <2>. HIDE DEF Keeps
  <2>. QED  BY <2>1, SortingsEmpty
<1>2. ASSUME NEW q \in Seq(S), NEW x \in S, q \in I PROVE Append(q, x) \in I
  <2>1. ASSUME NEW u \in Sortings(Append(q, x)) PROVE Keeps(Append(q, x), u)
    <3>1. PICK t \in Sortings(q) : u \in Insertions(t, x)
      BY SortingsAppend
    <3>2. t \in Seq(S) /\ Range(t) = Range(q) /\ Len(t) = Len(q) /\ (NamedApart(q) => NamedApart(t))
      BY <1>2
    <3>7. Len(Append(q, x)) = Len(q) + 1
      OBVIOUS
    <3>3. /\ u \in Seq(S) /\ Range(u) = Range(t) \cup {x} /\ Len(u) = Len(t) + 1
          /\ NamedApart(t) /\ x.name \notin Names(t) => NamedApart(u)
      BY <3>1, <3>2, InsertionAdds
    <3>4. Range(Append(q, x)) = Range(q) \cup {x}
      BY RangeOfAppend
    <3>5. NamedApart(Append(q, x)) => NamedApart(q) /\ x.name \notin Names(q)
      BY ApartAppend
    <3>6. Names(t) = Names(q)
      <4>1. \A w \in Seq(S) : Names(w) = {r.name : r \in Range(w)}
        BY DEF Names, Range
      <4>. QED  BY <3>2, <4>1
    <3>. QED  BY <3>2, <3>3, <3>4, <3>5, <3>6, <3>7
  <2>2. Append(q, x) \in Seq(S)
    OBVIOUS
  <2>. HIDE DEF Keeps
  <2>. QED  BY <2>1, <2>2
<1>. HIDE DEF I
<1>3. \A q \in Seq(S) : q \in I
  BY <1>1, <1>2, InductionOnSeq
<1>. QED  BY <1>3 DEF I

-----------------------------------------------------------------------------
(* One more element adds its atoms. *)
LEMMA GroupedAppend ==
  ASSUME NEW as \in Seq(Atom), NEW S, NEW es \in Seq(S), NEW e \in S
  PROVE  /\ GroupedBy(es, as) \in Seq(Atom)
         /\ GroupedBy(Append(es, e), as) = GroupedBy(es, as) \o Only(as, Named(e.name))
<1>. DEFINE n == Len(es)
            fs == Append(es, e)
            Those(m) == Only(as, Named(m))
            parts == [i \in 1..n |-> Those(es[i].name)]
            more == [i \in 1..n + 1 |-> Those(fs[i].name)]
            last == Those(e.name)
<1>1. n \in Nat /\ DOMAIN es = 1..n /\ DOMAIN fs = 1..n + 1 /\ fs[n + 1] = e
  OBVIOUS
<1>2. \A i \in 1..n : fs[i] = es[i]
  OBVIOUS
<1>3. GroupedBy(es, as) = FlattenSeq(parts) /\ GroupedBy(fs, as) = FlattenSeq(more)
  BY <1>1 DEF GroupedBy
<1>. HIDE DEF n, fs
<1>4. \A m : Those(m) \in Seq(Atom)
  BY OnlyTyped
<1>. HIDE DEF Those
<1>5. parts \in Seq(Seq(Atom)) /\ Len(parts) = n /\ last \in Seq(Atom)
  BY <1>1, <1>4
<1>6. more = Append(parts, last)
  <2>1. more \in Seq(Seq(Atom)) /\ Len(more) = n + 1
    BY <1>1, <1>4
  <2>2. \A i \in 1..n : more[i] = parts[i]
    BY <1>1, <1>2
  <2>3. more[n + 1] = last
    BY <1>1
  <2>. HIDE DEF more, parts, last
  <2>. QED  BY <1>1, <1>5, <2>1, <2>2, <2>3
<1>. HIDE DEF more, parts, last
<1>7. FlattenSeq(parts) \in Seq(Atom) /\ FlattenSeq(more) = FlattenSeq(parts) \o last
  BY <1>5, <1>6, FlattenAppend
<1>. QED  BY <1>3, <1>7 DEF last, fs, Those

LEMMA GroupedEmpty ==
  ASSUME NEW as
  PROVE  GroupedBy(<<>>, as) = <<>>
<1>1. [i \in DOMAIN <<>> |-> Only(as, Named(<<>>[i].name))] = <<>>
  OBVIOUS
<1>. QED  BY <1>1, FlattenEmpty DEF GroupedBy

LEMMA GroupedTyped ==
  ASSUME NEW as \in Seq(Atom), NEW S, NEW es \in Seq(S)
  PROVE  GroupedBy(es, as) \in Seq(Atom)
<1>1. CASE S = {}
  <2>1. es = <<>>
    BY <1>1
  <2>2. <<>> \in Seq(Atom)
    OBVIOUS
  <2>. QED  BY <2>1, <2>2, GroupedEmpty
<1>2. CASE S # {}
  BY <1>2, GroupedAppend
<1>. QED  BY <1>1, <1>2

LEMMA NamesOfAppend ==
  ASSUME NEW S, NEW q \in Seq(S), NEW x \in S
  PROVE  Names(Append(q, x)) = Names(q) \cup {x.name}
<1>1. Range(Append(q, x)) = Range(q) \cup {x}
  BY RangeOfAppend
<1>2. \A w : Names(w) = {r.name : r \in Range(w)}
  BY DEF Names, Range
<1>. QED  BY <1>1, <1>2

(* Grouped by elements without repetition, the atoms of each of them come  *)
(* as they are in the file, and nothing else comes.                        *)
LEMMA GroupedKeepsElement ==
  ASSUME NEW as \in Seq(Atom), NEW S, NEW m
  PROVE  \A es \in Seq(S) : NamedApart(es) =>
            Only(GroupedBy(es, as), Named(m)) =
                IF m \in Names(es) THEN Only(as, Named(m)) ELSE <<>>
<1>. DEFINE Keeps(es) == NamedApart(es) =>
                  Only(GroupedBy(es, as), Named(m)) =
                      IF m \in Names(es) THEN Only(as, Named(m)) ELSE <<>>
            I == {es \in Seq(S) : Keeps(es)}
<1>1. <<>> \in I
  <2>1. Names(<<>>) = {} /\ <<>> \in Seq(S)
    BY DEF Names
  <2>. QED  BY <2>1, GroupedEmpty, OnlyEmpty
<1>2. ASSUME NEW es \in Seq(S), NEW e \in S, es \in I PROVE Append(es, e) \in I
  <2>. DEFINE g == GroupedBy(es, as)
              last == Only(as, Named(e.name))
  <2>1. g \in Seq(Atom) /\ GroupedBy(Append(es, e), as) = g \o last /\ last \in Seq(Atom)
    BY GroupedAppend, OnlyTyped
  <2>2. NamedApart(es) => Only(g, Named(m)) = IF m \in Names(es) THEN Only(as, Named(m)) ELSE <<>>
    BY <1>2
  <2>3. NamedApart(Append(es, e)) => NamedApart(es) /\ e.name \notin Names(es)
    BY ApartAppend
  <2>4. Names(Append(es, e)) = Names(es) \cup {e.name}
    BY NamesOfAppend
  <2>5. Only(last, Named(m)) = IF m = e.name THEN Only(as, Named(m)) ELSE <<>>
    <3>1. Only(last, Named(m)) = Only(as, Named(e.name) \cap Named(m))
      <4>. DEFINE A == Named(e.name)
                  B == Named(m)
      <4>. HIDE DEF A, B
      <4>1. Only(Only(as, A), B) = Only(as, A \cap B)
        <5>1. \A U, V : \A s \in Seq(Atom) : Only(Only(s, U), V) = Only(s, U \cap V)
          BY OnlyTwice
        <5>. QED  BY <5>1
      <4>. QED  BY <4>1 DEF A, B
    <3>2. CASE m = e.name
      <4>1. Named(e.name) \cap Named(m) = Named(m)
        BY <3>2
      <4>. QED  BY <3>1, <3>2, <4>1
    <3>3. CASE m # e.name
      <4>1. Named(e.name) \cap Named(m) = {}
        BY <3>3 DEF Named
      <4>2. Only(as, {}) = <<>>
        BY OnlyNone
      <4>. QED  BY <3>1, <3>3, <4>1, <4>2
    <3>. QED  BY <3>2, <3>3
  <2>. HIDE DEF g, last
  <2>6. Only(g \o last, Named(m)) = Only(g, Named(m)) \o Only(last, Named(m))
    BY <2>1, OnlyConcat
  <2>7. Only(as, Named(m)) \in Seq(Atom)
    BY OnlyTyped
  <2>8. \A s \in Seq(Atom) : <<>> \o s = s /\ s \o <<>> = s
    OBVIOUS
  <2>9. <<>> \o <<>> = <<>>
    OBVIOUS
  <2>10. Keeps(Append(es, e))
    <3>. SUFFICES ASSUME NamedApart(Append(es, e))
                  PROVE  Only(g \o last, Named(m)) =
                            IF m \in Names(es) \cup {e.name} THEN Only(as, Named(m)) ELSE <<>>
      BY <2>1, <2>4
    <3>1. CASE m = e.name
      BY <2>2, <2>3, <2>5, <2>6, <2>7, <2>8, <3>1
    <3>2. CASE m # e.name
      <4>1. Only(g \o last, Named(m)) = Only(g, Named(m)) \o <<>>
        BY <2>5, <2>6, <3>2
      <4>2. Only(g, Named(m)) = IF m \in Names(es) THEN Only(as, Named(m)) ELSE <<>>
        BY <2>2, <2>3
      <4>. QED  BY <2>7, <2>8, <2>9, <3>2, <4>1, <4>2
    <3>. QED  BY <3>1, <3>2
  <2>11. Append(es, e) \in Seq(S)
    OBVIOUS
  <2>. HIDE DEF Keeps
  <2>. QED  BY <2>10, <2>11
<1>. HIDE DEF I
<1>3. \A es \in Seq(S) : es \in I
  BY <1>1, <1>2, InductionOnSeq
<1>. QED  BY <1>3 DEF I

(* And there are as many as the file has of these elements. *)
LEMMA GroupedCounts ==
  ASSUME NEW as \in Seq(Atom), NEW S
  PROVE  \A es \in Seq(S) : NamedApart(es) =>
            Len(GroupedBy(es, as)) = Len(Only(as, {a \in Atom : a.name \in Names(es)}))
<1>. DEFINE Of(es) == {a \in Atom : a.name \in Names(es)}
            Counts(es) == NamedApart(es) => Len(GroupedBy(es, as)) = Len(Only(as, Of(es)))
            I == {es \in Seq(S) : Counts(es)}
<1>1. <<>> \in I
  <2>1. Names(<<>>) = {} /\ <<>> \in Seq(S)
    BY DEF Names
  <2>2. Of(<<>>) = {}
    BY <2>1
  <2>3. Only(as, {}) = <<>>
    BY OnlyNone
  <2>4. GroupedBy(<<>>, as) = <<>>
    BY GroupedEmpty
  <2>. HIDE DEF Of
  <2>. QED  BY <2>1, <2>2, <2>3, <2>4
<1>2. ASSUME NEW es \in Seq(S), NEW e \in S, es \in I PROVE Append(es, e) \in I
  <2>. DEFINE g == GroupedBy(es, as)
              last == Only(as, Named(e.name))
  <2>1. g \in Seq(Atom) /\ GroupedBy(Append(es, e), as) = g \o last /\ last \in Seq(Atom)
    BY GroupedAppend, OnlyTyped
  <2>2. NamedApart(es) => Len(g) = Len(Only(as, Of(es)))
    BY <1>2
  <2>3. NamedApart(Append(es, e)) => NamedApart(es) /\ e.name \notin Names(es)
    BY ApartAppend
  <2>4. Of(Append(es, e)) = Of(es) \cup Named(e.name)
    BY NamesOfAppend DEF Named
  <2>5. e.name \notin Names(es) => Of(es) \cap Named(e.name) = {}
    BY DEF Named
  <2>. HIDE DEF g, Of
  <2>6. e.name \notin Names(es) =>
            Len(Only(as, Of(es) \cup Named(e.name))) = Len(Only(as, Of(es))) + Len(last)
    <3>. DEFINE A == Of(es)
                B == Named(e.name)
    <3>. HIDE DEF A, B
    <3>1. A \cap B = {} => Len(Only(as, A \cup B)) = Len(Only(as, A)) + Len(Only(as, B))
      <4>1. \A U, V : U \cap V = {} =>
                \A s \in Seq(Atom) : Len(Only(s, U \cup V)) = Len(Only(s, U)) + Len(Only(s, V))
        BY OnlySplits
      <4>. QED  BY <4>1
    <3>. QED  BY <2>5, <3>1 DEF A, B
  <2>. HIDE DEF last
  <2>7. Len(g \o last) = Len(g) + Len(last)
    BY <2>1, ConcatIs
  <2>8. Counts(Append(es, e))
    BY <2>1, <2>2, <2>3, <2>4, <2>6, <2>7
  <2>9. Append(es, e) \in Seq(S)
    OBVIOUS
  <2>. HIDE DEF Counts
  <2>. QED  BY <2>8, <2>9
<1>. HIDE DEF I
<1>3. \A es \in Seq(S) : es \in I
  BY <1>1, <1>2, InductionOnSeq
<1>. QED  BY <1>3 DEF I

(* So all atoms are there, and those of an element in the order of the file. *)
LEMMA GroupedIsWhole ==
  ASSUME NEW as \in Seq(Atom), NEW S, NEW es \in Seq(S), NamedApart(es), Names(as) \subseteq Names(es)
  PROVE  /\ Len(GroupedBy(es, as)) = Len(as)
         /\ \A e \in Elements : Only(GroupedBy(es, as), Named(e)) = Only(as, Named(e))
<1>1. Len(GroupedBy(es, as)) = Len(as)
  <2>. DEFINE T == {a \in Atom : a.name \in Names(es)}
  <2>1. Range(as) \subseteq T
    <3>1. \A i \in DOMAIN as : as[i] \in Atom
      BY ElementsOfSeq
    <3>2. \A i \in DOMAIN as : as[i].name \in Names(as)
      BY DEF Names
    <3>3. \A i \in DOMAIN as : as[i] \in T
      BY <3>1, <3>2
    <3>. QED  BY <3>3 DEF Range
  <2>2. Len(GroupedBy(es, as)) = Len(Only(as, T))
    BY GroupedCounts
  <2>. HIDE DEF T
  <2>3. Only(as, T) = as
    BY <2>1, OnlyAll
  <2>. QED  BY <2>2, <2>3
<1>2. ASSUME NEW e \in Elements PROVE Only(GroupedBy(es, as), Named(e)) = Only(as, Named(e))
  <2>1. Only(GroupedBy(es, as), Named(e)) = IF e \in Names(es) THEN Only(as, Named(e)) ELSE <<>>
    BY GroupedKeepsElement
  <2>2. ASSUME e \notin Names(es) PROVE Only(as, Named(e)) = <<>>
    <3>1. Range(as) \cap Named(e) = {}
      BY <2>2 DEF Range, Names, Named
    <3>. QED  BY <3>1, OnlyNone
  <2>. QED  BY <2>1, <2>2
<1>. QED  BY <1>1, <1>2

-----------------------------------------------------------------------------
Species == [name: Elements, pseudo: Elements \cup {"none"}]
WithoutSpecies == {"Orca", "QChem", "GamessUS"}

(* A sequence without repetition is as long as the set of its elements. *)
LEMMA DistinctLength ==
  ASSUME NEW S, NEW s \in Seq(S), Distinct(s)
  PROVE  Cardinality(Range(s)) = Len(s)
<1>. DEFINE n == Len(s)
<1>1. n \in Nat /\ DOMAIN s = 1..n
  OBVIOUS
<1>2. s \in [1..n -> Range(s)]
  BY <1>1 DEF Range
<1>. HIDE DEF n
<1>3. s \in Injection(1..n, Range(s))
  BY <1>1, <1>2 DEF Injection, IsInjective, Distinct
<1>4. s \in Surjection(1..n, Range(s))
  BY <1>1, <1>2 DEF Surjection, Range
<1>5. ExistsBijection(1..n, Range(s))
  BY <1>3, <1>4 DEF ExistsBijection, Bijection
<1>6. Cardinality(Range(s)) = n
  BY <1>1, <1>5, FS_CountingElements
<1>. QED  BY <1>6 DEF n

(* A std::set of elements is gone through once, element by element. *)
LEMMA InOrderIs ==
  ASSUME NEW S \in SUBSET Elements
  PROVE  /\ InOrder(S) \in Seq(Elements) /\ Range(InOrder(S)) = S /\ Distinct(InOrder(S))
         /\ Len(InOrder(S)) = Cardinality(S)
<1>1. ElementOrder \in Seq(STRING) /\ Distinct(ElementOrder)
  BY StructureAssumption DEF StructureAssumption
<1>2. Range(ElementOrder) = Elements
  BY DEF Range, Elements
<1>3. ElementOrder \in Seq(Elements)
  BY <1>1 DEF Elements
<1>4. InOrder(S) \in Seq(Elements)
  BY <1>3, OnlyTyped DEF InOrder
<1>5. Range(InOrder(S)) = Elements \cap S
  BY <1>2, <1>3, OnlyHas DEF InOrder
<1>6. Distinct(InOrder(S))
  BY <1>1, <1>3, OnlyDistinct DEF InOrder
<1>7. Len(InOrder(S)) = Cardinality(S)
  BY <1>4, <1>5, <1>6, DistinctLength
<1>. QED  BY <1>4, <1>5, <1>6, <1>7

(* The names of a sequence of records made of a sequence of elements. *)
LEMMA NamesOfRecords ==
  ASSUME NEW es \in Seq(Elements), NEW s, DOMAIN s = DOMAIN es,
         \A i \in DOMAIN es : s[i].name = es[i]
  PROVE  Names(s) = Range(es) /\ (Distinct(es) => NamedApart(s))
BY DEF Names, Range, Distinct, NamedApart

LEMMA SpeciesOfIs ==
  ASSUME NEW S \in SUBSET Elements
  PROVE  /\ SpeciesOf(S) \in Seq(Species) /\ Names(SpeciesOf(S)) = S /\ NamedApart(SpeciesOf(S))
         /\ Len(SpeciesOf(S)) = Cardinality(S)
<1>. DEFINE es == InOrder(S)
            s == [i \in DOMAIN es |-> [name |-> es[i], pseudo |-> "none"]]
<1>1. es \in Seq(Elements) /\ Range(es) = S /\ Distinct(es) /\ Len(es) = Cardinality(S)
  BY InOrderIs
<1>2. SpeciesOf(S) = s
  BY DEF SpeciesOf
<1>. HIDE DEF es
<1>3. \A i \in DOMAIN es : es[i] \in Elements
  BY <1>1, ElementsOfSeq
<1>4. s \in Seq(Species) /\ Len(s) = Len(es)
  <2>1. DOMAIN es = 1..Len(es) /\ Len(es) \in Nat
    BY <1>1
  <2>. QED  BY <1>3, <2>1 DEF Species
<1>5. DOMAIN s = DOMAIN es /\ \A i \in DOMAIN es : s[i].name = es[i]
  OBVIOUS
<1>. HIDE DEF s
<1>6. Names(s) = S /\ NamedApart(s)
  BY <1>1, <1>5, NamesOfRecords
<1>. QED  BY <1>1, <1>2, <1>4, <1>6

LEMMA BeginsNames ==
  ASSUME NEW S, NEW s \in Seq(S), NEW t \in Seq(S), Begins(s, t)
  PROVE  Names(t) \subseteq Names(s)
<1>1. DOMAIN t = 1..Len(t) /\ DOMAIN s = 1..Len(s) /\ Len(t) \in Nat /\ Len(s) \in Nat
  OBVIOUS
<1>2. \A i \in DOMAIN t : i \in DOMAIN s /\ s[i] = t[i]
  BY <1>1 DEF Begins
<1>. QED  BY <1>2 DEF Names

(* The rows of the card atomic_species. *)
HasOwnPseudo(row) == row.name \in Potentials => row.pseudo = row.name

LEMMA AtomicSpeciesIs ==
  ASSUME NEW S \in SUBSET Elements, NEW old \in Seq(Species)
  PROVE  /\ AtomicSpecies(old, S) \in Seq(Species)
         /\ S \subseteq Names(AtomicSpecies(old, S))
         /\ Names(SubSeq(AtomicSpecies(old, S), 1, Cardinality(S))) = S
         /\ (\A i \in DOMAIN old : HasOwnPseudo(old[i])) =>
              \A i \in DOMAIN AtomicSpecies(old, S) : HasOwnPseudo(AtomicSpecies(old, S)[i])
<1>. DEFINE es == InOrder(S)
            pseudo(i) == IF es[i] \in Potentials THEN es[i]
                         ELSE IF i \in DOMAIN old THEN old[i].pseudo ELSE "none"
            new == [i \in DOMAIN es |-> [name |-> es[i], pseudo |-> pseudo(i)]]
            all == Overlay(old, new)
<1>1. es \in Seq(Elements) /\ Range(es) = S /\ Distinct(es) /\ Len(es) = Cardinality(S)
  BY InOrderIs
<1>2. AtomicSpecies(old, S) = all
  BY DEF AtomicSpecies
<1>. HIDE DEF es
<1>3. \A i \in DOMAIN es : es[i] \in Elements
  BY <1>1, ElementsOfSeq
<1>4. \A i \in DOMAIN old : old[i] \in Species
  BY ElementsOfSeq
<1>5. new \in Seq(Species) /\ Len(new) = Len(es)
  <2>1. DOMAIN es = 1..Len(es) /\ Len(es) \in Nat
    BY <1>1
  <2>2. \A i \in DOMAIN es : pseudo(i) \in Elements \cup {"none"}
    BY <1>3, <1>4 DEF Species
  <2>. HIDE DEF pseudo
  <2>. QED  BY <1>3, <2>1, <2>2 DEF Species
<1>6. DOMAIN new = DOMAIN es /\ \A i \in DOMAIN es : new[i].name = es[i]
  OBVIOUS
<1>7. \A i \in DOMAIN es : HasOwnPseudo(new[i])
  BY DEF HasOwnPseudo
<1>. HIDE DEF new
<1>8. Names(new) = S
  BY <1>1, <1>6, NamesOfRecords
<1>9. all \in Seq(Species) /\ Begins(all, new)
  BY <1>5, OverlayBegins
<1>10. S \subseteq Names(all)
  BY <1>5, <1>8, <1>9, BeginsNames
<1>12. Names(SubSeq(all, 1, Cardinality(S))) = S
  <2>. HIDE DEF all
  <2>1. SubSeq(all, 1, Len(new)) = new
    BY <1>5, <1>9, CutToPrefix
  <2>. QED  BY <1>1, <1>5, <1>8, <2>1
<1>11. ASSUME \A i \in DOMAIN old : HasOwnPseudo(old[i]), NEW i \in DOMAIN all
       PROVE  HasOwnPseudo(all[i])
  <2>1. Len(old) \in Nat /\ DOMAIN old = 1..Len(old) /\ Len(new) \in Nat /\ DOMAIN new = 1..Len(new)
    BY <1>5
  <2>2. i \in 1..(IF Len(old) > Len(new) THEN Len(old) ELSE Len(new))
    BY <1>11 DEF Overlay
  <2>3. all[i] = IF i <= Len(new) THEN new[i] ELSE old[i]
    BY <2>2 DEF Overlay
  <2>4. CASE i <= Len(new)
    BY <1>6, <1>7, <2>1, <2>2, <2>3, <2>4
  <2>5. CASE ~(i <= Len(new))
    BY <1>11, <2>1, <2>2, <2>3, <2>5
  <2>. QED  BY <2>4, <2>5
<1>. QED  BY <1>2, <1>9, <1>10, <1>11, <1>12

(* The sorted list has every element of the set; on the first call, once. *)
LEMMA SortedIs ==
  ASSUME order \in Seq(Keyed), NEW S \in SUBSET Elements, NEW q \in Sortings(Appended(S))
  PROVE  /\ q \in Seq(Keyed)
         /\ Len(q) = Len(order) + Cardinality(S)
         /\ S \subseteq Names(q) /\ Names(q) \subseteq Elements
         /\ Names(q) \subseteq S \cup Names(order)
         /\ order = <<>> => NamedApart(q)
<1>. DEFINE es == InOrder(S)
            new == [i \in DOMAIN es |-> [name |-> es[i], key |-> Number[es[i]]]]
<1>1. es \in Seq(Elements) /\ Range(es) = S /\ Distinct(es) /\ Len(es) = Cardinality(S)
  BY InOrderIs
<1>2. Appended(S) = order \o new
  BY DEF Appended
<1>. HIDE DEF es
<1>3. \A i \in DOMAIN es : es[i] \in Elements /\ Number[es[i]] \in Nat
  <2>1. \A i \in DOMAIN es : es[i] \in Elements
    BY <1>1, ElementsOfSeq
  <2>2. \A e \in Elements : Number[e] \in Nat
    BY StructureAssumption DEF StructureAssumption
  <2>. QED  BY <2>1, <2>2
<1>4. new \in Seq(Keyed)
  <2>1. DOMAIN es = 1..Len(es) /\ Len(es) \in Nat
    BY <1>1
  <2>. QED  BY <1>3, <2>1 DEF Keyed
<1>14. Len(new) = Cardinality(S)
  <2>1. DOMAIN es = 1..Len(es) /\ Len(es) \in Nat
    BY <1>1
  <2>2. DOMAIN new = DOMAIN es
    OBVIOUS
  <2>. HIDE DEF new
  <2>. QED  BY <1>1, <1>4, <2>1, <2>2
<1>5. DOMAIN new = DOMAIN es /\ \A i \in DOMAIN es : new[i].name = es[i]
  OBVIOUS
<1>. HIDE DEF new
<1>6. Names(new) = S /\ NamedApart(new)
  BY <1>1, <1>5, NamesOfRecords
<1>7. /\ Appended(S) \in Seq(Keyed) /\ Range(new) \subseteq Range(Appended(S))
      /\ Len(Appended(S)) = Len(order) + Cardinality(S)
      /\ Range(Appended(S)) \subseteq Range(order) \cup Range(new)
  <2>1. /\ order \o new \in Seq(Keyed) /\ Len(order \o new) = Len(order) + Len(new)
        /\ \A i \in 1..Len(new) : (order \o new)[Len(order) + i] = new[i]
    BY <1>4, ConcatIs
  <2>2. /\ DOMAIN new = 1..Len(new) /\ DOMAIN (order \o new) = 1..Len(order \o new)
        /\ Len(new) \in Nat /\ Len(order) \in Nat
    BY <1>4, <2>1
  <2>3. \A i \in 1..Len(new) : Len(order) + i \in 1..Len(order \o new)
    BY <2>1, <2>2
  <2>4. ASSUME NEW i \in 1..Len(order \o new)
        PROVE  (order \o new)[i] \in Range(order) \cup Range(new)
    <3>1. /\ \A j \in 1..Len(order) : (order \o new)[j] = order[j]
          /\ DOMAIN order = 1..Len(order)
      BY <1>4, ConcatIs
    <3>2. CASE i <= Len(order)
      <4>1. i \in 1..Len(order)
        BY <2>2, <3>2
      <4>. QED  BY <3>1, <4>1 DEF Range
    <3>3. CASE ~ (i <= Len(order))
      <4>1. i - Len(order) \in 1..Len(new) /\ Len(order) + (i - Len(order)) = i
        BY <2>1, <2>2, <3>3
      <4>2. (order \o new)[i] = new[i - Len(order)]
        BY <2>1, <4>1
      <4>. QED  BY <2>2, <4>1, <4>2 DEF Range
    <3>. QED  BY <3>2, <3>3
  <2>5. Range(order \o new) \subseteq Range(order) \cup Range(new)
    BY <2>2, <2>4 DEF Range
  <2>6. Len(order \o new) = Len(order) + Cardinality(S)
    BY <1>14, <2>1
  <2>. QED  BY <1>2, <2>1, <2>2, <2>3, <2>5, <2>6 DEF Range
<1>8. /\ q \in Seq(Keyed) /\ Range(q) = Range(Appended(S)) /\ Len(q) = Len(Appended(S))
      /\ NamedApart(Appended(S)) => NamedApart(q)
  BY <1>7, SortingsKeep
<1>9. \A w : Names(w) = {r.name : r \in Range(w)}
  BY DEF Names, Range
<1>10. S \subseteq Names(q)
  BY <1>6, <1>7, <1>8, <1>9
<1>11. Names(q) \subseteq Elements
  <2>1. \A i \in DOMAIN q : q[i] \in Keyed
    BY <1>8, ElementsOfSeq
  <2>. QED  BY <2>1 DEF Names, Keyed
<1>12. order = <<>> => NamedApart(q)
  <2>1. <<>> \o new = new
    BY <1>4
  <2>. QED  BY <1>2, <1>6, <1>8, <2>1
<1>13. Names(q) \subseteq S \cup Names(order)
  BY <1>6, <1>7, <1>8, <1>9
<1>. QED  BY <1>7, <1>8, <1>10, <1>11, <1>12, <1>13

(* elem_index_map names a row of its element. *)
LEMMA LastPositionIs ==
  ASSUME NEW S, NEW q \in Seq(S), NEW e \in Names(q)
  PROVE  /\ LastPosition(q, e) \in DOMAIN q /\ q[LastPosition(q, e)].name = e
         /\ \A j \in DOMAIN q : q[j].name = e => j <= LastPosition(q, e)
<1>. DEFINE n == Len(q)
            T == {i \in 1..n : q[i].name = e}
<1>1. n \in Nat /\ DOMAIN q = 1..n
  OBVIOUS
<1>. HIDE DEF n
<1>2. T \in SUBSET (1..n) /\ T # {}
  BY <1>1 DEF Names
<1>3. Max(T) \in T /\ \A i \in T : i <= Max(T)
  <2>. HIDE DEF T
  <2>. QED  BY <1>1, <1>2, MaxOfNumbers
<1>4. \E i \in DOMAIN q : q[i].name = e /\ \A j \in DOMAIN q : q[j].name = e => j <= i
  BY <1>1, <1>3
<1>. QED  BY <1>4 DEF LastPosition

-----------------------------------------------------------------------------
SpeciesTyped ==
    /\ elements \subseteq Elements
    /\ Names(atoms) \subseteq elements
    /\ rows \in Seq(Atom)
    /\ species \in Seq(Species)
    /\ kinds \in Nat
    /\ order \in Seq(Keyed)
    /\ calc \notin Siestas \cup {"Vasp"} => order = <<>>

SpeciesCover ==
    calc \notin WithoutSpecies =>
        elements \subseteq (IF calc = "Vasp" THEN Names(order) ELSE Names(species))

IndexInv ==
    /\ calc \in Siestas =>
          /\ DOMAIN index = Names(order)
          /\ \A e \in DOMAIN index :
                index[e] \in DOMAIN species /\ species[index[e]].name = e
    /\ calc \notin Siestas => index = <<>>

PseudoInv ==
    calc \in {"PwScf", "PwPhonopy"} => \A i \in DOMAIN species : HasOwnPseudo(species[i])

GroupsInv ==
    /\ files = 0 => input = NoInput /\ order = <<>>
    /\ calc = "Elk" => NamedApart(species) /\ rows = GroupedBy(species, atoms)
    /\ calc = "Vasp" /\ files = 1 => NamedApart(order)

\* The classes that state how many species there are; the labels of Siesta
\* come from order, which grows by all elements at every call.
KindsInv ==
    /\ calc \notin Siestas \cup {"PwScf", "PwPhonopy", "Elk"} => kinds = 0
    /\ kinds # 0 /\ (calc \in Siestas => files = 1) =>
          elements \subseteq Names(SubSeq(species, 1, kinds))
    /\ calc \in Siestas =>
          /\ Names(order) \subseteq elements
          /\ files # 0 => order # <<>>
    /\ IndexWithinSpecies

SpeciesInv ==
    SpeciesTyped /\ SpeciesCover /\ IndexInv /\ PseudoInv /\ GroupsInv /\ KindsInv

LEMMA InitSpeciesInv ==
  Init => SpeciesInv
<1>. SUFFICES ASSUME Init PROVE SpeciesInv
  OBVIOUS
<1>1. /\ elements = {} /\ atoms = <<>> /\ rows = <<>> /\ species = <<>> /\ order = <<>>
      /\ index = <<>> /\ input = NoInput /\ kinds = 0 /\ files = 0
  BY DEF Init
<1>2. Names(<<>>) = {} /\ NamedApart(<<>>) /\ DOMAIN <<>> = {}
  BY DEF Names, NamedApart
<1>3. \A S : <<>> \in Seq(S)
  OBVIOUS
<1>4. SpeciesTyped
  BY <1>1, <1>2, <1>3 DEF SpeciesTyped
<1>5. SpeciesCover
  BY <1>1 DEF SpeciesCover
<1>6. IndexInv
  BY <1>1, <1>2 DEF IndexInv
<1>7. PseudoInv
  BY <1>1, <1>2 DEF PseudoInv
<1>8. GroupsInv
  BY <1>1, <1>2, GroupedEmpty DEF GroupsInv
<1>9. KindsInv
  BY <1>1, <1>2 DEF KindsInv, IndexWithinSpecies
<1>. QED  BY <1>4, <1>5, <1>6, <1>7, <1>8, <1>9 DEF SpeciesInv

(* The elements of the file are in elements_set when get_xyz goes on. *)
LEMMA ReadNames ==
  ASSUME AtomsInv, SpeciesTyped, NEW names \in FileContents, ReadXyz(names)
  PROVE  /\ elements' \in SUBSET Elements
         /\ Names(atoms') \subseteq elements'
         /\ atoms' \in Seq(Atom)
         /\ elements \subseteq elements' /\ elements' # {}
         /\ files' # 0 /\ (files' = 1 <=> files = 0)
         /\ files' = 1 => order = <<>> \/ files = 0
         /\ calc' = calc /\ input' = input
<1>1. PICK n \in 1..MaxAtoms : names \in [1..n -> Elements]
  BY DEF FileContents
<1>2. \A i \in DOMAIN names : names[i] \in Elements
  BY <1>1
<1>3. elements' \in SUBSET Elements
  BY <1>2 DEF ReadXyz, SpeciesTyped
<1>4. Names(atoms') \subseteq elements'
  <2>1. DOMAIN atoms' = DOMAIN names /\ \A i \in DOMAIN names : atoms'[i].name = names[i]
    BY DEF ReadXyz
  <2>2. elements' = elements \cup {names[i] : i \in DOMAIN names}
    BY DEF ReadXyz
  <2>. QED  BY <2>1, <2>2 DEF Names
<1>5. files' = files + 1 /\ files \in Nat
  BY DEF ReadXyz, AtomsInv
<1>6. atoms' \in Seq(Atom) /\ calc' = calc /\ input' = input
  BY ReadAtoms
<1>7. elements \subseteq elements' /\ elements' # {}
  <2>1. n \in Nat /\ 1 <= n
    BY <1>1, StructureAssumption DEF StructureAssumption
  <2>2. 1 \in DOMAIN names
    BY <1>1, <2>1
  <2>. QED  BY <2>2 DEF ReadXyz
<1>. QED  BY <1>3, <1>4, <1>5, <1>6, <1>7

LEMMA ElementsCounted ==
  ASSUME NEW S \in SUBSET Elements
  PROVE  Cardinality(S) \in Nat
<1>1. InOrder(S) \in Seq(Elements) /\ Len(InOrder(S)) = Cardinality(S)
  BY InOrderIs
<1>. QED  BY <1>1

(* get_xyz of the classes whose species are those of elements_set.         *)
LEMMA SimpleReadKeeps ==
  ASSUME StructureInv, SpeciesInv, NEW names \in FileContents, ReadXyz(names),
         calc \notin Siestas \cup {"Vasp"},
         UNCHANGED <<order, index>>,
         rows' \in Seq(Atom), species' \in Seq(Species), kinds' \in Nat,
         calc \notin {"PwScf", "PwPhonopy", "Elk"} => kinds' = 0,
         kinds' # 0 => elements' \subseteq Names(SubSeq(species', 1, kinds')),
         calc \notin WithoutSpecies => elements' \subseteq Names(species'),
         calc \in {"PwScf", "PwPhonopy"} => \A i \in DOMAIN species' : HasOwnPseudo(species'[i]),
         calc = "Elk" => NamedApart(species') /\ rows' = GroupedBy(species', atoms')
  PROVE  SpeciesInv'
<1>1. /\ elements' \in SUBSET Elements /\ Names(atoms') \subseteq elements'
      /\ files' # 0 /\ calc' = calc /\ input' = input
  BY ReadNames DEF StructureInv, SpeciesInv
<1>2. SpeciesTyped'
  BY <1>1 DEF SpeciesInv, SpeciesTyped
<1>3. SpeciesCover'
  BY <1>1 DEF SpeciesCover
<1>4. IndexInv'
  BY <1>1 DEF SpeciesInv, IndexInv
<1>5. PseudoInv'
  BY <1>1 DEF PseudoInv
<1>6. GroupsInv'
  BY <1>1 DEF GroupsInv
<1>7. KindsInv'
  BY <1>1 DEF KindsInv, IndexWithinSpecies
<1>. QED  BY <1>2, <1>3, <1>4, <1>5, <1>6, <1>7 DEF SpeciesInv

LEMMA PwReadKeeps ==
  ASSUME StructureInv, SpeciesInv, NEW names \in FileContents, PwGetXyz(names)
  PROVE  SpeciesInv'
<1>1. ReadXyz(names) /\ calc \in {"PwScf", "PwPhonopy"} /\ UNCHANGED <<order, index>>
  BY DEF PwGetXyz
<1>2. elements' \in SUBSET Elements /\ atoms' \in Seq(Atom)
  BY <1>1, ReadNames DEF StructureInv, SpeciesInv
<1>3. species \in Seq(Species) /\ rows \in Seq(Atom) /\ \A i \in DOMAIN species : HasOwnPseudo(species[i])
  BY <1>1 DEF SpeciesInv, SpeciesTyped, PseudoInv
<1>4. rows' \in Seq(Atom)
  BY <1>2, <1>3, OverlayBegins DEF PwGetXyz
<1>5. /\ species' \in Seq(Species) /\ elements' \subseteq Names(species')
      /\ \A i \in DOMAIN species' : HasOwnPseudo(species'[i])
      /\ elements' \subseteq Names(SubSeq(species', 1, Cardinality(elements')))
  BY <1>2, <1>3, AtomicSpeciesIs DEF PwGetXyz
<1>6. kinds' = Cardinality(elements') /\ kinds' \in Nat
  BY <1>2, ElementsCounted DEF PwGetXyz
<1>. QED  BY <1>1, <1>4, <1>5, <1>6, SimpleReadKeeps DEF Siestas

LEMMA OctopusReadKeeps ==
  ASSUME StructureInv, SpeciesInv, NEW names \in FileContents, OctopusGetXyz(names)
  PROVE  SpeciesInv'
<1>1. ReadXyz(names) /\ calc = "Octopus" /\ UNCHANGED <<kinds, order, index>>
  BY DEF OctopusGetXyz
<1>2. elements' \in SUBSET Elements /\ atoms' \in Seq(Atom)
  BY <1>1, ReadNames DEF StructureInv, SpeciesInv
<1>3. species \in Seq(Species) /\ rows \in Seq(Atom)
  BY DEF SpeciesInv, SpeciesTyped
<1>4. rows' \in Seq(Atom)
  BY <1>2, <1>3, OverlayBegins DEF OctopusGetXyz
<1>5. SpeciesOf(elements') \in Seq(Species) /\ Names(SpeciesOf(elements')) = elements'
  BY <1>2, SpeciesOfIs
<1>6. species' \in Seq(Species) /\ Begins(species', SpeciesOf(elements'))
  BY <1>3, <1>5, OverlayBegins DEF OctopusGetXyz
<1>7. elements' \subseteq Names(species')
  BY <1>5, <1>6, BeginsNames
<1>8. kinds' = 0
  BY <1>1 DEF SpeciesInv, KindsInv, Siestas
<1>. QED  BY <1>1, <1>4, <1>6, <1>7, <1>8, SimpleReadKeeps DEF Siestas

LEMMA RenewedSpeciesKeep ==
  ASSUME StructureInv, SpeciesInv, NEW names \in FileContents, ReadXyz(names),
         calc \in {"NWChem", "Elk", "Cp2k"}, UNCHANGED <<order, index>>,
         species' = SpeciesOf(elements'), rows' \in Seq(Atom),
         kinds' = IF calc = "Elk" THEN Cardinality(elements') ELSE kinds,
         calc = "Elk" => rows' = GroupedBy(species', atoms')
  PROVE  SpeciesInv'
<1>1. elements' \in SUBSET Elements
  BY ReadNames DEF StructureInv, SpeciesInv
<1>2. /\ species' \in Seq(Species) /\ Names(species') = elements' /\ NamedApart(species')
      /\ Len(species') = Cardinality(elements')
  BY <1>1, SpeciesOfIs
<1>3. SubSeq(species', 1, Len(species')) = species'
  BY <1>2
<1>4. calc # "Elk" => kinds = 0
  BY DEF SpeciesInv, KindsInv, Siestas
<1>5. kinds' \in Nat /\ (calc = "Elk" => kinds' = Len(species')) /\ (calc # "Elk" => kinds' = 0)
  BY <1>1, <1>2, <1>4, ElementsCounted
<1>6. kinds' # 0 => elements' \subseteq Names(SubSeq(species', 1, kinds'))
  BY <1>2, <1>3, <1>5
<1>7. calc \notin Siestas \cup {"Vasp"} /\ calc \notin {"PwScf", "PwPhonopy"}
  BY DEF Siestas
<1>. QED  BY <1>1, <1>2, <1>5, <1>6, <1>7, SimpleReadKeeps

LEMMA SiestaReadKeeps ==
  ASSUME StructureInv, SpeciesInv, NEW names \in FileContents, SiestaGetXyz(names)
  PROVE  SpeciesInv'
<1>1. ReadXyz(names) /\ calc \in Siestas
  BY DEF SiestaGetXyz, Siestas
<1>2. /\ elements' \in SUBSET Elements /\ Names(atoms') \subseteq elements'
      /\ elements \subseteq elements' /\ elements' # {} /\ (files' = 1 <=> files = 0)
      /\ atoms' \in Seq(Atom) /\ files' # 0 /\ calc' = calc /\ input' = input
  BY <1>1, ReadNames DEF StructureInv, SpeciesInv
<1>3. PICK q \in Sortings(Appended(elements')) :
        /\ order' = [i \in DOMAIN q |-> [name |-> q[i].name, key |-> i]]
        /\ index' = [e \in Names(q) |-> LastPosition(q, e)]
        /\ species' = Overlay(species,
                              [i \in DOMAIN q |-> [name |-> q[i].name, pseudo |-> q[i].name]])
  BY DEF SiestaGetXyz
<1>4. species \in Seq(Species) /\ rows \in Seq(Atom) /\ order \in Seq(Keyed)
  BY DEF SpeciesInv, SpeciesTyped
<1>5. /\ q \in Seq(Keyed) /\ elements' \subseteq Names(q) /\ Names(q) \subseteq Elements
      /\ Len(q) = Len(order) + Cardinality(elements')
      /\ Names(q) \subseteq elements' \cup Names(order)
  BY <1>2, <1>4, SortedIs
<1>. DEFINE new == [i \in DOMAIN q |-> [name |-> q[i].name, pseudo |-> q[i].name]]
<1>6. DOMAIN q = 1..Len(q) /\ Len(q) \in Nat /\ \A i \in DOMAIN q : q[i].name \in Elements
  BY <1>5 DEF Names
<1>7. order' \in Seq(Keyed) /\ Names(order') = Names(q)
  <2>1. order' \in Seq(Keyed)
    BY <1>3, <1>6 DEF Keyed
  <2>2. DOMAIN order' = DOMAIN q /\ \A i \in DOMAIN q : order'[i].name = q[i].name
    BY <1>3
  <2>. QED  BY <2>1, <2>2 DEF Names
<1>8. new \in Seq(Species) /\ DOMAIN new = DOMAIN q /\ \A i \in DOMAIN q : new[i].name = q[i].name
  <2>1. new \in Seq(Species)
    BY <1>6 DEF Species
  <2>. QED  BY <2>1
<1>9. Names(new) = Names(q)
  BY <1>8 DEF Names
<1>10. species' = Overlay(species, new)
  BY <1>3
<1>. HIDE DEF new
<1>11. species' \in Seq(Species) /\ Begins(species', new)
  BY <1>4, <1>8, <1>10, OverlayBegins
<1>12. elements' \subseteq Names(species')
  BY <1>5, <1>8, <1>9, <1>11, BeginsNames
<1>13. rows' \in Seq(Atom)
  BY <1>2, <1>4, OverlayBegins DEF SiestaGetXyz
<1>14. \A i \in DOMAIN q : i \in DOMAIN species' /\ species'[i].name = q[i].name
  <2>1. DOMAIN new = 1..Len(new) /\ DOMAIN species' = 1..Len(species') /\ Len(new) \in Nat /\ Len(species') \in Nat
    BY <1>8, <1>11
  <2>. QED  BY <1>8, <1>11, <2>1 DEF Begins
<1>15. IndexInv'
  <2>1. DOMAIN index' = Names(q) /\ \A e \in Names(q) : index'[e] = LastPosition(q, e)
    BY <1>3
  <2>2. \A e \in Names(q) : LastPosition(q, e) \in DOMAIN q /\ q[LastPosition(q, e)].name = e
    BY <1>5, LastPositionIs
  <2>. QED  BY <1>1, <1>2, <1>7, <1>14, <2>1, <2>2 DEF IndexInv
<1>18. kinds' = Cardinality(elements') /\ kinds' \in Nat
  BY <1>2, ElementsCounted DEF SiestaGetXyz
<1>16. SpeciesTyped'
  BY <1>1, <1>2, <1>7, <1>11, <1>13, <1>18 DEF SpeciesTyped
<1>17. SpeciesCover' /\ PseudoInv' /\ GroupsInv'
  BY <1>1, <1>2, <1>12 DEF SpeciesCover, PseudoInv, GroupsInv, Siestas
<1>19. /\ DOMAIN index' = Names(q)
       /\ \A e \in Names(q) :
              /\ index'[e] \in DOMAIN q /\ q[index'[e]].name = e
              /\ \A j \in DOMAIN q : q[j].name = e => j <= index'[e]
  <2>1. DOMAIN index' = Names(q) /\ \A e \in Names(q) : index'[e] = LastPosition(q, e)
    BY <1>3
  <2>2. \A e \in Names(q) :
            /\ LastPosition(q, e) \in DOMAIN q /\ q[LastPosition(q, e)].name = e
            /\ \A j \in DOMAIN q : q[j].name = e => j <= LastPosition(q, e)
    BY <1>5, LastPositionIs
  <2>. QED  BY <2>1, <2>2
<1>20. /\ Names(order) \subseteq elements /\ (files # 0 => order # <<>>)
       /\ files = 0 => order = <<>>
  BY <1>1 DEF SpeciesInv, KindsInv, GroupsInv
<1>21. Names(q) = elements' /\ order' # <<>>
  <2>1. Names(q) = elements'
    BY <1>2, <1>5, <1>20
  <2>2. Names(<<>>) = {}
    BY DEF Names
  <2>. QED  BY <1>2, <1>7, <2>1, <2>2
<1>22. CASE files = 0
  <2>1. Len(q) = kinds' /\ Len(new) = Len(q)
    <3>1. Len(order) = 0
      BY <1>20, <1>22
    <3>. QED  BY <1>5, <1>6, <1>8, <1>18, <3>1
  <2>2. SubSeq(species', 1, kinds') = new
    BY <1>8, <1>11, <2>1, CutToPrefix
  <2>3. \A e \in elements' : index'[e] <= kinds'
    BY <1>6, <1>19, <1>21, <2>1
  <2>4. IndexWithinSpecies'
    BY <1>2, <1>22, <2>3 DEF IndexWithinSpecies
  <2>5. KindsInv'
    BY <1>1, <1>2, <1>7, <1>9, <1>21, <2>2, <2>4 DEF KindsInv
  <2>. QED  BY <1>15, <1>16, <1>17, <2>5 DEF SpeciesInv
<1>23. CASE files # 0
  <2>1. Len(q) > kinds' /\ Len(q) \in DOMAIN q
    <3>1. Len(order) \in Nat /\ Len(order) > 0
      BY <1>4, <1>20, <1>23
    <3>. QED  BY <1>5, <1>6, <1>18, <3>1
  <2>. DEFINE e == q[Len(q)].name
  <2>2. e \in elements' /\ e \in Names(q)
    BY <1>21, <2>1 DEF Names
  <2>3. ~ (index'[e] <= kinds')
    BY <1>6, <1>18, <1>19, <2>1, <2>2
  <2>. HIDE DEF e
  <2>4. IndexWithinSpecies'
    BY <1>2, <1>23, <2>2, <2>3 DEF IndexWithinSpecies
  <2>5. KindsInv'
    BY <1>1, <1>2, <1>7, <1>21, <1>23, <2>4 DEF KindsInv
  <2>. QED  BY <1>15, <1>16, <1>17, <2>5 DEF SpeciesInv
<1>. QED  BY <1>22, <1>23

LEMMA VaspReadKeeps ==
  ASSUME StructureInv, SpeciesInv, NEW names \in FileContents, VaspGetXyz(names)
  PROVE  SpeciesInv'
<1>1. ReadXyz(names) /\ calc = "Vasp" /\ UNCHANGED <<rows, species, kinds, index>>
  BY DEF VaspGetXyz
<1>2. /\ elements' \in SUBSET Elements /\ Names(atoms') \subseteq elements'
      /\ atoms' \in Seq(Atom) /\ files' # 0 /\ calc' = calc /\ input' = input
      /\ files' = 1 => order = <<>> \/ files = 0
  BY <1>1, ReadNames DEF StructureInv, SpeciesInv
<1>3. PICK q \in Sortings(Appended(elements')) :
        order' = [i \in DOMAIN q |->
                     [name |-> q[i].name, key |-> Len(Only(atoms', Named(q[i].name)))]]
  BY DEF VaspGetXyz
<1>4. species \in Seq(Species) /\ rows \in Seq(Atom) /\ order \in Seq(Keyed) /\ kinds \in Nat
  BY DEF SpeciesInv, SpeciesTyped
<1>5. /\ q \in Seq(Keyed) /\ elements' \subseteq Names(q) /\ Names(q) \subseteq Elements
      /\ order = <<>> => NamedApart(q)
  BY <1>2, <1>4, SortedIs
<1>6. DOMAIN q = 1..Len(q) /\ Len(q) \in Nat /\ \A i \in DOMAIN q : q[i].name \in Elements
  BY <1>5 DEF Names
<1>7. \A m : Len(Only(atoms', Named(m))) \in Nat
  <2>1. \A T : Only(atoms', T) \in Seq(Atom)
    BY <1>2, OnlyTyped
  <2>2. \A s \in Seq(Atom) : Len(s) \in Nat
    OBVIOUS
  <2>. QED  BY <2>1, <2>2
<1>8. order' \in Seq(Keyed)
  <2>. DEFINE count(m) == Len(Only(atoms', Named(m)))
  <2>1. order' = [i \in 1..Len(q) |-> [name |-> q[i].name, key |-> count(q[i].name)]]
    BY <1>3, <1>6
  <2>2. \A i \in 1..Len(q) : count(q[i].name) \in Nat /\ q[i].name \in Elements
    BY <1>6, <1>7
  <2>. HIDE DEF count
  <2>. QED  BY <1>6, <2>1, <2>2 DEF Keyed
<1>9. DOMAIN order' = DOMAIN q /\ \A i \in DOMAIN q : order'[i].name = q[i].name
  BY <1>3
<1>10. Names(order') = Names(q) /\ (NamedApart(q) => NamedApart(order'))
  BY <1>9 DEF Names, NamedApart
<1>11. files = 0 => order = <<>>
  BY DEF SpeciesInv, GroupsInv
<1>12. SpeciesTyped'
  BY <1>1, <1>2, <1>4, <1>8 DEF SpeciesTyped
<1>13. SpeciesCover' /\ PseudoInv'
  BY <1>1, <1>2, <1>5, <1>10 DEF SpeciesCover, PseudoInv
<1>14. IndexInv'
  BY <1>1, <1>2 DEF SpeciesInv, IndexInv, Siestas
<1>15. GroupsInv'
  BY <1>1, <1>2, <1>5, <1>10, <1>11 DEF GroupsInv
<1>16. KindsInv'
  BY <1>1, <1>2 DEF SpeciesInv, KindsInv, IndexWithinSpecies, Siestas
<1>. QED  BY <1>12, <1>13, <1>14, <1>15, <1>16 DEF SpeciesInv

LEMMA RepeatedRows ==
  ASSUME NEW S, NEW s \in Seq(S)
  PROVE  FlattenSeq([i \in DOMAIN s |-> SubSeq(s, 1, i)]) \in Seq(S)
<1>. DEFINE ss == [i \in DOMAIN s |-> SubSeq(s, 1, i)]
<1>1. DOMAIN s = 1..Len(s) /\ Len(s) \in Nat
  OBVIOUS
<1>2. \A i \in 1..Len(s) : SubSeq(s, 1, i) \in Seq(S)
  OBVIOUS
<1>3. ss \in Seq(Seq(S))
  BY <1>1, <1>2
<1>4. <<>> \in Seq(S)
  OBVIOUS
<1>. HIDE DEF ss
<1>5. FlattenSeq(ss) \in Seq(S)
  BY <1>3, <1>4, FlattenAppend
<1>. QED  BY <1>5 DEF ss

LEMMA NextSpeciesInv ==
  StructureInv /\ SpeciesInv /\ [Next]_vars => SpeciesInv'
<1>. SUFFICES ASSUME StructureInv, SpeciesInv, [Next]_vars PROVE SpeciesInv'
  OBVIOUS
<1>1. ASSUME NEW names \in FileContents, ReadXyz(names)
      PROVE  atoms' \in Seq(Atom) /\ elements' \in SUBSET Elements
  BY <1>1, ReadNames DEF StructureInv, SpeciesInv
<1>2. /\ rows \in Seq(Atom) /\ species \in Seq(Species) /\ kinds \in Nat
      /\ calc \in WithoutSpecies => kinds = 0
  BY DEF SpeciesInv, SpeciesTyped, KindsInv, WithoutSpecies, Siestas
<1>3. CASE GetXyz
  <2>1. PICK names \in FileContents :
          \/ PwGetXyz(names) \/ OctopusGetXyz(names) \/ NWChemGetXyz(names)
          \/ SiestaGetXyz(names) \/ VaspGetXyz(names) \/ ElkGetXyz(names)
          \/ Cp2kGetXyz(names) \/ OrcaGetXyz(names) \/ QChemGetXyz(names)
          \/ GamessUSGetXyz(names)
    BY <1>3 DEF GetXyz
  <2>2. CASE PwGetXyz(names)
    BY <2>2, PwReadKeeps
  <2>3. CASE OctopusGetXyz(names)
    BY <2>3, OctopusReadKeeps
  <2>4. CASE NWChemGetXyz(names)
    <3>1. ReadXyz(names) /\ rows' = Overlay(rows, atoms') /\ atoms' \in Seq(Atom)
      BY <1>1, <2>4 DEF NWChemGetXyz
    <3>2. rows' \in Seq(Atom)
      BY <1>2, <3>1, OverlayBegins
    <3>. QED  BY <2>4, <3>2, RenewedSpeciesKeep DEF NWChemGetXyz
  <2>5. CASE SiestaGetXyz(names)
    BY <2>5, SiestaReadKeeps
  <2>6. CASE VaspGetXyz(names)
    BY <2>6, VaspReadKeeps
  <2>7. CASE ElkGetXyz(names)
    <3>1. ReadXyz(names) /\ species' = SpeciesOf(elements') /\ rows' = GroupedBy(species', atoms')
      BY <2>7 DEF ElkGetXyz
    <3>2. atoms' \in Seq(Atom) /\ species' \in Seq(Species)
      BY <1>1, <3>1, SpeciesOfIs
    <3>3. rows' \in Seq(Atom)
      BY <3>1, <3>2, GroupedTyped
    <3>. QED  BY <2>7, <3>3, RenewedSpeciesKeep DEF ElkGetXyz
  <2>8. CASE Cp2kGetXyz(names)
    BY <1>1, <2>8, RenewedSpeciesKeep DEF Cp2kGetXyz
  <2>9. CASE OrcaGetXyz(names)
    BY <1>1, <1>2, <2>9, SimpleReadKeeps DEF OrcaGetXyz, WithoutSpecies, Siestas
  <2>10. CASE QChemGetXyz(names)
    <3>1. rows' \in Seq(Atom)
      BY <1>1, <2>10, RepeatedRows DEF QChemGetXyz
    <3>. QED  BY <1>2, <2>10, <3>1, SimpleReadKeeps DEF QChemGetXyz, WithoutSpecies, Siestas
  <2>11. CASE GamessUSGetXyz(names)
    BY <1>2, <2>11, SimpleReadKeeps DEF GamessUSGetXyz, docVars, WithoutSpecies, Siestas
  <2>. QED  BY <2>1, <2>2, <2>3, <2>4, <2>5, <2>6, <2>7, <2>8, <2>9, <2>10, <2>11
<1>4. ASSUME UNCHANGED <<calc, files, atoms, elements, rows, species, kinds, order, index>>,
             files > 0 \/ UNCHANGED input
      PROVE  SpeciesInv'
  <2>1. files \in Nat
    BY DEF StructureInv, AtomsInv
  <2>2. SpeciesTyped' /\ SpeciesCover' /\ IndexInv' /\ PseudoInv'
    BY <1>4 DEF SpeciesInv, SpeciesTyped, SpeciesCover, IndexInv, PseudoInv
  <2>3. GroupsInv'
    BY <1>4, <2>1 DEF SpeciesInv, GroupsInv
  <2>4. KindsInv'
    BY <1>4 DEF SpeciesInv, KindsInv, IndexWithinSpecies
  <2>. QED  BY <2>2, <2>3, <2>4 DEF SpeciesInv
<1>5. CASE Run
  BY <1>4, <1>5 DEF Run, xyzVars, docVars
<1>6. CASE PwPhonopyRun
  BY <1>4, <1>6 DEF PwPhonopyRun
<1>7. CASE SiestaPhonopyRun
  BY <1>4, <1>7 DEF SiestaPhonopyRun
<1>8. CASE UNCHANGED vars
  BY <1>4, <1>8 DEF vars, xyzVars, docVars
<1>. QED  BY <1>3, <1>5, <1>6, <1>7, <1>8 DEF Next

-----------------------------------------------------------------------------
InputInv ==
    /\ input.of \in Seq(Atom) /\ input.atoms \in Seq(Atom) /\ input.count \in Nat
    /\ EveryElementHasSpecies
    /\ GroupedIsFile

(* What run() writes has the atoms and the species of the structure.       *)
LEMMA RenderKeepsInput ==
  ASSUME StructureInv, SpeciesInv, files > 0, Render, UNCHANGED <<calc, files>>
  PROVE  InputInv'
<1>1. input' = [of |-> atoms, atoms |-> Coordinates, count |-> Count,
                species |-> SpeciesPart, kinds |-> kinds]
  BY DEF Render
<1>2. /\ atoms \in Seq(Atom) /\ rows \in Seq(Atom) /\ number \in Nat
      /\ species \in Seq(Species) /\ order \in Seq(Keyed)
      /\ elements \subseteq Elements /\ Names(atoms) \subseteq elements
  BY DEF StructureInv, AtomsInv, SpeciesInv, SpeciesTyped
<1>3. Coordinates \in Seq(Atom)
  <2>1. calc = "Octopus" => SubSeq(rows, 1, number) \in Seq(Atom)
    <3>1. calc = "Octopus" => Begins(rows, atoms) /\ number = Len(atoms)
      BY DEF StructureInv, RowsInv, NumberInv, Overlaying, Counting, Phonopies
    <3>. QED  BY <1>2, <3>1 DEF Begins
  <2>2. GroupedBy(order, atoms) \in Seq(Atom)
    BY <1>2, GroupedTyped
  <2>. QED  BY <1>2, <2>1, <2>2 DEF Coordinates
<1>4. Count \in Nat
  BY <1>2, <1>3 DEF Count
<1>5. calc = "Vasp" => Names(SpeciesPart) = Names(order)
  <2>. DEFINE s == [i \in DOMAIN order |-> [name |-> order[i].name, pseudo |-> order[i].name]]
  <2>1. DOMAIN s = DOMAIN order /\ \A i \in DOMAIN order : s[i].name = order[i].name
    OBVIOUS
  <2>2. calc = "Vasp" => SpeciesPart = s
    BY DEF SpeciesPart
  <2>. HIDE DEF s
  <2>. QED  BY <2>1, <2>2 DEF Names
<1>6. calc # "Vasp" => SpeciesPart = species
  BY DEF SpeciesPart
<1>7. EveryElementHasSpecies'
  <2>. SUFFICES ASSUME calc \notin WithoutSpecies, calc \in Siestas => files = 1
                PROVE  Names(input'.of) \subseteq Names(SpeciesRead(input'))
    BY DEF EveryElementHasSpecies, SpeciesRead, WithoutSpecies
  <2>1. elements \subseteq Names(SpeciesPart)
    BY <1>5, <1>6 DEF SpeciesInv, SpeciesCover
  <2>2. kinds # 0 => SpeciesPart = species /\ elements \subseteq Names(SubSeq(species, 1, kinds))
    BY <1>6 DEF SpeciesInv, KindsInv, Siestas
  <2>. QED  BY <1>1, <1>2, <2>1, <2>2 DEF SpeciesRead
<1>8. ASSUME calc = "Elk" \/ (calc = "Vasp" /\ files = 1)
      PROVE  /\ Len(Coordinates) = Len(atoms)
             /\ \A e \in Elements : Only(Coordinates, Named(e)) = Only(atoms, Named(e))
  <2>1. CASE calc = "Elk"
    <3>1. NamedApart(species) /\ Coordinates = GroupedBy(species, atoms) /\ Names(atoms) \subseteq Names(species)
      BY <1>2, <2>1 DEF Coordinates, SpeciesInv, GroupsInv, SpeciesCover, WithoutSpecies
    <3>. QED  BY <1>2, <3>1, GroupedIsWhole
  <2>2. CASE calc = "Vasp" /\ files = 1
    <3>1. NamedApart(order) /\ Coordinates = GroupedBy(order, atoms) /\ Names(atoms) \subseteq Names(order)
      BY <1>2, <2>2 DEF Coordinates, SpeciesInv, GroupsInv, SpeciesCover, WithoutSpecies
    <3>. QED  BY <1>2, <3>1, GroupedIsWhole
  <2>. QED  BY <1>8, <2>1, <2>2
<1>9. GroupedIsFile'
  BY <1>1, <1>8 DEF GroupedIsFile
<1>. QED  BY <1>1, <1>2, <1>3, <1>4, <1>7, <1>9 DEF InputInv

LEMMA NoInputInv ==
  ASSUME input = NoInput
  PROVE  InputInv
<1>1. input.of = <<>> /\ input.atoms = <<>> /\ input.count = 0 /\ input.species = <<>>
  BY DEF NoInput
<1>2. <<>> \in Seq(Atom) /\ Len(<<>>) = 0 /\ Names(<<>>) = {}
  BY DEF Names
<1>3. EveryElementHasSpecies
  BY <1>1, <1>2 DEF EveryElementHasSpecies
<1>4. GroupedIsFile
  BY <1>1, <1>2, OnlyEmpty DEF GroupedIsFile
<1>. QED  BY <1>1, <1>2, <1>3, <1>4 DEF InputInv

LEMMA NextInputInv ==
  StructureInv /\ SpeciesInv /\ InputInv /\ [Next]_vars => InputInv'
<1>. SUFFICES ASSUME StructureInv, SpeciesInv, InputInv, [Next]_vars PROVE InputInv'
  OBVIOUS
<1>1. CASE GetXyz
  <2>1. PICK names \in FileContents : ReadXyz(names)
    BY <1>1 DEF GetXyz, PwGetXyz, OctopusGetXyz, NWChemGetXyz, SiestaGetXyz,
                VaspGetXyz, ElkGetXyz, Cp2kGetXyz, OrcaGetXyz, QChemGetXyz,
                GamessUSGetXyz
  <2>2. input' = input /\ calc' = calc /\ files' = files + 1 /\ files \in Nat
    BY <2>1 DEF ReadXyz, StructureInv, AtomsInv
  <2>3. CASE files = 0
    <3>1. input' = NoInput
      BY <2>2, <2>3 DEF SpeciesInv, GroupsInv
    <3>2. input'.of = <<>> /\ input'.atoms = <<>> /\ input'.count = 0 /\ input'.species = <<>>
      BY <3>1 DEF NoInput
    <3>3. <<>> \in Seq(Atom) /\ Len(<<>>) = 0 /\ Names(<<>>) = {}
      BY DEF Names
    <3>4. EveryElementHasSpecies' /\ GroupedIsFile'
      BY <3>2, <3>3, OnlyEmpty DEF EveryElementHasSpecies, SpeciesRead, GroupedIsFile
    <3>. QED  BY <3>2, <3>3, <3>4 DEF InputInv
  <2>4. CASE files # 0
    <3>1. files' # 1
      BY <2>2, <2>4
    <3>. QED  BY <2>2, <3>1 DEF InputInv, EveryElementHasSpecies, SpeciesRead, GroupedIsFile
  <2>. QED  BY <2>3, <2>4
<1>2. CASE Run
  BY <1>2, RenderKeepsInput DEF Run, xyzVars
<1>3. CASE PwPhonopyRun
  BY <1>3, RenderKeepsInput DEF PwPhonopyRun
<1>4. CASE SiestaPhonopyRun
  BY <1>4, RenderKeepsInput DEF SiestaPhonopyRun
<1>5. CASE UNCHANGED vars
  BY <1>5 DEF vars, xyzVars, InputInv, EveryElementHasSpecies, SpeciesRead, GroupedIsFile
<1>. QED  BY <1>1, <1>2, <1>3, <1>4, <1>5 DEF Next

LEMMA AlwaysInputInv ==
  Spec => [](StructureInv /\ SpeciesInv /\ InputInv)
<1>1. Init => InputInv
  BY NoInputInv DEF Init
<1>. QED  BY <1>1, InitStructureInv, NextStructureInv, InitSpeciesInv, NextSpeciesInv,
             NextInputInv, PTL DEF Spec

(* Every atom of an input has a species among those the input counts (for  *)
(* Siesta after one get_xyz), the number Siesta gives an element labels it *)
(* but exceeds NumberOfSpecies for some element after any later get_xyz,   *)
(* and pw.in names the pseudopotential of the element, for any files read  *)
(* one after the other (the get_xyz of the calculators and VaspPoscar).    *)
THEOREM SpeciesAlwaysServe ==
  Spec => []SpeciesServeAtoms
<1>1. SpeciesInv /\ InputInv => SpeciesServeAtoms
  BY DEF SpeciesInv, InputInv, IndexInv, PseudoInv, KindsInv, HasOwnPseudo, SpeciesServeAtoms,
         LabelNamesElement, PseudoOfElement
<1>. QED  BY <1>1, AlwaysInputInv, PTL

(* ELK, and the first POSCAR of an object, have all atoms of the file once *)
(* and those of an element in their order, however many there are.         *)
THEOREM GroupsAreFiles ==
  Spec => []GroupedIsFile
<1>1. InputInv => GroupedIsFile
  BY DEF InputInv
<1>. QED  BY <1>1, AlwaysInputInv, PTL

BoundsInv == calc \in Calculators /\ files \in 0..MaxReads

LEMMA AlwaysBounds ==
  Spec => []BoundsInv
<1>1. Init => BoundsInv
  BY StructureAssumption DEF Init, BoundsInv, StructureAssumption
<1>2. BoundsInv /\ [Next]_vars => BoundsInv'
  <2>. SUFFICES ASSUME BoundsInv, [Next]_vars PROVE BoundsInv'
    OBVIOUS
  <2>. USE DEF BoundsInv
  <2>1. CASE GetXyz
    <3>1. PICK names \in FileContents : ReadXyz(names)
      BY <2>1 DEF GetXyz, PwGetXyz, OctopusGetXyz, NWChemGetXyz, SiestaGetXyz,
                  VaspGetXyz, ElkGetXyz, Cp2kGetXyz, OrcaGetXyz, QChemGetXyz,
                  GamessUSGetXyz
    <3>. QED  BY <3>1, StructureAssumption DEF ReadXyz, StructureAssumption
  <2>2. CASE Run
    BY <2>2 DEF Run, xyzVars
  <2>3. CASE PwPhonopyRun
    BY <2>3 DEF PwPhonopyRun
  <2>4. CASE SiestaPhonopyRun
    BY <2>4 DEF SiestaPhonopyRun
  <2>5. CASE UNCHANGED vars
    BY <2>5 DEF vars, xyzVars
  <2>. QED  BY <2>1, <2>2, <2>3, <2>4, <2>5 DEF Next
<1>. QED  BY <1>1, <1>2, PTL DEF Spec

(* The variables keep their types. *)
THEOREM TypeCorrect ==
  Spec => []TypeOK
<1>1. StructureInv /\ SpeciesInv /\ InputInv /\ BoundsInv => TypeOK
  <2>. SUFFICES ASSUME StructureInv, SpeciesInv, InputInv, BoundsInv PROVE TypeOK
    OBVIOUS
  <2>1. DOMAIN index = Names(order) \/ calc = "Vasp"
    <3>1. CASE calc \in Siestas
      BY <3>1 DEF SpeciesInv, IndexInv
    <3>2. CASE calc \notin Siestas /\ calc # "Vasp"
      <4>1. order = <<>> /\ index = <<>>
        BY <3>2 DEF SpeciesInv, SpeciesTyped, IndexInv
      <4>2. Names(<<>>) = {} /\ DOMAIN <<>> = {}
        BY DEF Names
      <4>. QED  BY <4>1, <4>2
    <3>. QED  BY <3>1, <3>2
  <2>2. \A e \in DOMAIN index : index[e] \in DOMAIN species
    BY DEF SpeciesInv, IndexInv
  <2>. QED  BY <2>1, <2>2 DEF TypeOK, StructureInv, AtomsInv, SpeciesInv, SpeciesTyped, Species,
                              Keyed, InputInv, BoundsInv
<1>. QED  BY <1>1, AlwaysInputInv, AlwaysBounds, PTL
=============================================================================
