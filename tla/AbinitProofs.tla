--------------------------- MODULE AbinitProofs ---------------------------
(***************************************************************************)
(* Proofs about AbinitDatasets: whatever calls are made on an ABINIT       *)
(* calculator, in whatever order and however many, its datasets stay       *)
(* numbered, its tolerances exclusive, its structure in dataset 0 and the  *)
(* types of one structure file numbered from 1.  And about AbinitCli: a    *)
(* command only makes such calls, and what it sets is in the input.        *)
(***************************************************************************)
EXTENDS AbinitCli, RecursionLemmas, FiniteSetTheorems, TLAPS

(* The operators on one AbinitInput return one, with its number kept. *)
LEMMA NewInputType ==
    ASSUME NEW n \in Nat
    PROVE  NewInput(n) \in Input /\ NewInput(n).n = n
BY SMT DEF NewInput, Input, Param, Absent, Given

LEMMA SetParams ==
    ASSUME NEW input \in Input, NEW params \in [Keys -> Param]
    PROVE  /\ [input EXCEPT !.params = params] \in Input
           /\ [input EXCEPT !.params = params].n = input.n
           /\ [input EXCEPT !.params = params].params = params
BY DEF Input

LEMMA SetSystem ==
    ASSUME NEW input \in Input
    PROVE  /\ [input EXCEPT !.system = FALSE] \in Input
           /\ [input EXCEPT !.system = FALSE].n = input.n
           /\ [input EXCEPT !.system = FALSE].params = input.params
           /\ [input EXCEPT !.system = FALSE].system = FALSE
BY DEF Input

LEMMA WithParamType ==
    ASSUME NEW input \in Input, NEW k \in Keys
    PROVE  WithParam(input, k) \in Input /\ WithParam(input, k).n = input.n
<1> DEFINE params == [input.params EXCEPT ![k] = Given("set_param")]
<1>1. params \in [Keys -> Param]
  BY DEF Input, Param, Given
<1>2. WithParam(input, k) = [input EXCEPT !.params = params]
  BY DEF WithParam, Input
<1> HIDE DEF params
<1> QED
  BY <1>1, <1>2, SetParams

LEMMA WithTolType ==
    ASSUME NEW input \in Input, NEW t \in Tols
    PROVE  WithTol(input, t) \in Input /\ WithTol(input, t).n = input.n
<1>1. ASSUME NEW k \in Keys
      PROVE  (CASE k = t -> Given("use_tol")
                [] k \in Tols \ {t} -> [input.params[k] EXCEPT !.status = FALSE]
                [] OTHER -> input.params[k]) \in Param
  <2>1. input.params[k] \in Param
    BY DEF Input
  <2>2. [input.params[k] EXCEPT !.status = FALSE] \in Param
    BY <2>1 DEF Param
  <2> QED
    BY <2>1, <2>2 DEF Param, Given
<1> DEFINE params == [k \in Keys |-> CASE k = t -> Given("use_tol")
                                     [] k \in Tols \ {t} -> [input.params[k] EXCEPT !.status = FALSE]
                                     [] OTHER -> input.params[k]]
<1>2. params \in [Keys -> Param]
  BY <1>1
<1>3. WithTol(input, t) = [input EXCEPT !.params = params]
  BY DEF WithTol, Input
<1> HIDE DEF params
<1> QED
  BY <1>2, <1>3, SetParams

(* Switching the systems of datasets 1..ndtset off keeps the rest. *)
LEMMA WithoutSystemType ==
    ASSUME TypeOK, DatasetsInEffectExist
    PROVE  /\ WithoutSystem(datasets) \in [0..(size - 1) -> Input]
           /\ \A i \in 0..(size - 1) :
                 /\ WithoutSystem(datasets)[i].n = i
                 /\ WithoutSystem(datasets)[i].params = datasets[i].params
           /\ \A i \in 1..ndtset : WithoutSystem(datasets)[i].system = FALSE
<1>1. ASSUME NEW i \in 0..(size - 1)
      PROVE  /\ datasets[i] \in Input
             /\ [datasets[i] EXCEPT !.system = FALSE] \in Input
             /\ [datasets[i] EXCEPT !.system = FALSE].n = datasets[i].n
             /\ [datasets[i] EXCEPT !.system = FALSE].params = datasets[i].params
             /\ [datasets[i] EXCEPT !.system = FALSE].system = FALSE
  BY SetSystem DEF TypeOK
<1>2. DOMAIN datasets = 0..(size - 1)
  BY DEF TypeOK
<1>3. 1..ndtset \subseteq 0..(size - 1)
  BY DEF TypeOK, DatasetsInEffectExist
<1> QED
  BY <1>1, <1>2, <1>3 DEF WithoutSystem, DatasetsInEffectExist

(* What WithTol and WithParam leave of the tolerances given by use_tol. *)
UsedTol(input, t) == input.params[t] = Given("use_tol")

ExclusiveTols(input) ==
    \A t, u \in Tols : UsedTol(input, t) /\ UsedTol(input, u) => t = u

LEMMA NewInputExclusive ==
    ASSUME AbinitAssumption, NEW n \in Nat
    PROVE  ExclusiveTols(NewInput(n))
BY SMT DEF ExclusiveTols, UsedTol, NewInput, Absent, Given, Keys

LEMMA WithParamExclusive ==
    ASSUME NEW input \in Input, NEW k \in Keys, ExclusiveTols(input)
    PROVE  ExclusiveTols(WithParam(input, k))
<1>1. \A t \in Tols : WithParam(input, k).params[t] =
                          IF t = k THEN Given("set_param") ELSE input.params[t]
  BY DEF WithParam, Input, Keys
<1>2. Given("set_param") # Given("use_tol")
  BY DEF Given
<1> QED
  BY <1>1, <1>2 DEF ExclusiveTols, UsedTol

LEMMA WithTolExclusive ==
    ASSUME NEW input \in Input, NEW t \in Tols
    PROVE  ExclusiveTols(WithTol(input, t))
<1>1. ASSUME NEW u \in Tols, u # t
      PROVE  WithTol(input, t).params[u].status = FALSE
  <2>1. input.params[u] \in Param
    BY DEF Input, Keys
  <2>2. WithTol(input, t).params[u] = [input.params[u] EXCEPT !.status = FALSE]
    BY <1>1 DEF WithTol, Input, Keys
  <2> QED
    BY <2>1, <2>2 DEF Param
<1>2. Given("use_tol").status = TRUE
  BY DEF Given
<1> QED
  BY <1>1, <1>2 DEF ExclusiveTols, UsedTol

-----------------------------------------------------------------------------
(* The part of the invariant that is about the datasets. *)
DatasetsInv ==
    /\ ndtset \in Nat
    /\ size \in Nat \ {0, 1}
    /\ datasets \in [0..(size - 1) -> Input]
    /\ DatasetsInEffectExist
    /\ \A i \in 0..(size - 1) : ExclusiveTols(datasets[i])

(* The part that is about the structure and its rendering. *)
DocumentInv ==
    /\ class \in {"Abinit", "Phonopy"}
    /\ pseudo_ext \in Pots
    /\ pseudos \in Pots \cup {"none"}
    /\ coordtype \in {"cartesian", "reduced"}
    /\ DOMAIN elem_typat = species
    /\ elements \subseteq species
    /\ files \subseteq species
    /\ abi \in DocumentType
    /\ runs \in Nat
    /\ calls \in Nat
    /\ exited \in BOOLEAN
    /\ SystemOfDatasetZero

(* The inductive invariant: OneUsedTolerance must hold of the datasets     *)
(* that are out of effect too, since set_ndtset brings them back, and the  *)
(* rendering can only switch the systems off of datasets that exist.       *)
AbinitInv == DatasetsInv /\ DocumentInv

LEMMA AbinitInvImplies ==
    AbinitInv => /\ TypeOK
                 /\ DatasetsInEffectExist
                 /\ OneUsedTolerance
                 /\ SystemOfDatasetZero
BY DEF AbinitInv, DatasetsInv, DocumentInv, TypeOK, OneUsedTolerance, ExclusiveTols, UsedTol

(* One dataset replaced by another with the same number. *)
LEMMA OneDatasetReplaced ==
    ASSUME DatasetsInv, NEW i \in 0..(size - 1), NEW input \in Input,
           input.n = i, ExclusiveTols(input),
           datasets' = [datasets EXCEPT ![i] = input],
           UNCHANGED <<ndtset, size>>
    PROVE  DatasetsInv'
<1>1. datasets' \in [0..(size - 1) -> Input]
  BY DEF DatasetsInv
<1>2. ASSUME NEW j \in 0..(size - 1)
      PROVE  datasets'[j].n = j /\ ExclusiveTols(datasets'[j])
  <2>1. datasets'[j] = IF j = i THEN input ELSE datasets[j]
    BY DEF DatasetsInv
  <2> QED
    BY <2>1 DEF DatasetsInv, DatasetsInEffectExist
<1> QED
  BY <1>1, <1>2 DEF DatasetsInv, DatasetsInEffectExist

(* Calls that change no more than one dataset leave the rest alone. *)
LEMMA DocumentKept ==
    ASSUME DocumentInv, calls \in Nat => calls' \in Nat, exited' \in BOOLEAN,
           pseudo_ext' \in Pots,
           UNCHANGED <<class, coordtype, structure, abi, runs>>
    PROVE  DocumentInv'
BY DEF DocumentInv, structure, SystemOfDatasetZero

LEMMA ExitKeeps ==
    ASSUME AbinitInv, Call, Exit
    PROVE  AbinitInv'
<1>1. DatasetsInv'
  BY DEF AbinitInv, DatasetsInv, DatasetsInEffectExist, Exit
<1>2. DocumentInv'
  BY DocumentKept DEF AbinitInv, Call, Exit, DocumentInv
<1> QED
  BY <1>1, <1>2 DEF AbinitInv

LEMMA SetParamKeeps ==
    ASSUME AbinitInv, NEW k \in Keys, NEW i \in 0..(MaxNdtset + 1), SetParam(k, i)
    PROVE  AbinitInv'
<1>1. CASE i > ndtset
  BY <1>1, ExitKeeps DEF SetParam
<1>2. CASE ~(i > ndtset)
  <2>1. i \in 0..(size - 1)
    BY <1>2, AbinitAssumption DEF AbinitInv, DatasetsInv, DatasetsInEffectExist
  <2>2. datasets[i] \in Input /\ datasets[i].n = i /\ ExclusiveTols(datasets[i])
    BY <2>1 DEF AbinitInv, DatasetsInv, DatasetsInEffectExist
  <2>3. /\ WithParam(datasets[i], k) \in Input
        /\ WithParam(datasets[i], k).n = i
        /\ ExclusiveTols(WithParam(datasets[i], k))
    BY <2>2, WithParamType, WithParamExclusive
  <2>4. datasets' = [datasets EXCEPT ![i] = WithParam(datasets[i], k)]
    BY <1>2, <2>1 DEF SetParam, AbinitInv, DatasetsInv
  <2>5. DatasetsInv'
    BY <1>2, <2>1, <2>3, <2>4, OneDatasetReplaced DEF SetParam, AbinitInv
  <2>6. DocumentInv'
    BY <1>2, DocumentKept DEF SetParam, Call, AbinitInv, DocumentInv
  <2> QED
    BY <2>5, <2>6 DEF AbinitInv
<1> QED
  BY <1>1, <1>2

LEMMA SetKpointsKeeps ==
    ASSUME AbinitInv, NEW k \in KpointKeys, NEW i \in 0..(MaxNdtset + 1), SetKpoints(k, i)
    PROVE  AbinitInv'
<1>1. CASE i > ndtset
  BY <1>1, ExitKeeps DEF SetKpoints
<1>2. CASE ~(i > ndtset)
  <2> DEFINE input == [datasets[i] EXCEPT !.kpoints[k] = TRUE]
  <2>1. i \in 0..(size - 1)
    BY <1>2, AbinitAssumption DEF AbinitInv, DatasetsInv, DatasetsInEffectExist
  <2>2. datasets[i] \in Input /\ datasets[i].n = i /\ ExclusiveTols(datasets[i])
    BY <2>1 DEF AbinitInv, DatasetsInv, DatasetsInEffectExist
  <2>3. [datasets[i].kpoints EXCEPT ![k] = TRUE] \in [KpointKeys -> BOOLEAN]
    BY <2>2 DEF Input
  <2>4. input \in Input /\ input.n = i /\ input.params = datasets[i].params
    BY <2>2, <2>3 DEF Input
  <2>5. ExclusiveTols(input)
    BY <2>2, <2>4 DEF ExclusiveTols, UsedTol
  <2>6. datasets' = [datasets EXCEPT ![i] = input]
    BY <1>2, <2>1 DEF SetKpoints, AbinitInv, DatasetsInv
  <2> HIDE DEF input
  <2>7. DatasetsInv'
    BY <1>2, <2>1, <2>4, <2>5, <2>6, OneDatasetReplaced DEF SetKpoints, AbinitInv
  <2>8. DocumentInv'
    BY <1>2, DocumentKept DEF SetKpoints, Call, AbinitInv, DocumentInv
  <2> QED
    BY <2>7, <2>8 DEF AbinitInv
<1> QED
  BY <1>1, <1>2

LEMMA UseTolKeeps ==
    ASSUME AbinitInv, NEW t \in Tols, NEW i \in 0..MaxNdtset, UseTol(t, i)
    PROVE  AbinitInv'
<1>1. i \in 0..(size - 1)
  BY AbinitAssumption DEF UseTol, AbinitInv, DatasetsInv
<1>2. datasets[i] \in Input /\ datasets[i].n = i
  BY <1>1 DEF AbinitInv, DatasetsInv, DatasetsInEffectExist
<1>3. /\ WithTol(datasets[i], t) \in Input
      /\ WithTol(datasets[i], t).n = i
      /\ ExclusiveTols(WithTol(datasets[i], t))
  BY <1>2, WithTolType, WithTolExclusive
<1>4. datasets' = [datasets EXCEPT ![i] = WithTol(datasets[i], t)]
  BY <1>1 DEF UseTol, AbinitInv, DatasetsInv
<1>5. DatasetsInv'
  BY <1>1, <1>3, <1>4, OneDatasetReplaced DEF UseTol, AbinitInv
<1>6. DocumentInv'
  BY DocumentKept DEF UseTol, Call, AbinitInv, DocumentInv
<1> QED
  BY <1>5, <1>6 DEF AbinitInv

LEMMA SetNdtsetKeeps ==
    ASSUME AbinitInv, NEW m \in 0..MaxNdtset, SetNdtset(m)
    PROVE  AbinitInv'
<1>1. m \in Nat /\ size \in Nat \ {0, 1}
  BY AbinitAssumption DEF AbinitInv, DatasetsInv
<1>2. size' \in Nat \ {0, 1} /\ size' >= size /\ m < size' /\ ndtset' = m
  BY <1>1 DEF SetNdtset
<1>3. ASSUME NEW i \in 0..(size' - 1)
      PROVE  /\ datasets'[i] \in Input
             /\ datasets'[i].n = i
             /\ ExclusiveTols(datasets'[i])
  <2>1. datasets'[i] = IF i < size THEN datasets[i] ELSE NewInput(i)
    BY <1>3 DEF SetNdtset
  <2>2. CASE i < size
    BY <1>1, <2>1, <2>2 DEF AbinitInv, DatasetsInv, DatasetsInEffectExist
  <2>3. CASE ~(i < size)
    BY <1>2, <2>1, <2>3, NewInputType, NewInputExclusive, AbinitAssumption
  <2> QED
    BY <2>2, <2>3
<1>4. datasets' \in [0..(size' - 1) -> Input]
  BY <1>3 DEF SetNdtset
<1>5. DatasetsInv'
  BY <1>1, <1>2, <1>3, <1>4 DEF DatasetsInv, DatasetsInEffectExist
<1>6. DocumentInv'
  BY DocumentKept DEF SetNdtset, Call, AbinitInv, DocumentInv
<1> QED
  BY <1>5, <1>6 DEF AbinitInv

LEMMA SetPotKeeps ==
    ASSUME AbinitInv, NEW pot \in Pots, SetPot(pot)
    PROVE  AbinitInv'
<1>1. DatasetsInv'
  BY DEF SetPot, AbinitInv, DatasetsInv, DatasetsInEffectExist
<1>2. DocumentInv'
  BY DocumentKept DEF SetPot, Call, AbinitInv, DocumentInv
<1> QED
  BY <1>1, <1>2 DEF AbinitInv

LEMMA GetXyzKeeps ==
    ASSUME AbinitInv, NEW file \in Structures, GetXyz(file)
    PROVE  AbinitInv'
<1> DEFINE here == {file[j] : j \in DOMAIN file}
<1>1. DatasetsInv'
  BY DEF GetXyz, AbinitInv, DatasetsInv, DatasetsInEffectExist
<1>2. DOMAIN elem_typat' = species'
  <2>1. file \in Seq(Element)
    BY AbinitAssumption
  <2>2. NewUpTo(file, Len(file)) = here \ DOMAIN elem_typat
    BY <2>1 DEF NewUpTo
  <2>3. DOMAIN elem_typat' = DOMAIN elem_typat \cup (here \ DOMAIN elem_typat)
    BY <2>2 DEF GetXyz, Typat
  <2> QED
    BY <2>3 DEF GetXyz, AbinitInv, DocumentInv
<1>3. elements' \subseteq species' /\ files' \subseteq species'
  BY DEF GetXyz, AbinitInv, DocumentInv
<1>4. DocumentInv'
  BY <1>2, <1>3 DEF GetXyz, Call, AbinitInv, DocumentInv, SystemOfDatasetZero
<1> QED
  BY <1>1, <1>4 DEF AbinitInv

(* A rendering of datasets in effect whose systems 1..ndtset are off is a  *)
(* document with the structure of dataset 0 at most.                       *)
LEMMA DocumentOfSystemZero ==
    ASSUME ndtset \in Nat, size \in Nat, ndtset < size,
           NEW inputs \in [0..(size - 1) -> Input],
           \A i \in 0..(size - 1) : inputs[i].n = i,
           \A i \in 1..ndtset : inputs[i].system = FALSE
    PROVE  /\ Document(inputs).lines \in SUBSET [n: Nat, key: Keys]
           /\ Document(inputs).systems \in SUBSET Nat
           /\ Document(inputs).systems \subseteq {0}
<1>1. ASSUME NEW i \in 0..ndtset
      PROVE  Lines(inputs[i]) \in SUBSET [n: Nat, key: Keys]
  <2>1. inputs[i].n \in Nat
    OBVIOUS
  <2> QED
    BY <2>1 DEF Lines
<1>2. UNION {Lines(inputs[i]) : i \in 0..ndtset} \in SUBSET [n: Nat, key: Keys]
  BY <1>1
<1>3. {i \in 0..ndtset : inputs[i].system} \subseteq {0}
  <2>1. \A i \in 0..ndtset : i = 0 \/ i \in 1..ndtset
    OBVIOUS
  <2> QED
    BY <2>1
<1> QED
  BY <1>2, <1>3 DEF Document

LEMMA RunKeeps ==
    ASSUME AbinitInv, Run
    PROVE  AbinitInv'
<1> DEFINE inputs == WithoutSystem(datasets)
<1>1. /\ inputs \in [0..(size - 1) -> Input]
      /\ \A i \in 0..(size - 1) : inputs[i].n = i /\ inputs[i].params = datasets[i].params
      /\ \A i \in 1..ndtset : inputs[i].system = FALSE
  BY AbinitInvImplies, WithoutSystemType
<1>2. datasets' = inputs
  BY DEF Run
<1>3. ndtset \in Nat /\ size \in Nat \ {0, 1} /\ ndtset < size
  BY DEF AbinitInv, DatasetsInv, DatasetsInEffectExist
<1> HIDE DEF inputs
<1>4. DatasetsInv'
  <2>1. \A i \in 0..(size - 1) : ExclusiveTols(inputs[i])
    BY <1>1 DEF AbinitInv, DatasetsInv, ExclusiveTols, UsedTol
  <2> QED
    BY <1>1, <1>2, <1>3, <2>1 DEF Run, DatasetsInv, DatasetsInEffectExist
<1>5. /\ Document(inputs).lines \in SUBSET [n: Nat, key: Keys]
      /\ Document(inputs).systems \in SUBSET Nat
      /\ Document(inputs).systems \subseteq {0}
  BY <1>1, <1>3, DocumentOfSystemZero
<1>6. abi' = [lines |-> Document(inputs).lines, systems |-> Document(inputs).systems,
              coordtype |-> coordtype, named |-> pseudos, copied |-> pseudo_ext, ran |-> TRUE]
  BY DEF Run, inputs
<1>7. abi' \in DocumentType /\ SystemOfDatasetZero'
  BY <1>5, <1>6 DEF DocumentType, SystemOfDatasetZero, AbinitInv, DocumentInv
<1>8. DocumentInv'
  BY <1>7 DEF Run, Call, structure, AbinitInv, DocumentInv
<1> QED
  BY <1>4, <1>8 DEF AbinitInv

(* The switches of part 1 keep the datasets. *)
LEMMA PartOneKeeps ==
    ASSUME NEW inputs \in [0..(size - 1) -> Input]
    PROVE  /\ PartOne(inputs) \in [0..(size - 1) -> Input]
           /\ \A i \in 0..(size - 1) : /\ PartOne(inputs)[i].n = inputs[i].n
                           /\ PartOne(inputs)[i].params = inputs[i].params
<1>1. ASSUME NEW i \in 0..(size - 1)
      PROVE  /\ PartOne(inputs)[i] \in Input
             /\ PartOne(inputs)[i].n = inputs[i].n
             /\ PartOne(inputs)[i].params = inputs[i].params
  <2> DEFINE one == [inputs[i] EXCEPT !.ions = FALSE]
             zero == [inputs[i] EXCEPT !.system = FALSE, !.ions = FALSE]
  <2>1. zero \in Input /\ zero.n = inputs[i].n /\ zero.params = inputs[i].params
    BY DEF Input
  <2>2. one \in Input /\ one.n = inputs[i].n /\ one.params = inputs[i].params
    BY DEF Input
  <2>3. PartOne(inputs)[i] \in {zero, one, inputs[i]}
    BY DEF PartOne
  <2> QED
    BY <2>1, <2>2, <2>3
<1>2. PartOne(inputs) = [i \in 0..(size - 1) |-> PartOne(inputs)[i]]
  BY DEF PartOne
<1> QED
  BY <1>1, <1>2

LEMMA RunPhonopyKeeps ==
    ASSUME AbinitInv, RunPhonopy
    PROVE  AbinitInv'
<1> DEFINE inputs == WithoutSystem(datasets)
           off == PartOne(inputs)
<1>1. /\ inputs \in [0..(size - 1) -> Input]
      /\ \A i \in 0..(size - 1) : inputs[i].n = i /\ inputs[i].params = datasets[i].params
      /\ \A i \in 1..ndtset : inputs[i].system = FALSE
  BY AbinitInvImplies, WithoutSystemType
<1>2. datasets' = off
  BY DEF RunPhonopy
<1>3. ndtset \in Nat /\ size \in Nat \ {0, 1} /\ ndtset < size
  BY DEF AbinitInv, DatasetsInv, DatasetsInEffectExist
<1>4. abi' = [lines |-> Document(inputs).lines, systems |-> Document(inputs).systems,
              coordtype |-> "reduced", named |-> pseudos, copied |-> pseudo_ext, ran |-> TRUE]
  BY DEF RunPhonopy
<1> HIDE DEF inputs
<1>5. /\ off \in [0..(size - 1) -> Input]
      /\ \A i \in 0..(size - 1) : off[i].n = inputs[i].n /\ off[i].params = inputs[i].params
  BY <1>1, PartOneKeeps
<1> HIDE DEF off
<1>6. DatasetsInv'
  <2>1. \A i \in 0..(size - 1) : off[i].n = i /\ ExclusiveTols(off[i])
    BY <1>1, <1>5 DEF AbinitInv, DatasetsInv, ExclusiveTols, UsedTol
  <2> QED
    BY <1>2, <1>3, <1>5, <2>1 DEF RunPhonopy, DatasetsInv, DatasetsInEffectExist
<1>7. /\ Document(inputs).lines \in SUBSET [n: Nat, key: Keys]
      /\ Document(inputs).systems \in SUBSET Nat
      /\ Document(inputs).systems \subseteq {0}
  BY <1>1, <1>3, DocumentOfSystemZero
<1>8. abi' \in DocumentType /\ SystemOfDatasetZero'
  BY <1>4, <1>7 DEF DocumentType, SystemOfDatasetZero, AbinitInv, DocumentInv
<1>9. DocumentInv'
  BY <1>8 DEF RunPhonopy, Call, structure, AbinitInv, DocumentInv
<1> QED
  BY <1>6, <1>9 DEF AbinitInv

-----------------------------------------------------------------------------
LEMMA InitEstablishes == Init => AbinitInv
<1> SUFFICES ASSUME Init PROVE AbinitInv
  OBVIOUS
<1> DEFINE first == WithTol(NewInput(0), DefaultTol)
           params == [k \in Keys |-> IF k \in Basic THEN Given("set_param") ELSE first.params[k]]
<1>1. first \in Input /\ first.n = 0 /\ ExclusiveTols(first)
  BY NewInputType, WithTolType, WithTolExclusive, AbinitAssumption
<1>2. NewInput(1) \in Input /\ NewInput(1).n = 1 /\ ExclusiveTols(NewInput(1))
  BY NewInputType, NewInputExclusive, AbinitAssumption
<1> HIDE DEF first
<1>3. params \in [Keys -> Param]
  BY <1>1 DEF Input, Param, Given
<1>4. [first EXCEPT !.params = params] = [first EXCEPT !.params =
          [k \in Keys |-> IF k \in Basic THEN Given("set_param") ELSE @[k]]]
  BY <1>1 DEF Input
<1>5. /\ [first EXCEPT !.params = params] \in Input
      /\ [first EXCEPT !.params = params].n = 0
      /\ [first EXCEPT !.params = params].params = params
  <2> HIDE DEF params
  <2> QED
    BY <1>1, <1>3, SetParams
<1>6. ExclusiveTols([first EXCEPT !.params = params])
  <2>1. \A t \in Tols : params[t] = first.params[t]
    BY AbinitAssumption DEF Keys
  <2> QED
    BY <1>1, <1>5, <2>1 DEF ExclusiveTols, UsedTol
<1>7. datasets = [i \in 0..1 |-> IF i = 0 THEN [first EXCEPT !.params = params] ELSE NewInput(i)]
  BY <1>4 DEF Init, first
<1>8. ndtset = 1 /\ size = 2
  BY DEF Init
<1> HIDE DEF params
<1>9. ASSUME NEW i \in 0..1
      PROVE  datasets[i] \in Input /\ datasets[i].n = i /\ ExclusiveTols(datasets[i])
  <2>1. CASE i = 0
    BY <1>5, <1>6, <1>7, <2>1
  <2>2. CASE i = 1
    BY <1>2, <1>7, <2>2
  <2> QED
    BY <2>1, <2>2
<1>10. DatasetsInv
  BY <1>7, <1>8, <1>9 DEF DatasetsInv, DatasetsInEffectExist
<1>11. abi \in DocumentType /\ SystemOfDatasetZero
  BY DEF Init, NoDocument, DocumentType, SystemOfDatasetZero
<1>12. DocumentInv
  <2>1. class \in {"Abinit", "Phonopy"} /\ coordtype = "cartesian" /\ exited = FALSE
    BY DEF Init
  <2>2. pseudo_ext \in Pots /\ pseudos = "none"
    BY AbinitAssumption DEF Init
  <2>3. elem_typat = <<>> /\ elements = {} /\ species = {} /\ files = {} /\ runs = 0 /\ calls = 0
    BY DEF Init
  <2>4. DOMAIN elem_typat = species /\ elements \subseteq species /\ files \subseteq species
    BY <2>3
  <2> QED  BY <1>11, <2>1, <2>2, <2>3, <2>4 DEF DocumentInv
<1> QED
  BY <1>10, <1>12 DEF AbinitInv

LEMMA NextKeeps == AbinitInv /\ [Next]_vars => AbinitInv'
<1> SUFFICES ASSUME AbinitInv, [Next]_vars PROVE AbinitInv'
  OBVIOUS
<1>1. CASE \E k \in Keys, i \in 0..(MaxNdtset + 1) : SetParam(k, i)
  BY <1>1, SetParamKeeps
<1>2. CASE \E k \in KpointKeys, i \in 0..(MaxNdtset + 1) : SetKpoints(k, i)
  BY <1>2, SetKpointsKeeps
<1>3. CASE \E t \in Tols, i \in 0..MaxNdtset : UseTol(t, i)
  BY <1>3, UseTolKeeps
<1>4. CASE \E m \in 0..MaxNdtset : SetNdtset(m)
  BY <1>4, SetNdtsetKeeps
<1>5. CASE \E pot \in Pots : SetPot(pot)
  BY <1>5, SetPotKeeps
<1>6. CASE \E file \in Structures : GetXyz(file)
  BY <1>6, GetXyzKeeps
<1>7. CASE Run
  BY <1>7, RunKeeps
<1>8. CASE RunPhonopy
  BY <1>8, RunPhonopyKeeps
<1>9. CASE UNCHANGED vars
  BY <1>9 DEF vars, structure, AbinitInv, DatasetsInv, DatasetsInEffectExist, DocumentInv,
              SystemOfDatasetZero
<1> QED
  BY <1>1, <1>2, <1>3, <1>4, <1>5, <1>6, <1>7, <1>8, <1>9 DEF Next

(* The invariant holds in every reachable state. *)
THEOREM Invariance == Spec => []AbinitInv
<1> QED
  BY InitEstablishes, NextKeeps, PTL DEF Spec

(* The variables of an ABINIT calculator keep their types. *)
THEOREM TypeCorrect == Spec => []TypeOK
<1>1. AbinitInv => TypeOK
  BY AbinitInvImplies
<1> QED
  BY <1>1, Invariance, PTL

(* set_ndtset never leaves a dataset in effect that does not exist, or one *)
(* with another dataset's number: set_param, use_tol and to_string index   *)
(* datasets without looking at its size.                                   *)
THEOREM DatasetsExist == Spec => []DatasetsInEffectExist
<1>1. AbinitInv => DatasetsInEffectExist
  BY AbinitInvImplies
<1> QED
  BY <1>1, Invariance, PTL

(* No order of use_tol, set_param and set_ndtset leaves two tolerances of  *)
(* use_tol switched on in one dataset.                                     *)
THEOREM TolerancesExclude == Spec => []OneUsedTolerance
<1>1. AbinitInv => OneUsedTolerance
  BY AbinitInvImplies
<1> QED
  BY <1>1, Invariance, PTL

(* No abinit.abi has a structure of a dataset other than 0. *)
THEOREM StructureOfDatasetZero == Spec => []SystemOfDatasetZero
<1>1. AbinitInv => SystemOfDatasetZero
  BY AbinitInvImplies
<1> QED
  BY <1>1, Invariance, PTL

-----------------------------------------------------------------------------
(* The first atom of an element of a file.                                 *)
LEMMA FirstAtomIs ==
    ASSUME NEW file \in Seq(Element), NEW e \in {file[j] : j \in DOMAIN file}
    PROVE  /\ FirstAtom(file, e) \in 1..Len(file)
           /\ file[FirstAtom(file, e)] = e
           /\ \A k \in 1..(FirstAtom(file, e) - 1) : file[k] # e
<1> DEFINE n == Len(file)
           T == {j \in 1..n : file[j] = e}
<1>1. n \in Nat /\ DOMAIN file = 1..n
  OBVIOUS
<1>2. T \in SUBSET (1..n) /\ T # {}
  BY <1>1
<1>3. PICK j \in 1..n : file[j] = e /\ \A k \in 1..(j - 1) : file[k] # e
  <2> HIDE DEF n, T
  <2>1. Min(T) \in T /\ \A k \in T : Min(T) <= k
    BY <1>1, <1>2, MinOfNumbers
  <2>2. \A k \in 1..n : file[k] = e => Min(T) <= k
    BY <2>1 DEF T
  <2>3. Min(T) \in 1..n /\ file[Min(T)] = e
    BY <2>1 DEF T
  <2> DEFINE m == Min(T)
  <2> HIDE DEF m
  <2>4. m \in 1..n /\ file[m] = e /\ \A k \in 1..n : file[k] = e => m <= k
    BY <2>2, <2>3 DEF m
  <2>5. \A k \in 1..(m - 1) : file[k] # e
    BY <1>1, <2>4
  <2> QED
    BY <2>4, <2>5
<1> QED
  BY <1>1, <1>3 DEF FirstAtom

(* The elements that the atoms of a file name first, counted.              *)
LEMMA CountUpTo ==
    ASSUME NEW file \in Seq(Element), DOMAIN elem_typat = {}
    PROVE  /\ NewUpTo(file, Len(file)) = {file[j] : j \in DOMAIN file}
           /\ IsFiniteSet(NewUpTo(file, Len(file)))
           /\ \A j \in 1..Len(file) : NewUpTo(file, j) \subseteq NewUpTo(file, Len(file))
<1> DEFINE n == Len(file)
           here == {file[j] : j \in 1..n}
           f == [j \in 1..n |-> file[j]]
<1>1. n \in Nat /\ DOMAIN file = 1..n
  OBVIOUS
<1>2. \A j \in 1..n : NewUpTo(file, j) = {file[k] : k \in 1..j}
  BY DEF NewUpTo
<1>3. NewUpTo(file, n) = here
  BY DEF NewUpTo
<1>4. f \in Surjection(1..n, here)
  BY DEF Surjection
<1>5. IsFiniteSet(1..n)
  BY <1>1, FS_Interval
<1> HIDE DEF n, f
<1>6. IsFiniteSet(here)
  <2> HIDE DEF here
  <2> QED  BY <1>4, <1>5, FS_Surjection
<1>7. \A j \in 1..n : NewUpTo(file, j) \subseteq here
  BY <1>1, <1>2
<1> QED
  BY <1>1, <1>3, <1>6, <1>7 DEF n

LEMMA TypesOfFirstFile ==
    ASSUME NEW file \in Seq(Element), DOMAIN elem_typat = {},
           NEW here, here = {file[j] : j \in DOMAIN file}
    PROVE  /\ DOMAIN Typat(file) = here
           /\ \A e \in here : Typat(file)[e] \in 1..Cardinality(here)
           /\ \A e, f \in here : Typat(file)[e] = Typat(file)[f] => e = f
           /\ \A i \in 1..Cardinality(here) : \E e \in here : Typat(file)[e] = i
<1> DEFINE n == Len(file)
           first == [e \in here |-> FirstAtom(file, e)]
           upto == [j \in 1..n |-> NewUpTo(file, j)]
<1>1. n \in Nat /\ DOMAIN file = 1..n
  OBVIOUS
<1>2. /\ NewUpTo(file, n) = here
      /\ IsFiniteSet(here)
      /\ \A j \in 1..n : upto[j] \subseteq here
  BY CountUpTo
<1>3. Typat(file) = [e \in here |-> Cardinality(upto[first[e]])]
  <2>1. \A e \in here : FirstAtom(file, e) \in 1..n
    BY FirstAtomIs
  <2> QED  BY <1>2, <2>1 DEF Typat
<1>4. \A j \in 1..n : upto[j] = {file[k] : k \in 1..j}
  BY DEF NewUpTo
<1>5. \A e \in here : /\ first[e] \in 1..n
                      /\ file[first[e]] = e
                      /\ \A k \in 1..(first[e] - 1) : file[k] # e
  BY FirstAtomIs
<1> HIDE DEF n, first, upto
<1>6. ASSUME NEW e \in here
      PROVE  /\ IsFiniteSet(upto[first[e]])
             /\ Cardinality(upto[first[e]]) \in 1..Cardinality(here)
  <2> DEFINE U == upto[first[e]]
  <2>1. U \in SUBSET here /\ e \in U
    BY <1>1, <1>2, <1>4, <1>5
  <2> HIDE DEF U
  <2>2. IsFiniteSet(U) /\ Cardinality(U) <= Cardinality(here) /\ Cardinality(U) \in Nat /\ Cardinality(here) \in Nat
    BY <1>2, <2>1, FS_Subset, FS_CardinalityType
  <2>3. Cardinality(U) # 0
    BY <2>1, <2>2, FS_EmptySet
  <2> QED  BY <2>2, <2>3 DEF U
<1>7. ASSUME NEW e \in here, NEW f \in here, first[e] < first[f]
      PROVE  Cardinality(upto[first[e]]) # Cardinality(upto[first[f]])
  <2> DEFINE U == upto[first[e]]
             W == upto[first[f]]
  <2>1. U \in SUBSET W
    BY <1>1, <1>4, <1>5, <1>7
  <2>2. f \in W /\ f \notin U
    <3>1. first[e] \in 1..n /\ first[f] \in 1..n
      BY <1>5
    <3>2. \A k \in 1..first[e] : k \in 1..(first[f] - 1)
      BY <1>1, <1>7, <3>1
    <3>3. f \notin U
      BY <1>4, <1>5, <3>1, <3>2
    <3>4. first[f] \in 1..first[f] /\ file[first[f]] = f
      BY <1>1, <1>5, <3>1
    <3> QED  BY <1>4, <3>1, <3>3, <3>4
  <2>3. IsFiniteSet(W)
    BY <1>6
  <2> HIDE DEF U, W
  <2>4. Cardinality(U) # Cardinality(W)
    BY <2>1, <2>2, <2>3, FS_Subset
  <2> QED  BY <2>4 DEF U, W
<1>8. ASSUME NEW e \in here, NEW f \in here, first[e] = first[f]
      PROVE  e = f
  BY <1>5, <1>8
<1>9. \A e, f \in here : first[e] < first[f] \/ first[f] < first[e] \/ first[e] = first[f]
  BY <1>1, <1>5
<1> DEFINE count == [e \in here |-> Cardinality(upto[first[e]])]
<1>10. \A e \in here : count[e] \in 1..Cardinality(here)
  BY <1>6
<1>11. \A e, f \in here : count[e] = count[f] => e = f
  BY <1>7, <1>8, <1>9
<1>12. Typat(file) = count
  BY <1>3
<1> HIDE DEF count
<1>13. DOMAIN count = here /\ count = [e \in here |-> count[e]]
  BY DEF count
<1>14. ASSUME NEW i \in 1..Cardinality(here)
       PROVE  \E e \in here : count[e] = i
  <2> DEFINE N == 1..Cardinality(here)
  <2>1. Cardinality(here) \in Nat
    BY <1>2, FS_CardinalityType
  <2>2. IsFiniteSet(N) /\ Cardinality(N) = Cardinality(here)
    BY <2>1, FS_Interval
  <2>3. count \in [here -> N]
    BY <1>10, <1>13
  <2>4. count \in Injection(here, N)
    <3> HIDE DEF N
    <3> QED  BY <1>11, <2>3 DEF Injection, IsInjective
  <2>5. count \in Surjection(here, N)
    <3> HIDE DEF N
    <3> QED  BY <1>2, <2>2, <2>4, FS_Injection
  <2> QED  BY <1>14, <2>5 DEF Surjection
<1> QED
  BY <1>10, <1>11, <1>12, <1>13, <1>14

(* With it goes that the types are a function on the elements known.       *)
TypesInv ==
    /\ TypesCountElements
    /\ elem_typat = [e \in DOMAIN elem_typat |-> elem_typat[e]]

LEMMA TypesInit == Init => TypesInv
<1>1. <<>> = [e \in DOMAIN <<>> |-> <<>>[e]]
  OBVIOUS
<1>2. Cardinality({}) = 0 /\ DOMAIN <<>> = {}
  BY FS_EmptySet
<1>3. 1..0 = {}
  OBVIOUS
<1>4. Init => System = [ntypat |-> 0, znucl |-> [i \in 1..0 |-> {e \in {} : <<>>[e] = i}]]
  BY <1>2 DEF Init, System
<1>5. Init => TypesCountElements
  BY <1>3, <1>4 DEF Init, TypesCountElements
<1> QED  BY <1>1, <1>5 DEF Init, TypesInv

(* The first file numbers its elements; a later one that brings no element *)
(* leaves the numbers alone.                                               *)
LEMMA GetXyzCounts ==
    ASSUME AbinitInv, TypesInv, NEW file \in Structures, GetXyz(file)
    PROVE  TypesInv'
<1> DEFINE here == {file[j] : j \in DOMAIN file}
<1>1. file \in Seq(Element)
  BY AbinitAssumption
<1>2. DOMAIN elem_typat = species /\ files \subseteq species
  BY DEF AbinitInv, DocumentInv
<1>3. ASSUME DOMAIN elem_typat = {}
      PROVE  TypesCountElements'
  <2>1. species' = here /\ elem_typat' = Typat(file)
    BY <1>2, <1>3 DEF GetXyz
  <2> HIDE DEF here
  <2>2. /\ \A e \in here : Typat(file)[e] \in 1..Cardinality(here)
        /\ \A e, f \in here : Typat(file)[e] = Typat(file)[f] => e = f
        /\ \A i \in 1..Cardinality(here) : \E e \in here : Typat(file)[e] = i
        /\ DOMAIN Typat(file) = here
    BY <1>1, <1>3, TypesOfFirstFile DEF here
  <2>3. ASSUME NEW i \in 1..Cardinality(here)
        PROVE  \E e \in here : {f \in here : Typat(file)[f] = i} = {e}
    BY <2>2, <2>3
  <2> QED  BY <2>1, <2>2, <2>3 DEF TypesCountElements, System
<1>4. ASSUME DOMAIN elem_typat # {}
      PROVE  TypesCountElements'
  <2>1. files' = files /\ species' = species \cup here
    BY <1>4 DEF GetXyz
  <2>2. ASSUME species' = files'
        PROVE  species = files /\ species' = species /\ elem_typat' = elem_typat
    <3>1. species = files /\ here \subseteq species /\ species' = species
      BY <1>2, <2>1, <2>2
    <3>2. NewUpTo(file, Len(file)) = {}
      BY <1>1, <1>2, <3>1 DEF NewUpTo
    <3>3. Typat(file) = [e \in DOMAIN elem_typat |-> elem_typat[e]]
      BY <3>2 DEF Typat
    <3>4. elem_typat = [e \in DOMAIN elem_typat |-> elem_typat[e]]
      BY DEF TypesInv
    <3> QED  BY <3>1, <3>3, <3>4 DEF GetXyz
  <2> QED  BY <2>2 DEF TypesCountElements, TypesInv, System
<1>5. elem_typat' = [e \in DOMAIN elem_typat' |-> elem_typat'[e]]
  BY DEF GetXyz, Typat
<1> QED
  BY <1>3, <1>4, <1>5 DEF TypesInv

LEMMA TypesNext == AbinitInv /\ TypesInv /\ [Next]_vars => TypesInv'
<1> SUFFICES ASSUME AbinitInv, TypesInv, [Next]_vars PROVE TypesInv'
  OBVIOUS
<1>1. CASE \E file \in Structures : GetXyz(file)
  BY <1>1, GetXyzCounts
<1>2. CASE UNCHANGED structure
  <2>1. elem_typat' = elem_typat /\ species' = species /\ files' = files
    BY <1>2 DEF structure
  <2>2. System' = System
    BY <2>1 DEF System
  <2>3. TypesCountElements'
    BY <2>1, <2>2 DEF TypesCountElements, TypesInv
  <2> QED  BY <2>1, <2>3 DEF TypesInv
<1>3. [Next]_vars => (\E file \in Structures : GetXyz(file)) \/ UNCHANGED structure
  BY DEF Next, vars, SetParam, SetKpoints, UseTol, SetNdtset, SetPot, Run, RunPhonopy, Exit
<1> QED
  BY <1>1, <1>2, <1>3

(* As long as no later file brings a new element, elem_typat numbers the   *)
(* elements 1..ntypat without gap or repetition (AbinitSystem::get_xyz),   *)
(* for files of any length and any number of elements: the inductive       *)
(* invariant only adds that it is a function, since a file that brings no  *)
(* element changes nothing.                                                *)
THEOREM TypesNumberElements == Spec => []TypesCountElements
<1>1. TypesInv => TypesCountElements
  BY DEF TypesInv
<1> QED
  BY <1>1, TypesInit, TypesNext, Invariance, PTL DEF Spec

-----------------------------------------------------------------------------
(* The calls that a command is made of, and those of them that make no     *)
(* dataset and switch tolerances of datasets 0..m only.                    *)
Command ==
    [op: {"set_param"}, key: Keys, n: 0..(MaxNdtset + 1)]
    \cup [op: {"use_tol"}, key: Tols, n: 0..MaxNdtset]
    \cup [op: {"set_ndtset"}, key: {"none"}, n: 1..MaxNdtset]
    \cup [op: {"set_pot", "get_xyz"}, key: {"none"}, n: {0}]

Settings(m) == {c \in Command : c.op # "set_ndtset" /\ (c.op = "use_tol" => c.n <= m)}

CommonSettings == {c \in Settings(0) : c.n = 0}

(* A sequence of calls with one set_ndtset, before it settings of dataset  *)
(* 0, after it of the datasets that it makes.                              *)
MakesDatasets(cs, m) ==
    \E s \in Seq(CommonSettings), t \in Seq(Settings(m)) : cs = (s \o <<Datasets(m)>>) \o t

LEMMA ConcatAssociates ==
    ASSUME NEW S, NEW a \in Seq(S), NEW b \in Seq(S), NEW c \in Seq(S)
    PROVE  (a \o b) \o c = a \o (b \o c)
OBVIOUS

LEMMA ConcatTyped ==
    ASSUME NEW S, NEW a \in Seq(S), NEW b \in Seq(S)
    PROVE  a \o b \in Seq(S)
OBVIOUS

LEMMA SetIs ==
    ASSUME NEW k \in Keys, NEW i \in 0..(MaxNdtset + 1)
    PROVE  /\ \A m \in Nat : Set(k, i) \in Settings(m)
           /\ i = 0 => Set(k, i) \in CommonSettings
<1>1. Set(k, i) \in Command /\ Set(k, i).op = "set_param" /\ Set(k, i).n = i
  BY DEF Set, Command
<1> QED  BY <1>1 DEF Settings, CommonSettings

LEMMA TolIs ==
    ASSUME NEW t \in Tols, NEW i \in 0..MaxNdtset
    PROVE  /\ \A m \in Nat : i <= m => <<Tol(t, i)>> \in Seq(Settings(m))
           /\ i = 0 => <<Tol(t, i)>> \in Seq(CommonSettings)
<1>1. Tol(t, i) \in Command /\ Tol(t, i).op = "use_tol" /\ Tol(t, i).n = i
  BY DEF Tol, Command
<1>2. \A m \in Nat : i <= m => Tol(t, i) \in Settings(m)
  BY <1>1 DEF Settings
<1>3. i = 0 => Tol(t, i) \in CommonSettings
  BY <1>1, <1>2 DEF CommonSettings
<1> QED  BY <1>2, <1>3

LEMMA SetEachIs ==
    ASSUME NEW keys \in Seq(ClassKeys), NEW i \in 0..MaxNdtset
    PROVE  /\ \A m \in Nat : SetEach(keys, i) \in Seq(Settings(m))
           /\ i = 0 => SetEach(keys, i) \in Seq(CommonSettings)
<1>1. i \in 0..(MaxNdtset + 1)
  BY AbinitAssumption
<1>2. \A j \in DOMAIN keys : keys[j] \in Keys
  BY CliAssumption
<1>3. DOMAIN keys = 1..Len(keys) /\ Len(keys) \in Nat
  OBVIOUS
<1>4. \A m \in Nat : \A j \in 1..Len(keys) : Set(keys[j], i) \in Settings(m)
  BY <1>1, <1>2, <1>3, SetIs
<1>5. i = 0 => \A j \in 1..Len(keys) : Set(keys[j], i) \in CommonSettings
  BY <1>1, <1>2, <1>3, SetIs
<1> QED  BY <1>3, <1>4, <1>5 DEF SetEach

LEMMA MakesMore ==
    ASSUME NEW m \in 1..MaxNdtset, NEW cs, MakesDatasets(cs, m), NEW u \in Seq(Settings(m))
    PROVE  MakesDatasets(cs \o u, m)
<1>1. PICK s \in Seq(CommonSettings), t \in Seq(Settings(m)) : cs = (s \o <<Datasets(m)>>) \o t
  BY DEF MakesDatasets
<1>2. t \o u \in Seq(Settings(m))
  BY ConcatTyped
<1>3. /\ CommonSettings \subseteq Command
      /\ Settings(m) \subseteq Command
      /\ Datasets(m) \in Command
  BY DEF CommonSettings, Settings, Datasets, Command
<1>4. /\ s \o <<Datasets(m)>> \in Seq(Command)
      /\ t \in Seq(Command)
      /\ u \in Seq(Command)
  BY <1>3
<1>5. cs \o u = (s \o <<Datasets(m)>>) \o (t \o u)
  BY <1>1, <1>4, ConcatAssociates, SMTT(40)
<1> QED  BY <1>2, <1>5 DEF MakesDatasets

LEMMA MakesFirst ==
    ASSUME NEW m \in 1..MaxNdtset, NEW s \in Seq(CommonSettings)
    PROVE  MakesDatasets(s \o <<Datasets(m)>>, m)
<1>1. CommonSettings \subseteq Command /\ Datasets(m) \in Command
  BY DEF CommonSettings, Settings, Datasets, Command
<1>2. s \o <<Datasets(m)>> \in Seq(Command)
  BY <1>1
<1>3. s \o <<Datasets(m)>> = (s \o <<Datasets(m)>>) \o <<>>
  BY <1>2
<1>4. <<>> \in Seq(Settings(m))
  OBVIOUS
<1> QED  BY <1>3, <1>4 DEF MakesDatasets

(* What each class does in its constructor.                                *)
LEMMA PyAbinitIs ==
    /\ \A m \in Nat : PyAbinit \in Seq(Settings(m))
    /\ PyAbinit \in Seq(CommonSettings)
<1> DEFINE keys == <<"ecut", "occopt", "nstep", "diemac", "ixc">>
<1>1. keys \in Seq(ClassKeys)
  BY DEF ClassKeys
<1>2. 0 \in 0..MaxNdtset /\ "tolvrs" \in Tols
  BY AbinitAssumption, CliAssumption
<1> HIDE DEF keys
<1>3. /\ \A m \in Nat : SetEach(keys, 0) \in Seq(Settings(m))
      /\ SetEach(keys, 0) \in Seq(CommonSettings)
  BY <1>1, <1>2, SetEachIs
<1>4. /\ \A m \in Nat : <<Tol("tolvrs", 0)>> \in Seq(Settings(m))
      /\ <<Tol("tolvrs", 0)>> \in Seq(CommonSettings)
  BY <1>2, TolIs
<1>5. PyAbinit = SetEach(keys, 0) \o <<Tol("tolvrs", 0)>>
  BY DEF PyAbinit, keys
<1> QED  BY <1>3, <1>4, <1>5, ConcatTyped

LEMMA OptIs == \A m \in Nat : Opt \in Seq(Settings(m)) /\ VcOpt \in Seq(Settings(m))
<1> DEFINE keys == <<"ionmov", "optcell", "ntime", "tolmxf", "tolmxde">>
           cell == <<"ecutsm", "dilatmx">>
<1>1. keys \in Seq(ClassKeys) /\ cell \in Seq(ClassKeys)
  BY DEF ClassKeys
<1>2. 0 \in 0..MaxNdtset
  BY AbinitAssumption
<1>3. Opt = PyAbinit \o SetEach(keys, 0) /\ VcOpt = Opt \o SetEach(cell, 0)
  BY DEF Opt, VcOpt
<1> HIDE DEF keys, cell
<1>4. ASSUME NEW m \in Nat PROVE Opt \in Seq(Settings(m)) /\ VcOpt \in Seq(Settings(m))
  <2>1. SetEach(keys, 0) \in Seq(Settings(m)) /\ SetEach(cell, 0) \in Seq(Settings(m))
    BY <1>1, <1>2, SetEachIs
  <2>2. PyAbinit \in Seq(Settings(m))
    BY PyAbinitIs
  <2> QED  BY <1>3, <2>1, <2>2, ConcatTyped
<1> QED  BY <1>4

LEMMA MDIs == \A m \in Nat : MD \in Seq(Settings(m))
<1> DEFINE keys == <<"ionmov", "dtion", "ntime", "mdtemp", "tolmxf">>
<1>1. keys \in Seq(ClassKeys)
  BY DEF ClassKeys
<1>2. 0 \in 0..MaxNdtset
  BY AbinitAssumption
<1>3. MD = PyAbinit \o SetEach(keys, 0)
  BY DEF MD
<1> HIDE DEF keys
<1> QED  BY <1>1, <1>2, <1>3, PyAbinitIs, SetEachIs, ConcatTyped

LEMMA DfptIs == MakesDatasets(DfptElasticPiezoDielec, 3)
<1> DEFINE one == <<"tolvrs", "ngkpt">>
           two == <<"tolwfr", "prtden", "getwfk", "kptopt", "ngkpt", "iscf",
                    "rfelfd", "rfdir", "nqpt", "qpt">>
           three == <<"tolvrs", "kptopt", "ngkpt", "getddk", "getwfk", "nqpt", "qpt",
                      "rfphon", "rfelfd", "rfatpol", "rfdir", "rfstrs">>
<1>1. one \in Seq(ClassKeys) /\ two \in Seq(ClassKeys) /\ three \in Seq(ClassKeys)
  <2>1. one \in Seq(ClassKeys)
    BY DEF ClassKeys
  <2>2. two \in Seq(ClassKeys)
    BY DEF ClassKeys
  <2>3. three \in Seq(ClassKeys)
    BY DEF ClassKeys
  <2> QED  BY <2>1, <2>2, <2>3
<1>2. {1, 2, 3} \subseteq 0..MaxNdtset /\ 3 \in 1..MaxNdtset
  BY AbinitAssumption, CliAssumption
<1>3. DfptElasticPiezoDielec =
          ((<<Datasets(3)>> \o SetEach(one, 1)) \o SetEach(two, 2)) \o SetEach(three, 3)
  BY DEF DfptElasticPiezoDielec
<1> HIDE DEF one, two, three
<1>4. /\ SetEach(one, 1) \in Seq(Settings(3))
      /\ SetEach(two, 2) \in Seq(Settings(3))
      /\ SetEach(three, 3) \in Seq(Settings(3))
  BY <1>1, <1>2, SetEachIs
<1>5. MakesDatasets(<<Datasets(3)>>, 3)
  <2>1. <<>> \in Seq(CommonSettings) /\ <<>> \o <<Datasets(3)>> = <<Datasets(3)>>
    OBVIOUS
  <2> QED  BY <1>2, <2>1, MakesFirst
<1>6. MakesDatasets(<<Datasets(3)>> \o SetEach(one, 1), 3)
  BY <1>2, <1>4, <1>5, MakesMore
<1>7. MakesDatasets((<<Datasets(3)>> \o SetEach(one, 1)) \o SetEach(two, 2), 3)
  BY <1>2, <1>4, <1>6, MakesMore
<1> QED  BY <1>2, <1>3, <1>4, <1>7, MakesMore

(* Band and Dos: settings of dataset 0, the datasets, and their settings.  *)
LEMMA ScfDatasetsIs == MakesDatasets(ScfDatasetsOf(2), 2)
<1> DEFINE common == <<"iscf", "prtden", "", "kptopt", "ngkpt">>
           scf == <<"iscf", "prtden", "ngkpt">>
<1>1. common \in Seq(ClassKeys) /\ scf \in Seq(ClassKeys)
  BY DEF ClassKeys
<1>2. {0, 1, 2} \subseteq 0..MaxNdtset /\ 2 \in 1..MaxNdtset /\ "tolvrs" \in Tols
  BY AbinitAssumption, CliAssumption
<1>3. ScfDatasetsOf(2) =
          ((((PyAbinit \o <<Datasets(2)>>) \o SetEach(common, 0)) \o <<Tol("tolvrs", 0)>>)
              \o SetEach(scf, 1)) \o <<Tol("tolvrs", 1)>>
  BY DEF ScfDatasetsOf
<1> HIDE DEF common, scf
<1>4. /\ SetEach(common, 0) \in Seq(Settings(2))
      /\ SetEach(scf, 1) \in Seq(Settings(2))
  BY <1>1, <1>2, SetEachIs
<1>5. /\ <<Tol("tolvrs", 0)>> \in Seq(Settings(2))
      /\ <<Tol("tolvrs", 1)>> \in Seq(Settings(2))
  BY <1>2, TolIs
<1>6. MakesDatasets(PyAbinit \o <<Datasets(2)>>, 2)
  BY <1>2, PyAbinitIs, MakesFirst
<1>7. MakesDatasets((PyAbinit \o <<Datasets(2)>>) \o SetEach(common, 0), 2)
  BY <1>2, <1>4, <1>6, MakesMore
<1>8. MakesDatasets(((PyAbinit \o <<Datasets(2)>>) \o SetEach(common, 0))
                        \o <<Tol("tolvrs", 0)>>, 2)
  BY <1>2, <1>5, <1>7, MakesMore
<1>9. MakesDatasets((((PyAbinit \o <<Datasets(2)>>) \o SetEach(common, 0))
                        \o <<Tol("tolvrs", 0)>>) \o SetEach(scf, 1), 2)
  BY <1>2, <1>4, <1>8, MakesMore
<1> QED  BY <1>2, <1>3, <1>5, <1>9, MakesMore

LEMMA BandIs == MakesDatasets(Band, 2)
<1> DEFINE first == <<"iscf", "getwfk", "getden">>
           path == <<"kptbounds", "kptopt", "ndivk">>
<1>1. first \in Seq(ClassKeys) /\ path \in Seq(ClassKeys)
  BY DEF ClassKeys
<1>2. 2 \in 0..MaxNdtset /\ 2 \in 1..MaxNdtset /\ "tolwfr" \in Tols
  BY AbinitAssumption, CliAssumption
<1>3. Band = ((ScfDatasetsOf(2) \o SetEach(first, 2)) \o <<Tol("tolwfr", 2)>>) \o SetEach(path, 2)
  BY DEF Band
<1> HIDE DEF first, path
<1>4. /\ SetEach(first, 2) \in Seq(Settings(2))
      /\ SetEach(path, 2) \in Seq(Settings(2))
  BY <1>1, <1>2, SetEachIs
<1>5. <<Tol("tolwfr", 2)>> \in Seq(Settings(2))
  BY <1>2, TolIs
<1>6. MakesDatasets(ScfDatasetsOf(2) \o SetEach(first, 2), 2)
  BY <1>2, <1>4, ScfDatasetsIs, MakesMore
<1>7. MakesDatasets((ScfDatasetsOf(2) \o SetEach(first, 2)) \o <<Tol("tolwfr", 2)>>, 2)
  BY <1>2, <1>5, <1>6, MakesMore
<1> QED  BY <1>2, <1>3, <1>4, <1>7, MakesMore

LEMMA DosIs == MakesDatasets(Dos, 2)
<1> DEFINE keys == <<"iscf", "prtdos", "prtdosm", "getwfk", "getden">>
<1>1. keys \in Seq(ClassKeys)
  BY DEF ClassKeys
<1>2. 2 \in 0..MaxNdtset /\ 2 \in 1..MaxNdtset /\ "tolvrs" \in Tols
  BY AbinitAssumption, CliAssumption
<1>3. Dos = (ScfDatasetsOf(2) \o SetEach(keys, 2)) \o <<Tol("tolvrs", 2)>>
  BY DEF Dos
<1> HIDE DEF keys
<1>4. SetEach(keys, 2) \in Seq(Settings(2)) /\ <<Tol("tolvrs", 2)>> \in Seq(Settings(2))
  BY <1>1, <1>2, SetEachIs, TolIs
<1>5. MakesDatasets(ScfDatasetsOf(2) \o SetEach(keys, 2), 2)
  BY <1>2, <1>4, ScfDatasetsIs, MakesMore
<1> QED  BY <1>2, <1>3, <1>4, <1>5, MakesMore

(* So a command makes its datasets once, before it uses them, or never.    *)
LEMMA CommandsAre ==
    ASSUME NEW c \in Calcs, NEW parameters \in Customs
    PROVE  \/ Commands(c, parameters) \in Seq(Settings(1))
           \/ \E m \in 1..MaxNdtset : MakesDatasets(Commands(c, parameters), m)
<1> DEFINE last == [j \in DOMAIN parameters |-> Set(parameters[j][1], parameters[j][2])]
<1>1. ASSUME NEW m \in Nat
      PROVE  Order \in Seq(Settings(m)) /\ last \in Seq(Settings(m))
  <2>1. Order \in Seq(Settings(m))
    BY DEF Order, Settings, Command
  <2>2. parameters \in Seq(Keys \X (0..(MaxNdtset + 1)))
    BY CliAssumption
  <2>3. \A j \in DOMAIN parameters :
            parameters[j][1] \in Keys /\ parameters[j][2] \in 0..(MaxNdtset + 1)
    BY <2>2
  <2>4. \A j \in DOMAIN parameters : Set(parameters[j][1], parameters[j][2]) \in Settings(m)
    BY <2>3, SetIs
  <2>5. DOMAIN parameters = 1..Len(parameters) /\ Len(parameters) \in Nat
    BY <2>2
  <2>6. last \in Seq(Settings(m))
    BY <2>4, <2>5
  <2> QED  BY <2>1, <2>6
<1>2. Commands(c, parameters) = (Constructor(c) \o Order) \o last
  BY DEF Commands
<1> HIDE DEF last
<1>3. ASSUME Constructor(c) \in Seq(Settings(1))
      PROVE  Commands(c, parameters) \in Seq(Settings(1))
  <2>1. Constructor(c) \o Order \in Seq(Settings(1))
    BY <1>1, <1>3, ConcatTyped
  <2> QED  BY <1>1, <1>2, <2>1, ConcatTyped
<1>4. ASSUME NEW m \in 1..MaxNdtset, MakesDatasets(Constructor(c), m)
      PROVE  MakesDatasets(Commands(c, parameters), m)
  <2>1. Order \in Seq(Settings(m)) /\ last \in Seq(Settings(m))
    BY <1>1
  <2>2. MakesDatasets(Constructor(c) \o Order, m)
    BY <1>4, <2>1, MakesMore
  <2> QED  BY <1>2, <2>1, <2>2, MakesMore
<1>5. 2 \in 1..MaxNdtset /\ 3 \in 1..MaxNdtset
  BY CliAssumption, AbinitAssumption
<1>6. CASE c = "static"
  BY <1>3, <1>6, PyAbinitIs DEF Constructor
<1>7. CASE c = "opt"
  BY <1>3, <1>7, OptIs DEF Constructor
<1>8. CASE c = "vcopt"
  BY <1>3, <1>8, OptIs DEF Constructor
<1>9. CASE c = "md"
  BY <1>3, <1>9, MDIs DEF Constructor
<1>10. CASE c = "phonopy"
  <2>1. Constructor(c) = <<>>
    BY <1>10 DEF Constructor
  <2> QED  BY <1>3, <2>1
<1>11. CASE c = "dfpt-epd"
  BY <1>4, <1>5, <1>11, DfptIs DEF Constructor
<1>12. CASE c = "band"
  BY <1>4, <1>5, <1>12, BandIs DEF Constructor
<1>13. CASE c = "dos"
  BY <1>4, <1>5, <1>13, DosIs DEF Constructor
<1> QED
  BY <1>6, <1>7, <1>8, <1>9, <1>10, <1>11, <1>12, <1>13 DEF Calcs

(* The same for the places of the calls.                                   *)
WellOrdered(cs) ==
    /\ cs \in Seq(Command)
    /\ \A i, j \in DOMAIN cs :
           j < i /\ cs[i].op = "set_ndtset" => cs[j].op # "set_ndtset" /\ cs[j].n = 0
    /\ \A j \in DOMAIN cs :
           cs[j].op = "use_tol" =>
               \/ cs[j].n <= 1
               \/ \E i \in 1..(j - 1) : cs[i].op = "set_ndtset" /\ cs[j].n <= cs[i].n

LEMMA CommandsWellOrdered ==
    ASSUME NEW c \in Calcs, NEW parameters \in Customs
    PROVE  WellOrdered(Commands(c, parameters))
<1> DEFINE cs == Commands(c, parameters)
<1>1. ASSUME cs \in Seq(Settings(1)) PROVE WellOrdered(cs)
  <2> HIDE DEF cs
  <2>1. /\ \A j \in DOMAIN cs : cs[j] \in Settings(1)
        /\ cs \in Seq(Command)
    BY <1>1 DEF Settings
  <2> QED  BY <2>1 DEF WellOrdered, Settings
<1>2. ASSUME NEW m \in 1..MaxNdtset, MakesDatasets(cs, m) PROVE WellOrdered(cs)
  <2> HIDE DEF cs
  <2>1. PICK s \in Seq(CommonSettings), t \in Seq(Settings(m)) : cs = (s \o <<Datasets(m)>>) \o t
    BY <1>2 DEF MakesDatasets
  <2> DEFINE front == s \o <<Datasets(m)>>
             k == Len(s) + 1
  <2>2. /\ CommonSettings \subseteq Command
        /\ Settings(m) \subseteq Command
        /\ Datasets(m) \in Command
        /\ Datasets(m).op = "set_ndtset"
        /\ Datasets(m).n = m
    BY DEF CommonSettings, Settings, Datasets, Command
  <2>3. s \in Seq(Command) /\ t \in Seq(Command) /\ <<Datasets(m)>> \in Seq(Command)
    BY <2>2
  <2>4. /\ front \in Seq(Command)
        /\ Len(front) = k
        /\ \A i \in 1..Len(s) : front[i] = s[i]
        /\ front[k] = Datasets(m)
    BY <2>3
  <2> HIDE DEF front
  <2>5. /\ cs \in Seq(Command)
        /\ Len(cs) = k + Len(t)
        /\ \A i \in 1..k : cs[i] = front[i]
        /\ \A i \in 1..Len(t) : cs[k + i] = t[i]
    BY <2>1, <2>3, <2>4, ConcatIs DEF front
  <2>6. Len(s) \in Nat /\ Len(t) \in Nat /\ DOMAIN cs = 1..Len(cs)
    BY <2>5
  <2>7. \A i \in 1..Len(s) : s[i] \in CommonSettings
    OBVIOUS
  <2>8. \A i \in 1..Len(t) : t[i] \in Settings(m)
    OBVIOUS
  <2>9. \A i \in 1..(k - 1) : cs[i] \in CommonSettings
    BY <2>4, <2>5, <2>6, <2>7
  <2>10. cs[k] = Datasets(m)
    BY <2>4, <2>5, <2>6
  <2>11. ASSUME NEW i \in (k + 1)..Len(cs) PROVE cs[i] \in Settings(m)
    <3>1. i - k \in 1..Len(t) /\ cs[k + (i - k)] = cs[i]
      BY <2>5, <2>6
    <3> QED  BY <2>5, <2>8, <3>1
  <2> HIDE DEF k
  <2>12. k \in 1..Len(cs)
    BY <2>5, <2>6 DEF k
  <2>13. \A i \in 1..(k - 1) : cs[i].op # "set_ndtset" /\ cs[i].n = 0
    BY <2>9 DEF CommonSettings, Settings
  <2>14. \A i \in (k + 1)..Len(cs) :
             cs[i].op # "set_ndtset" /\ (cs[i].op = "use_tol" => cs[i].n <= m)
    BY <2>11 DEF Settings
  <2>15. \A i, j \in DOMAIN cs :
             j < i /\ cs[i].op = "set_ndtset" => cs[j].op # "set_ndtset" /\ cs[j].n = 0
    BY <2>6, <2>12, <2>13, <2>14
  <2>16. ASSUME NEW j \in DOMAIN cs, cs[j].op = "use_tol"
         PROVE  \/ cs[j].n <= 1
                \/ \E i \in 1..(j - 1) : cs[i].op = "set_ndtset" /\ cs[j].n <= cs[i].n
    <3>1. CASE j < k
      BY <2>6, <2>12, <2>13, <3>1
    <3>2. CASE j = k
      BY <2>2, <2>10, <2>16, <3>2
    <3>3. CASE j > k
      BY <2>2, <2>6, <2>10, <2>12, <2>14, <2>16, <3>3
    <3> QED  BY <2>6, <2>12, <3>1, <3>2, <3>3
  <2> QED  BY <2>5, <2>15, <2>16 DEF WellOrdered
<1> QED  BY <1>1, <1>2, CommandsAre

-----------------------------------------------------------------------------
(* What a command has left to do is what is left of its calls, so a        *)
(* command makes only calls of AbinitDatasets.                             *)
TodoInv ==
    /\ todo \in Seq(Command)
    /\ calc # "script" => calc \in Calcs /\ custom \in Customs

LEMMA TodoInit == CliInit => TodoInv
<1>1. ASSUME CommandInit PROVE TodoInv
  <2>1. WellOrdered(Commands(calc, custom))
    BY <1>1, CommandsWellOrdered DEF CommandInit
  <2> QED  BY <1>1, <2>1 DEF TodoInv, CommandInit, WellOrdered
<1>2. ScriptInit => TodoInv
  BY DEF ScriptInit, TodoInv
<1> QED  BY <1>1, <1>2 DEF CliInit

LEMMA TodoNext == TodoInv /\ [CliNext]_cliVars => TodoInv'
<1> SUFFICES ASSUME TodoInv, [CliNext]_cliVars PROVE TodoInv'
  OBVIOUS
<1>1. ASSUME NEW op, Doing(op) PROVE TodoInv'
  <2>1. Tail(todo) \in Seq(Command)
    BY <1>1 DEF TodoInv, Doing
  <2> QED  BY <1>1, <2>1 DEF TodoInv, Doing
<1>2. CASE UNCHANGED <<calc, custom, todo>>
  BY <1>2 DEF TodoInv
<1> QED
  BY <1>1, <1>2 DEF CliNext, cliVars, Scripted, DoSetParam, DoUseTol, DoSetNdtset, DoSetPot,
                    DoGetXyz, DoRun

(* Every step of a user is a call of AbinitDatasets.                       *)
LEMMA CliStepIsCall == TodoInv /\ [CliNext]_cliVars => [Next]_vars
<1> SUFFICES ASSUME TodoInv, [CliNext]_cliVars PROVE [Next]_vars
  OBVIOUS
<1>1. todo # <<>> => Head(todo) \in Command
  BY DEF TodoInv
<1>2. CASE DoSetParam
  <2>1. Head(todo) \in Command /\ Head(todo).op = "set_param"
    BY <1>1, <1>2 DEF DoSetParam, Doing
  <2>2. Head(todo).key \in Keys /\ Head(todo).n \in 0..(MaxNdtset + 1)
    BY <2>1 DEF Command
  <2> QED  BY <1>2, <2>2 DEF DoSetParam, Next
<1>3. CASE DoUseTol
  <2>1. Head(todo) \in Command /\ Head(todo).op = "use_tol"
    BY <1>1, <1>3 DEF DoUseTol, Doing
  <2>2. Head(todo).key \in Tols /\ Head(todo).n \in 0..MaxNdtset
    BY <2>1 DEF Command
  <2> QED  BY <1>3, <2>2 DEF DoUseTol, Next
<1>4. CASE DoSetNdtset
  <2>1. Head(todo) \in Command /\ Head(todo).op = "set_ndtset"
    BY <1>1, <1>4 DEF DoSetNdtset, Doing
  <2>2. Head(todo).n \in 0..MaxNdtset
    BY <2>1 DEF Command
  <2> QED  BY <1>4, <2>2 DEF DoSetNdtset, Next
<1>5. CASE DoSetPot \/ DoGetXyz \/ DoRun
  BY <1>5 DEF DoSetPot, DoGetXyz, DoRun, Next
<1>6. CASE Scripted
  <2>1. ScriptKeys \ KpointKeys \subseteq Keys
    BY CliAssumption
  <2>2. /\ 0..(ScriptNdtset + 1) \subseteq 0..(MaxNdtset + 1)
        /\ 0..ScriptNdtset \subseteq 0..MaxNdtset
    BY CliAssumption, AbinitAssumption
  <2>3. CASE \E k \in ScriptKeys \ KpointKeys, i \in 0..(ScriptNdtset + 1) : SetParam(k, i)
    BY <2>1, <2>2, <2>3 DEF Next
  <2>4. CASE \E k \in ScriptKeys \cap KpointKeys, i \in 0..(ScriptNdtset + 1) : SetKpoints(k, i)
    BY <2>2, <2>4 DEF Next
  <2>5. CASE \E t \in ScriptKeys \cap Tols, i \in 0..ScriptNdtset : UseTol(t, i)
    BY <2>2, <2>5 DEF Next
  <2>6. CASE \E m \in 0..ScriptNdtset : SetNdtset(m)
    BY <2>2, <2>6 DEF Next
  <2>7. CASE \/ \E pot \in Pots : SetPot(pot)
             \/ \E file \in Structures : GetXyz(file)
             \/ Run
             \/ RunPhonopy
    BY <2>7 DEF Next
  <2> QED  BY <1>6, <2>3, <2>4, <2>5, <2>6, <2>7 DEF Scripted, ScriptCall
<1>7. CASE UNCHANGED cliVars
  BY <1>7 DEF cliVars
<1> QED
  BY <1>2, <1>3, <1>4, <1>5, <1>6, <1>7 DEF CliNext

(* Scripts and commands (abinit_processor and the Python classes) only     *)
(* make calls of AbinitDatasets, with keywords of its groups and in the    *)
(* state that the calls before have left: the specification of the users   *)
(* implements that of the calculator, and what is proved of the calls in   *)
(* any order holds of every user.                                          *)
THEOREM UsersMakeCalls == CliSpec => Spec
<1>1. CliInit => Init
  BY DEF CliInit
<1> QED
  BY <1>1, TodoInit, TodoNext, CliStepIsCall, PTL DEF CliSpec, Spec

-----------------------------------------------------------------------------
(* The first k calls of cs are done: the datasets are those that they ask  *)
(* for, and every keyword is where they have set it, unless one of them    *)
(* has switched it off.                                                    *)
SwitchedOffBy(cs, j, k) ==
    /\ cs[j].key \in Tols
    /\ \E l \in (j + 1)..k :
           cs[l].op = "use_tol" /\ cs[l].n = cs[j].n /\ cs[l].key # cs[j].key

IsSet(n, key) == n <= ndtset /\ datasets[n].params[key].status = TRUE

Progress(cs, k) ==
    /\ size = ndtset + 1
    /\ ndtset >= 1
    /\ (\A i \in 1..k : cs[i].op # "set_ndtset") => ndtset = 1
    /\ \A i \in 1..k : cs[i].op = "set_ndtset" => ndtset = cs[i].n
    /\ \A i \in 0..ndtset : datasets[i].ions = TRUE
    /\ \A j \in 1..k :
           cs[j].op \in {"set_param", "use_tol"} =>
               /\ cs[j].n <= ndtset
               /\ SwitchedOffBy(cs, j, k) \/ IsSet(cs[j].n, cs[j].key)

CommandInv ==
    calc # "script" =>
        /\ SettingsReachInput
        /\ abi.ran => runs # 0
        /\ runs # 0 => todo = <<>>
        /\ runs = 0 => \E k \in 0..Len(Commands(calc, custom)) :
               /\ todo = SubSeq(Commands(calc, custom), k + 1, Len(Commands(calc, custom)))
               /\ ~exited => Progress(Commands(calc, custom), k)

(* A call that leaves the number of datasets: it is enough that nothing is *)
(* lost but what it switches off, and that what it sets is set.            *)
LEMMA ProgressKept ==
    ASSUME NEW cs, WellOrdered(cs), NEW k \in 0..(Len(cs) - 1), Progress(cs, k),
           cs[k + 1].op # "set_ndtset",
           ndtset \in Nat, UNCHANGED <<ndtset, size>>,
           \A i \in 0..ndtset : datasets'[i].ions = TRUE,
           \A j \in 1..k : cs[j].op \in {"set_param", "use_tol"} /\ IsSet(cs[j].n, cs[j].key) =>
               \/ IsSet(cs[j].n, cs[j].key)'
               \/ /\ cs[k + 1].op = "use_tol"
                  /\ cs[j].key \in Tols
                  /\ cs[k + 1].n = cs[j].n
                  /\ cs[k + 1].key # cs[j].key,
           cs[k + 1].op \in {"set_param", "use_tol"} => IsSet(cs[k + 1].n, cs[k + 1].key)'
    PROVE  Progress(cs, k + 1)'
<1>1. Len(cs) \in Nat /\ k \in Nat /\ k + 1 \in Nat /\ DOMAIN cs = 1..Len(cs)
  BY DEF WellOrdered
<1>2. 1..(k + 1) = (1..k) \cup {k + 1}
  BY <1>1
<1>3. /\ size' = ndtset' + 1
      /\ ndtset' >= 1
      /\ \A i \in 0..ndtset' : datasets'[i].ions = TRUE
  BY DEF Progress
<1>4. (\A i \in 1..(k + 1) : cs[i].op # "set_ndtset") => ndtset' = 1
  BY <1>2 DEF Progress
<1>5. \A i \in 1..(k + 1) : cs[i].op = "set_ndtset" => ndtset' = cs[i].n
  BY <1>2 DEF Progress
<1>6. ASSUME NEW j \in 1..(k + 1), cs[j].op \in {"set_param", "use_tol"}
      PROVE  /\ cs[j].n <= ndtset'
             /\ SwitchedOffBy(cs, j, k + 1) \/ IsSet(cs[j].n, cs[j].key)'
  <2>1. CASE j = k + 1
    BY <1>6, <2>1 DEF IsSet
  <2>2. CASE j \in 1..k
    <3>1. cs[j].n <= ndtset /\ (SwitchedOffBy(cs, j, k) \/ IsSet(cs[j].n, cs[j].key))
      BY <1>6, <2>2 DEF Progress
    <3>2. SwitchedOffBy(cs, j, k) => SwitchedOffBy(cs, j, k + 1)
      BY <1>1, <2>2 DEF SwitchedOffBy
    <3>3. ASSUME cs[k + 1].op = "use_tol", cs[j].key \in Tols,
                 cs[k + 1].n = cs[j].n, cs[k + 1].key # cs[j].key
          PROVE  SwitchedOffBy(cs, j, k + 1)
      <4>1. k + 1 \in (j + 1)..(k + 1)
        BY <1>1, <2>2
      <4> QED  BY <3>3, <4>1 DEF SwitchedOffBy
    <3>4. CASE SwitchedOffBy(cs, j, k)
      BY <3>1, <3>2, <3>4
    <3>5. CASE IsSet(cs[j].n, cs[j].key)
      BY <1>6, <2>2, <3>1, <3>3, <3>5
    <3> QED  BY <3>1, <3>4, <3>5
  <2> QED  BY <1>2, <2>1, <2>2
<1>7. \A j \in 1..(k + 1) : SwitchedOffBy(cs, j, k + 1)' = SwitchedOffBy(cs, j, k + 1)
  BY DEF SwitchedOffBy
<1> QED
  BY <1>3, <1>4, <1>5, <1>6, <1>7 DEF Progress

LEMMA CommandAt ==
    ASSUME NEW cs, WellOrdered(cs), NEW k \in 0..(Len(cs) - 1)
    PROVE  /\ \A j \in 1..(k + 1) : j \in DOMAIN cs /\ cs[j] \in Command
           /\ \A j \in 1..k :
                  cs[j].op \in {"set_param", "use_tol"} =>
                      cs[j].key \in Keys /\ cs[j].n \in Nat
           /\ cs[k + 1].op \in {"set_param", "use_tol"} =>
                  cs[k + 1].key \in Keys /\ cs[k + 1].n \in Nat
<1>1. cs \in Seq(Command) /\ Len(cs) \in Nat /\ DOMAIN cs = 1..Len(cs)
  BY DEF WellOrdered
<1>2. \A j \in 1..(k + 1) : j \in DOMAIN cs /\ cs[j] \in Command
  BY <1>1
<1>3. \A c \in Command : c.op \in {"set_param", "use_tol"} => c.key \in Keys /\ c.n \in Nat
  BY AbinitAssumption DEF Command, Keys
<1>4. k + 1 \in 1..(k + 1) /\ 1..k \subseteq 1..(k + 1)
  OBVIOUS
<1> QED  BY <1>2, <1>3, <1>4

LEMMA SetParamProgress ==
    ASSUME NEW cs, WellOrdered(cs), NEW k \in 0..(Len(cs) - 1), AbinitInv, Progress(cs, k),
           cs[k + 1].op = "set_param", SetParam(cs[k + 1].key, cs[k + 1].n), ~exited'
    PROVE  Progress(cs, k + 1)'
<1> DEFINE key == cs[k + 1].key
           n == cs[k + 1].n
<1>1. key \in Keys /\ n \in Nat
  BY CommandAt
<1>2. /\ n <= ndtset
      /\ datasets' = [datasets EXCEPT ![n] = WithParam(@, key)]
      /\ ndtset' = ndtset
      /\ size' = size
  BY <1>1 DEF SetParam, Exit, AbinitInv, DatasetsInv
<1>3. ndtset \in Nat /\ size \in Nat /\ datasets \in [0..(size - 1) -> Input] /\ size = ndtset + 1
  BY DEF AbinitInv, DatasetsInv, Progress
<1>4. n \in 0..(size - 1) /\ datasets[n] \in Input
  BY <1>1, <1>2, <1>3
<1> HIDE DEF key, n
<1>5. datasets' = [datasets EXCEPT ![n] = WithParam(datasets[n], key)]
  BY <1>2
<1>6. /\ datasets'[n].params[key].status = TRUE
      /\ datasets'[n].ions = datasets[n].ions
      /\ \A q \in Keys \ {key} : datasets'[n].params[q] = datasets[n].params[q]
  BY <1>1, <1>3, <1>4, <1>5 DEF WithParam, Input, Given
<1>7. \A i \in 0..(size - 1) : i # n => datasets'[i] = datasets[i]
  BY <1>3, <1>5
<1>8. \A i \in 0..ndtset : datasets'[i].ions = TRUE
  <2>1. \A i \in 0..ndtset : datasets[i].ions = TRUE
    BY DEF Progress
  <2> QED  BY <1>3, <1>4, <1>6, <1>7, <2>1
<1>9. ASSUME NEW j \in 1..k, cs[j].op \in {"set_param", "use_tol"}, IsSet(cs[j].n, cs[j].key)
      PROVE  IsSet(cs[j].n, cs[j].key)'
  <2>1. cs[j].key \in Keys /\ cs[j].n \in 0..(size - 1)
    <3>1. cs[j].key \in Keys /\ cs[j].n \in Nat
      BY <1>9, CommandAt
    <3>2. cs[j].n <= ndtset
      BY <1>9 DEF IsSet
    <3> QED  BY <1>3, <3>1, <3>2
  <2>2. CASE cs[j].n = n /\ cs[j].key = key
    BY <1>2, <1>6, <2>2 DEF IsSet
  <2>3. CASE cs[j].n = n /\ cs[j].key # key
    BY <1>2, <1>6, <1>9, <2>1, <2>3 DEF IsSet
  <2>4. CASE cs[j].n # n
    BY <1>2, <1>7, <1>9, <2>1, <2>4 DEF IsSet
  <2> QED  BY <2>2, <2>3, <2>4
<1>10. IsSet(n, key)'
  BY <1>2, <1>6 DEF IsSet
<1> QED
  BY <1>2, <1>3, <1>8, <1>9, <1>10, ProgressKept DEF key, n

LEMMA UseTolProgress ==
    ASSUME NEW cs, WellOrdered(cs), NEW k \in 0..(Len(cs) - 1), AbinitInv, Progress(cs, k),
           cs[k + 1].op = "use_tol", UseTol(cs[k + 1].key, cs[k + 1].n)
    PROVE  Progress(cs, k + 1)'
<1> DEFINE t == cs[k + 1].key
           n == cs[k + 1].n
<1>1. t \in Keys /\ n \in Nat /\ t \in Tols
  <2>1. k + 1 \in 1..(k + 1)
    OBVIOUS
  <2>2. cs[k + 1] \in Command
    BY <2>1, CommandAt
  <2> QED  BY <2>2, AbinitAssumption DEF Command, Keys
<1>2. /\ n < size
      /\ datasets' = [datasets EXCEPT ![n] = WithTol(@, t)]
      /\ ndtset' = ndtset
      /\ size' = size
  BY DEF UseTol
<1>3. ndtset \in Nat /\ size \in Nat /\ datasets \in [0..(size - 1) -> Input] /\ size = ndtset + 1
  BY DEF AbinitInv, DatasetsInv, Progress
<1>4. n \in 0..(size - 1) /\ datasets[n] \in Input
  BY <1>1, <1>2, <1>3
<1> HIDE DEF t, n
<1>5. datasets' = [datasets EXCEPT ![n] = WithTol(datasets[n], t)]
  BY <1>2
<1>6. /\ datasets'[n].params[t].status = TRUE
      /\ datasets'[n].ions = datasets[n].ions
      /\ \A q \in Keys \ Tols : datasets'[n].params[q] = datasets[n].params[q]
  BY <1>1, <1>3, <1>4, <1>5 DEF WithTol, Input, Given
<1>7. \A i \in 0..(size - 1) : i # n => datasets'[i] = datasets[i]
  BY <1>3, <1>5
<1>8. \A i \in 0..ndtset : datasets'[i].ions = TRUE
  <2>1. \A i \in 0..ndtset : datasets[i].ions = TRUE
    BY DEF Progress
  <2> QED  BY <1>3, <1>4, <1>6, <1>7, <2>1
<1>9. ASSUME NEW j \in 1..k, cs[j].op \in {"set_param", "use_tol"}, IsSet(cs[j].n, cs[j].key)
      PROVE  IsSet(cs[j].n, cs[j].key)' \/ (cs[j].key \in Tols /\ n = cs[j].n /\ t # cs[j].key)
  <2>1. cs[j].key \in Keys /\ cs[j].n \in 0..(size - 1)
    <3>1. cs[j].key \in Keys /\ cs[j].n \in Nat
      BY <1>9, CommandAt
    <3>2. cs[j].n <= ndtset
      BY <1>9 DEF IsSet
    <3> QED  BY <1>3, <3>1, <3>2
  <2>2. CASE cs[j].n = n /\ cs[j].key = t
    BY <1>2, <1>6, <1>9, <2>2 DEF IsSet
  <2>3. CASE cs[j].n = n /\ cs[j].key \notin Tols
    BY <1>2, <1>6, <1>9, <2>1, <2>3 DEF IsSet
  <2>4. CASE cs[j].n # n
    BY <1>2, <1>7, <1>9, <2>1, <2>4 DEF IsSet
  <2> QED  BY <2>2, <2>3, <2>4
<1>10. IsSet(n, t)'
  BY <1>2, <1>3, <1>4, <1>6 DEF IsSet
<1> QED
  BY <1>2, <1>3, <1>8, <1>9, <1>10, ProgressKept DEF t, n

(* New datasets are added to the first two, of which only dataset 0 is     *)
(* set; they come with their ions enabled.                                 *)
LEMMA SetNdtsetProgress ==
    ASSUME NEW cs, WellOrdered(cs), NEW k \in 0..(Len(cs) - 1), AbinitInv, Progress(cs, k),
           cs[k + 1].op = "set_ndtset", SetNdtset(cs[k + 1].n)
    PROVE  Progress(cs, k + 1)'
<1> DEFINE m == cs[k + 1].n
<1>1. Len(cs) \in Nat /\ k \in Nat /\ DOMAIN cs = 1..Len(cs) /\ k + 1 \in DOMAIN cs
  BY DEF WellOrdered
<1>2. m \in 1..MaxNdtset /\ m \in Nat /\ m >= 1
  <2>1. k + 1 \in 1..(k + 1)
    OBVIOUS
  <2>2. cs[k + 1] \in Command
    BY <2>1, CommandAt
  <2>3. m \in 1..MaxNdtset
    BY <2>2 DEF Command
  <2> QED  BY <2>3, AbinitAssumption
<1>3. \A j \in 1..k : cs[j].op # "set_ndtset" /\ cs[j].n = 0
  BY <1>1 DEF WellOrdered
<1>4. ndtset = 1 /\ size = 2 /\ datasets \in [0..1 -> Input]
  BY <1>3 DEF Progress, AbinitInv, DatasetsInv
<1>5. /\ ndtset' = m
      /\ size' = m + 1
      /\ datasets' = [i \in 0..m |-> IF i < 2 THEN datasets[i] ELSE NewInput(i)]
  BY <1>2, <1>4 DEF SetNdtset
<1> HIDE DEF m
<1>6. \A i \in 0..m : datasets'[i].ions = TRUE
  <2>1. \A i \in 0..1 : datasets[i].ions = TRUE
    BY <1>4 DEF Progress
  <2>2. \A i \in 0..m : NewInput(i).ions = TRUE
    BY DEF NewInput
  <2> QED  BY <1>2, <1>5, <2>1, <2>2
<1>7. datasets'[0] = datasets[0]
  BY <1>2, <1>5
<1>8. 1..(k + 1) = (1..k) \cup {k + 1}
  BY <1>1
<1>9. \A i \in 1..(k + 1) : cs[i].op = "set_ndtset" => ndtset' = cs[i].n
  BY <1>3, <1>5, <1>8 DEF m
<1>10. ~\A i \in 1..(k + 1) : cs[i].op # "set_ndtset"
  BY <1>8
<1>11. ASSUME NEW j \in 1..(k + 1), cs[j].op \in {"set_param", "use_tol"}
       PROVE  /\ cs[j].n <= ndtset'
              /\ SwitchedOffBy(cs, j, k + 1) \/ IsSet(cs[j].n, cs[j].key)'
  <2>1. j \in 1..k /\ cs[j].n = 0
    BY <1>3, <1>8, <1>11
  <2>2. SwitchedOffBy(cs, j, k) \/ IsSet(cs[j].n, cs[j].key)
    BY <1>11, <2>1 DEF Progress
  <2>3. SwitchedOffBy(cs, j, k) => SwitchedOffBy(cs, j, k + 1)
    BY <1>1, <2>1 DEF SwitchedOffBy
  <2>4. IsSet(cs[j].n, cs[j].key) => IsSet(cs[j].n, cs[j].key)'
    BY <1>2, <1>5, <1>7, <2>1 DEF IsSet
  <2> QED  BY <1>2, <1>5, <2>1, <2>2, <2>3, <2>4
<1>12. \A j \in 1..(k + 1) : SwitchedOffBy(cs, j, k + 1)' = SwitchedOffBy(cs, j, k + 1)
  BY DEF SwitchedOffBy
<1>13. size' = ndtset' + 1 /\ ndtset' >= 1 /\ \A i \in 0..ndtset' : datasets'[i].ions = TRUE
  BY <1>2, <1>5, <1>6
<1> QED
  BY <1>9, <1>10, <1>11, <1>12, <1>13 DEF Progress

(* A call that is about the structure or the pseudopotentials.             *)
LEMMA OtherProgress ==
    ASSUME NEW cs, WellOrdered(cs), NEW k \in 0..(Len(cs) - 1), AbinitInv, Progress(cs, k),
           cs[k + 1].op \notin {"set_param", "use_tol", "set_ndtset"},
           UNCHANGED <<ndtset, size, datasets>>
    PROVE  Progress(cs, k + 1)'
<1>1. ndtset' = ndtset /\ size' = size /\ datasets' = datasets /\ ndtset \in Nat
  BY DEF AbinitInv, DatasetsInv
<1>2. \A i \in 0..ndtset : datasets'[i].ions = TRUE
  BY <1>1 DEF Progress
<1>3. \A n, key : IsSet(n, key)' = IsSet(n, key)
  BY <1>1 DEF IsSet
<1> QED
  BY <1>1, <1>2, <1>3, ProgressKept

(* Every call of a command, where the calls before it have come to.        *)
LEMMA CallProgress ==
    ASSUME NEW cs, WellOrdered(cs), NEW k \in 0..(Len(cs) - 1), AbinitInv, Progress(cs, k),
           DoSetParam \/ DoUseTol \/ DoSetNdtset \/ DoSetPot \/ DoGetXyz,
           Head(todo) = cs[k + 1], ~exited'
    PROVE  Progress(cs, k + 1)'
<1>1. CASE DoSetParam
  BY <1>1, SetParamProgress DEF DoSetParam, Doing
<1>2. CASE DoUseTol
  BY <1>2, UseTolProgress DEF DoUseTol, Doing
<1>3. CASE DoSetNdtset
  BY <1>3, SetNdtsetProgress DEF DoSetNdtset, Doing
<1>4. CASE DoSetPot \/ DoGetXyz
  <2>1. cs[k + 1].op \in {"set_pot", "get_xyz"}
    BY <1>4 DEF DoSetPot, DoGetXyz, Doing
  <2>2. UNCHANGED <<ndtset, size, datasets>>
    BY <1>4 DEF DoSetPot, DoGetXyz, SetPot, GetXyz
  <2> QED  BY <2>1, <2>2, OtherProgress
<1> QED  BY <1>1, <1>2, <1>3, <1>4

LEMMA CallMakesNoDocument ==
    ASSUME DoSetParam \/ DoUseTol \/ DoSetNdtset \/ DoSetPot \/ DoGetXyz
    PROVE  /\ UNCHANGED <<abi, runs, calc, custom>>
           /\ todo # <<>>
           /\ todo' = Tail(todo)
           /\ ~exited
BY DEF DoSetParam, DoUseTol, DoSetNdtset, DoSetPot, DoGetXyz, Doing, Call, Exit,
       SetParam, UseTol, SetNdtset, SetPot, GetXyz

LEMMA CommandCalls ==
    ASSUME AbinitInv, TodoInv, CommandInv, calc # "script",
           DoSetParam \/ DoUseTol \/ DoSetNdtset \/ DoSetPot \/ DoGetXyz
    PROVE  CommandInv'
<1>1. PICK c \in Calcs, p \in Customs : calc = c /\ custom = p
  BY DEF TodoInv
<1> DEFINE cs == Commands(c, p)
           N == Len(cs)
<1>2. calc' = c /\ custom' = p /\ abi' = abi /\ runs' = runs /\ todo # <<>>
      /\ todo' = Tail(todo) /\ ~exited
  BY <1>1, CallMakesNoDocument
<1>3. WellOrdered(cs)
  BY CommandsWellOrdered
<1>4. runs = 0 /\ ~abi.ran
  BY <1>2 DEF CommandInv
<1>5. PICK k \in 0..N : todo = SubSeq(cs, k + 1, N) /\ Progress(cs, k)
  BY <1>1, <1>2, <1>4 DEF CommandInv
<1> HIDE DEF cs
<1>6. cs \in Seq(Command) /\ N \in Nat
  BY <1>3 DEF WellOrdered
<1>7. k < N
  <2>1. k = N => SubSeq(cs, k + 1, N) = <<>>
    BY <1>6
  <2> QED  BY <1>2, <1>5, <1>6, <2>1
<1>8. k \in 0..(N - 1) /\ k + 1 \in 0..N
  BY <1>6, <1>7
<1>9. Head(todo) = cs[k + 1] /\ Tail(todo) = SubSeq(cs, (k + 1) + 1, N)
  BY <1>5, <1>6, <1>8
<1>10. ~exited' => Progress(cs, k + 1)'
  BY <1>3, <1>5, <1>8, <1>9, CallProgress
<1>11. todo' = SubSeq(cs, (k + 1) + 1, N)
  BY <1>2, <1>9
<1>12. runs' = 0 /\ ~abi'.ran
  BY <1>2, <1>4
<1>13. SettingsReachInput'
  BY <1>12 DEF SettingsReachInput
<1> QED
  BY <1>2, <1>8, <1>10, <1>11, <1>12, <1>13 DEF CommandInv, cs

(* The run of a command, when all its calls are done.                      *)
LEMMA RunPrints ==
    ASSUME NEW cs, WellOrdered(cs), AbinitInv, Progress(cs, Len(cs)), Run \/ RunPhonopy,
           NEW j \in DOMAIN cs, cs[j].op \in {"set_param", "use_tol"},
           cs[j].key \notin Dfpt, ~SwitchedOff(cs, j)
    PROVE  [n |-> cs[j].n, key |-> cs[j].key] \in abi'.lines
<1> DEFINE n == cs[j].n
           key == cs[j].key
           inputs == WithoutSystem(datasets)
<1>1. cs \in Seq(Command) /\ Len(cs) \in Nat /\ j \in 1..Len(cs) /\ cs[j] \in Command
  BY DEF WellOrdered
<1>2. key \in Keys /\ n \in Nat
  BY <1>1, AbinitAssumption DEF Command, Keys
<1>3. IsSet(n, key)
  BY <1>1 DEF Progress, SwitchedOff, SwitchedOffBy
<1>4. n \in 0..ndtset /\ datasets[n].params[key].status = TRUE
  BY <1>2, <1>3 DEF IsSet, AbinitInv, DatasetsInv
<1>5. /\ datasets \in [0..(size - 1) -> Input]
      /\ n \in 0..(size - 1)
      /\ datasets[n].n = n
      /\ datasets[n].ions = TRUE
  BY <1>4 DEF AbinitInv, DatasetsInv, DatasetsInEffectExist, Progress
<1>6. /\ inputs[n].n = n
      /\ inputs[n].ions = TRUE
      /\ inputs[n].params = datasets[n].params
  <2>1. /\ inputs[n] \in {datasets[n], [datasets[n] EXCEPT !.system = FALSE]}
        /\ datasets[n] \in Input
    BY <1>5 DEF WithoutSystem
  <2> QED  BY <1>5, <2>1 DEF Input
<1>7. abi'.lines = UNION {Lines(inputs[i]) : i \in 0..ndtset}
  BY DEF Run, RunPhonopy, Document
<1> HIDE DEF inputs, n, key
<1>8. GroupEnabled(inputs[n], key)
  BY <1>6 DEF GroupEnabled, key
<1>9. [n |-> n, key |-> key] \in Lines(inputs[n])
  BY <1>2, <1>4, <1>6, <1>8 DEF Lines
<1> QED  BY <1>4, <1>7, <1>9 DEF n, key

LEMMA CommandRuns ==
    ASSUME AbinitInv, TodoInv, CommandInv, DoRun
    PROVE  CommandInv'
<1>1. calc # "script" /\ todo = <<>> /\ runs = 0 /\ (Run \/ RunPhonopy)
      /\ UNCHANGED <<calc, custom, todo>>
  BY DEF DoRun
<1>2. PICK c \in Calcs, p \in Customs : calc = c /\ custom = p
  BY <1>1 DEF TodoInv
<1> DEFINE cs == Commands(c, p)
           N == Len(cs)
<1>3. WellOrdered(cs)
  BY CommandsWellOrdered
<1>4. ~exited /\ runs' = runs + 1
  BY <1>1 DEF Run, RunPhonopy, Call
<1>5. PICK k \in 0..N : todo = SubSeq(cs, k + 1, N) /\ Progress(cs, k)
  BY <1>1, <1>2, <1>4 DEF CommandInv
<1> HIDE DEF cs
<1>6. cs \in Seq(Command) /\ N \in Nat
  BY <1>3 DEF WellOrdered
<1>7. k = N
  <2> HIDE DEF N
  <2>1. ASSUME k < N PROVE SubSeq(cs, k + 1, N) # <<>>
    <3>1. Len(SubSeq(cs, k + 1, N)) = N - k
      BY <1>6, <2>1
    <3>2. \A s : s = <<>> => Len(s) = 0
      OBVIOUS
    <3>3. N - k # 0
      BY <1>6, <2>1
    <3> QED  BY <3>1, <3>2, <3>3
  <2>2. ~(k < N)
    BY <1>1, <1>5, <2>1
  <2> QED  BY <1>6, <2>2
<1>8. ASSUME NEW j \in DOMAIN cs, cs[j].op \in {"set_param", "use_tol"},
             cs[j].key \notin Dfpt, ~SwitchedOff(cs, j)
      PROVE  [n |-> cs[j].n, key |-> cs[j].key] \in abi'.lines
  BY <1>1, <1>3, <1>5, <1>7, <1>8, RunPrints
<1>9. SettingsReachInput'
  BY <1>1, <1>2, <1>8 DEF SettingsReachInput, cs
<1>10. runs' # 0 /\ todo' = <<>>
  BY <1>1, <1>4
<1> QED  BY <1>9, <1>10 DEF CommandInv

LEMMA CommandNext ==
    AbinitInv /\ TodoInv /\ CommandInv /\ [CliNext]_cliVars => CommandInv'
<1> SUFFICES ASSUME AbinitInv, TodoInv, CommandInv, [CliNext]_cliVars PROVE CommandInv'
  OBVIOUS
<1>1. CASE calc = "script"
  <2>1. calc' = "script"
    BY <1>1 DEF CliNext, cliVars, Scripted, DoSetParam, DoUseTol, DoSetNdtset, DoSetPot,
                DoGetXyz, DoRun, Doing
  <2> QED  BY <2>1 DEF CommandInv
<1>2. CASE calc # "script" /\ (DoSetParam \/ DoUseTol \/ DoSetNdtset \/ DoSetPot \/ DoGetXyz)
  BY <1>2, CommandCalls
<1>3. CASE DoRun
  BY <1>3, CommandRuns
<1>4. CASE UNCHANGED cliVars
  <2>1. /\ UNCHANGED <<abi, runs, exited, calc, custom, todo>>
        /\ UNCHANGED <<ndtset, size, datasets>>
    BY <1>4 DEF cliVars, vars
  <2>2. \A cs, k : Progress(cs, k)' = Progress(cs, k)
    BY <2>1 DEF Progress, IsSet, SwitchedOffBy
  <2>3. SettingsReachInput' = SettingsReachInput
    BY <2>1 DEF SettingsReachInput
  <2> QED  BY <2>1, <2>2, <2>3 DEF CommandInv
<1> QED
  BY <1>1, <1>2, <1>3, <1>4 DEF CliNext, Scripted

LEMMA CommandStarts == CliInit => CommandInv
<1> SUFFICES ASSUME CliInit, CommandInit PROVE CommandInv
  BY DEF CliInit, ScriptInit, CommandInv
<1>1. PICK c \in Calcs, p \in Customs : calc = c /\ custom = p
  BY DEF CommandInit
<1> DEFINE cs == Commands(c, p)
           N == Len(cs)
<1>2. WellOrdered(cs) /\ todo = cs
  BY <1>1, CommandsWellOrdered DEF CommandInit
<1>3. runs = 0 /\ abi = NoDocument /\ ndtset = 1 /\ size = 2
  BY DEF CliInit, Init
<1>4. \A i \in 0..1 : datasets[i].ions = TRUE
  BY DEF CliInit, Init, NewInput, WithTol
<1> HIDE DEF cs
<1>5. Progress(cs, 0)
  <2>1. 1..0 = {}
    OBVIOUS
  <2> QED  BY <1>3, <1>4, <2>1 DEF Progress
<1>6. 0 \in 0..N /\ todo = SubSeq(cs, 0 + 1, N)
  BY <1>2 DEF WellOrdered
<1>7. ~abi.ran
  BY <1>3 DEF NoDocument
<1>8. SettingsReachInput
  BY <1>7 DEF SettingsReachInput
<1> QED  BY <1>1, <1>3, <1>5, <1>6, <1>7, <1>8 DEF CommandInv, cs

(* Whatever --calc, --custom, the structure and the pseudopotentials are:  *)
(* the input that abinit_processor writes has every keyword that the class *)
(* or --custom set, for the dataset it was set for, unless a later use_tol *)
(* switched it off or the dfpt group holds it.  The inductive invariant    *)
(* says how far the calls are done and what they have left in the          *)
(* datasets: it needs that a class makes its datasets before it sets them  *)
(* (CommandsWellOrdered) and that the groups are all enabled until run().  *)
THEOREM CommandsReachInput == CliSpec => []SettingsReachInput
<1>1. CommandInv => SettingsReachInput
  BY DEF CommandInv, SettingsReachInput
<1>2. AbinitInv /\ [CliNext]_cliVars /\ TodoInv /\ CommandInv => CommandInv'
  BY CommandNext
<1> QED
  BY <1>1, <1>2, CommandStarts, TodoInit, TodoNext, UsersMakeCalls, Invariance, PTL DEF CliSpec
=============================================================================
