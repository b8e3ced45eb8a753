------------------------- MODULE RunScriptsProofs -------------------------
EXTENDS RunScripts, RecursionLemmas, SequenceTheorems, TLAPS
-----------------------------------------------------------------------------
(* The scripts of all calculators, for any number of supercells and of     *)
(* executions, with any command failing.                                   *)
(*                                                                         *)
(* The invariants do not go script by script.  Lawful says once what       *)
(* the scripts share: which commands they are made of, that each finds     *)
(* what it needs among what the earlier ones give, that the loop over the  *)
(* directories is the last command, and that outputs are given.            *)
(* ScriptsAreLawful shows it of every script of Steps; nothing after it    *)
(* looks at a single script.  The invariants are about an execution of a   *)
(* lawful script:                                                          *)
(*   FormInv   what is still to be executed is the rest of the script,     *)
(*             with the current loop unrolled in its place, and a file     *)
(*             made from a supercell belongs to this one;                  *)
(*   LeaveInv  which directories there are and which one the script is in; *)
(*   CleanInv  while no command failed, the rest of the script finds what  *)
(*             it needs among the files of this execution, or makes it.    *)

-----------------------------------------------------------------------------
(* What the scripts of this program are made of. *)

(* The files that are written for phonopy and the programs, and those that *)
(* phonopy writes.                                                         *)
InputNames ==
    {"inp", "orca.inp", "input", "nwchem.nw", "gaussian.gjf", "elk.in", "xtb.inp",
     "gamessus.inp", "DALTON.INP", "qchem.inp", "pseudo", "abinit.abi", "INCAR",
     "KPOINTS", "POSCAR", "POTCAR", "images", "part-1", "fdf", "run-input"}
Displaced == {"POSCAR-", "supercell"}

(* A file with one of these names and a number has that supercell in it.   *)
Main == Displaced \cup {"POSCAR", "abinit.abi", "fdf", "run-input"}

(* The supercell of a file, 0 for none. *)
Supercell(f) == IF f[3] # 0 THEN f[3] ELSE f[1]

PlainRef(p) == p.dir \in {"here", "work"} /\ p.name \in InputNames /\ p.of = 0
NumberedRef(p) == p.dir = "here" /\ p.name \in Displaced \cup {"run-input"} /\ p.of = Each

(* The commands of a script outside of its loops ... *)
IsCommand(c) ==
    c = [op |-> c.op, reads |-> c.reads, writes |-> c.writes, mode |-> c.mode,
         body |-> c.body, item |-> c.item]

(* ... in a loop over files ... *)
InLoop(c, appends) ==
    /\ IsCommand(c) /\ c.item = 0
    /\ \A p \in c.reads : (p.dir = "here" /\ PlainRef(p)) \/ NumberedRef(p)
    /\ c.op # "mkdir" => \/ c.writes.dir = "item" /\ c.writes.of = 0
                         \/ c.writes.dir = "here" /\ c.writes.of = Each
    /\ \/ c.op = "mkdir"
       \/ /\ c.op \in {"cat", "cp"} /\ c.mode = "new" /\ c.writes.name \in InputNames
          /\ c.writes.name \in Main => \E p \in c.reads : NumberedRef(p)
       \/ c.op = "doc" /\ c.mode = "append" /\ c.reads = {} /\ c.writes.name \in InputNames
       \/ /\ c.op = "program" /\ (c.mode = "new" \/ appends) /\ c.writes.name \in OutputNames
          /\ c.writes.dir = "here" /\ \E p \in c.reads : NumberedRef(p)

(* ... and a program, which reads what is in its directory. *)
IsProgram(c, appends) ==
    /\ IsCommand(c) /\ c.item = 0
    /\ c.op = "program" /\ (c.mode = "new" \/ appends)
    /\ c.reads # {} /\ \A p \in c.reads : p.dir = "here" /\ PlainRef(p)
    /\ c.writes.dir = "here" /\ c.writes.of = 0 /\ c.writes.name \in OutputNames

InDirs(c) == c.op = "for" /\ c.writes.name = "run-supercell"
Makes(c) == c.op = "mkdir" \/ (c.op = "for" /\ c.body[1].op = "mkdir")

DirLoop(c, appends) ==
    /\ InDirs(c) /\ c.reads = {}
    /\ Len(c.body) = 3 /\ DOMAIN c.body = 1..3
    /\ c.body[1] = Cd("item") /\ c.body[3] = Cd("up")
    /\ IsProgram(c.body[2], appends)
    /\ \E p \in c.body[2].reads : p.name \in Main

FileLoop(c, appends, pattern) ==
    /\ c.op = "for" /\ c.writes.name \in {pattern, "run-input"} /\ c.reads = {}
    /\ Len(c.body) \in Nat \ {0} /\ DOMAIN c.body = 1..Len(c.body)
    /\ \A k \in DOMAIN c.body :
        /\ InLoop(c.body[k], appends)
        /\ c.body[k].op = "mkdir" => k = 1 /\ c.writes.name = pattern
        /\ c.body[k].op = "doc" =>
               \E l \in 1..k - 1 : c.body[l].op = "cat" /\ c.body[l].writes = c.body[k].writes

PhonopyIn(s) == \E j \in DOMAIN s : s[j].op = "phonopy"

Listed(c, phonopy, appends, pattern) ==
    /\ IsCommand(c) /\ c.item = 0
    /\ \/ c.op = "cd" /\ c.mode = "work" /\ c.reads = {}
       \/ c.op \in {"doc", "fetch"} /\ c.mode = "new" /\ c.reads = {} /\ PlainRef(c.writes)
       \/ /\ c.op = "phonopy" /\ c.writes = Here(pattern)
          /\ \A p \in c.reads : p.dir = "here" /\ PlainRef(p)
       \/ ~ phonopy /\ IsProgram(c, appends)
       \/ DirLoop(c, appends)
       \/ FileLoop(c, appends, pattern)

-----------------------------------------------------------------------------
(* What a command needs and what it gives. *)

(* Resolve, from the directory d. *)
At(d, path, i) ==
    <<CASE path.dir = "here" -> d
        [] path.dir = "work" -> Work
        [] path.dir = "item" -> IF d = Work THEN i ELSE Above,
      path.name,
      IF path.of = Each THEN i ELSE path.of>>

(* The command of a loop's body for the item i. *)
Of(c, i) == [c EXCEPT !.item = i]
Body(c, i) == [k \in DOMAIN c.body |-> Of(c.body[k], i)]

(* A directory is a path without a name. *)
Directory(i) == <<i, "", 0>>

(* What a simple command needs to succeed with files of this execution,    *)
(* and gives the commands after it.  Nothing is needed for the literal     *)
(* pattern.                                                                *)
SimpleNeeds(c) ==
    IF c.item = Star THEN {}
    ELSE {At(Work, p, c.item) : p \in c.reads}
         \cup (IF c.op = "doc" /\ c.mode = "append" THEN {At(Work, c.writes, c.item)} ELSE {})

SimpleGives(c, n) ==
    IF c.item = Star \/ c.op = "cd" THEN {}
    ELSE IF c.op = "phonopy" THEN {<<Work, c.writes.name, i>> : i \in 1..n}
    ELSE IF c.op = "mkdir" THEN {Directory(c.item)}
    ELSE {At(Work, c.writes, c.item)}

Needs(c, n) ==
    IF InDirs(c)
    THEN UNION {{Directory(i)} \cup {At(i, p, i) : p \in c.body[2].reads} : i \in 1..n}
    ELSE IF c.op = "for"
    THEN UNION {{<<Work, c.writes.name, i>>}
                \cup UNION {{At(Work, p, i) : p \in c.body[k].reads} : k \in DOMAIN c.body} : i \in 1..n}
    ELSE SimpleNeeds(c)

Gives(c, n) ==
    IF InDirs(c) THEN {<<i, c.body[2].writes.name, 0>> : i \in 1..n}
    ELSE IF c.op = "for"
    THEN UNION {UNION {SimpleGives(Of(c.body[k], i), n) : k \in DOMAIN c.body} : i \in 1..n}
    ELSE SimpleGives(c, n)

Given(t, n) == UNION {Gives(t[j], n) : j \in DOMAIN t}

(* Every command of t finds what it needs in H, or an earlier one of t     *)
(* gives it.                                                               *)
ReadyTo(t, H, n) ==
    \A j \in DOMAIN t : Needs(t[j], n) \subseteq H \cup UNION {Gives(t[l], n) : l \in 1..j - 1}

Ordered(s) ==
    \A j \in DOMAIN s :
        /\ InDirs(s[j]) => j = Len(s) /\ \E l \in 1..j - 1 : Makes(s[l])
        /\ s[j].op = "phonopy" => \A l \in 1..j : s[l].op # "for"

HasOutputs(s, n) ==
    IF PhonopyIn(s)
    THEN \A i \in 1..n : \E q \in Given(s, n) : q[2] \in OutputNames /\ Supercell(q) = i
    ELSE \E q \in Given(s, n) : q[2] \in OutputNames

Appending(x) == x \in {"cp2k", "neb", "cp2k_phonopy"}
Pattern(x) == IF x = "vasp_phonopy" THEN "POSCAR-" ELSE "supercell"

Lawful(s, appends, pattern, n) ==
    /\ \A j \in DOMAIN s : Listed(s[j], PhonopyIn(s), appends, pattern)
    /\ Ordered(s)
    /\ ReadyTo(s, {}, n)
    /\ HasOutputs(s, n)

-----------------------------------------------------------------------------
(* The commands. *)
LEMMA RefIs ==
  ASSUME NEW name
  PROVE  /\ Here(name).dir = "here" /\ Here(name).name = name /\ Here(name).of = 0
         /\ InWork(name).dir = "work" /\ InWork(name).name = name /\ InWork(name).of = 0
         /\ InItem(name).dir = "item" /\ InItem(name).name = name /\ InItem(name).of = 0
         /\ HereOf(name).dir = "here" /\ HereOf(name).name = name /\ HereOf(name).of = Each
  BY DEF Here, InWork, InItem, HereOf

(* The fields of a command. *)
LEMMA CommandIs ==
  ASSUME NEW op, NEW reads, NEW writes, NEW mode, NEW body,
         NEW c, c = Command(op, reads, writes, mode, body)
  PROVE  /\ IsCommand(c)
         /\ c.op = op /\ c.reads = reads /\ c.writes = writes /\ c.mode = mode
         /\ c.body = body /\ c.item = 0
  BY DEF Command, IsCommand

(* A command of a body for an item differs from it in the item. *)
LEMMA OfIs ==
  ASSUME NEW c, IsCommand(c), NEW i
  PROVE  /\ Of(c, i).op = c.op /\ Of(c, i).reads = c.reads /\ Of(c, i).writes = c.writes
         /\ Of(c, i).mode = c.mode /\ Of(c, i).body = c.body /\ Of(c, i).item = i
         /\ IsCommand(Of(c, i))
  BY DEF IsCommand, Of

(* Inputs, outputs and what phonopy writes have different names. *)
LEMMA NamesDiffer ==
  /\ InputNames \cap OutputNames = {}
  /\ InputNames \cap Displaced = {}
  /\ Displaced \cap OutputNames = {}
  /\ "" \notin InputNames \cup OutputNames \cup Displaced
  /\ "run-supercell" \notin InputNames \cup Displaced
  /\ "run-input" \in InputNames
  /\ Main \subseteq InputNames \cup Displaced
  BY DEF InputNames, OutputNames, Displaced, Main

(* The commands before a program are commands of a script. *)
LEMMA ListedCommands ==
  ASSUME NEW phonopy, NEW appends, NEW pattern
  PROVE  /\ Listed(Cd("work"), phonopy, appends, pattern)
         /\ \A name \in InputNames : /\ Listed(Doc(Here(name)), phonopy, appends, pattern)
                                     /\ Listed(Fetch(Here(name)), phonopy, appends, pattern)
                                     /\ Listed(Fetch(InWork(name)), phonopy, appends, pattern)
                                     /\ Listed(Phonopy(name, pattern), phonopy, appends, pattern)
<1>1. Listed(Cd("work"), phonopy, appends, pattern)
  BY CommandIs DEF Cd, Listed
<1>2. ASSUME NEW name \in InputNames
      PROVE  /\ Listed(Doc(Here(name)), phonopy, appends, pattern)
             /\ Listed(Fetch(Here(name)), phonopy, appends, pattern)
             /\ Listed(Fetch(InWork(name)), phonopy, appends, pattern)
             /\ Listed(Phonopy(name, pattern), phonopy, appends, pattern)
  <2>1. ASSUME NEW p, PlainRef(p), NEW c, c \in {Doc(p), Fetch(p)}
        PROVE  Listed(c, phonopy, appends, pattern)
    BY <2>1, CommandIs DEF Doc, Fetch, Listed
  <2>2. PlainRef(Here(name)) /\ PlainRef(InWork(name)) /\ Here(name).dir = "here"
    BY RefIs DEF PlainRef
  <2>3. Listed(Phonopy(name, pattern), phonopy, appends, pattern)
    BY <2>2, CommandIs DEF Phonopy, Listed
  <2> QED
    BY <2>1, <2>2, <2>3
<1> QED
  BY <1>1, <1>2

(* A program that reads input files of its directory. *)
LEMMA ProgramIs ==
  ASSUME NEW names \in SUBSET InputNames, names # {}, NEW reads,
         reads = {Here(name) : name \in names},
         NEW out \in OutputNames, NEW appends, NEW mode, mode = "new" \/ (mode = "append" /\ appends),
         NEW c, c = Program(reads, Here(out), mode)
  PROVE  IsProgram(c, appends)
<1>1. \A p \in reads : p.dir = "here" /\ PlainRef(p)
  BY RefIs DEF PlainRef
<1>2. reads # {}
  OBVIOUS
<1>3. /\ IsCommand(c) /\ c.item = 0 /\ c.op = "program" /\ c.mode = mode
      /\ c.reads = reads /\ c.writes = Here(out)
  BY CommandIs DEF Program
<1>4. c.writes.dir = "here" /\ c.writes.of = 0 /\ c.writes.name \in OutputNames
  BY <1>3, RefIs
<1>5. c.mode = "new" \/ appends
  BY <1>3
<1>6. c.reads # {} /\ \A p \in c.reads : p.dir = "here" /\ PlainRef(p)
  BY <1>1, <1>2, <1>3
<1> QED
  BY <1>3, <1>4, <1>5, <1>6 DEF IsProgram

-----------------------------------------------------------------------------
(* What they need and give. *)
LEMMA PlainAt ==
  ASSUME NEW p, PlainRef(p), NEW i
  PROVE  At(Work, p, i) = <<Work, p.name, 0>>
  BY DEF PlainRef, At, Each

(* A command outside of the loops gives the one file it writes ... *)
LEMMA PlainGives ==
  ASSUME NEW c, c.item = 0, c.op \in {"doc", "fetch", "program"}, PlainRef(c.writes) \/ (c.writes.dir = "here" /\ c.writes.of = 0),
         NEW n
  PROVE  Gives(c, n) = {<<Work, c.writes.name, 0>>}
<1>1. 0 # Star
  BY ScriptAssumption DEF Star
<1>2. At(Work, c.writes, 0) = <<Work, c.writes.name, 0>>
  BY DEF PlainRef, At, Each
<1> QED
  BY <1>1, <1>2 DEF Gives, InDirs, SimpleGives

(* ... and needs the ones it reads. *)
LEMMA PlainNeeds ==
  ASSUME NEW c, c.item = 0, c.op # "for", c.mode # "append" \/ c.op # "doc",
         \A p \in c.reads : PlainRef(p), NEW n
  PROVE  Needs(c, n) = {<<Work, p.name, 0>> : p \in c.reads}
<1>1. 0 # Star
  BY ScriptAssumption DEF Star
<1>2. {At(Work, p, 0) : p \in c.reads} = {<<Work, p.name, 0>> : p \in c.reads}
  BY PlainAt
<1> QED
  BY <1>1, <1>2 DEF Needs, InDirs, SimpleNeeds

(* A script without a loop: the inputs, then the program. *)
Prepares(c) ==
    \/ c = Cd("work")
    \/ \E name \in InputNames : c \in {Doc(Here(name)), Fetch(Here(name)), Fetch(InWork(name))}

(* What prepares a calculation needs nothing. *)
LEMMA PreparesIs ==
  ASSUME NEW c, Prepares(c)
  PROVE  /\ \A phonopy, appends, pattern : Listed(c, phonopy, appends, pattern)
         /\ c.op \in {"cd", "doc", "fetch"} /\ c.item = 0 /\ c.reads = {} /\ c.mode # "append"
         /\ c.op # "cd" => PlainRef(c.writes)
<1>1. CASE c = Cd("work")
  BY <1>1, ListedCommands, CommandIs DEF Cd
<1>2. CASE \E name \in InputNames : c \in {Doc(Here(name)), Fetch(Here(name)), Fetch(InWork(name))}
  <2>1. PICK name \in InputNames : c \in {Doc(Here(name)), Fetch(Here(name)), Fetch(InWork(name))}
    BY <1>2
  <2>2. \E p : c \in {Doc(p), Fetch(p)} /\ PlainRef(p)
    BY <2>1, RefIs DEF PlainRef
  <2>3. c.op \in {"doc", "fetch"} /\ c.item = 0 /\ c.reads = {} /\ c.mode = "new" /\ PlainRef(c.writes)
    BY <2>2, CommandIs DEF Doc, Fetch
  <2>4. \A phonopy, appends, pattern : Listed(c, phonopy, appends, pattern)
    BY <2>1, ListedCommands
  <2> QED
    BY <2>3, <2>4
<1> QED
  BY <1>1, <1>2 DEF Prepares

(* A script without loops is lawful when its programs read what was written before. *)
LEMMA PlainScript ==
  ASSUME NEW s, NEW m \in Nat, DOMAIN s = 1..m, m >= 1,
         NEW appends, NEW pattern, NEW n \in Nat,
         \A j \in 1..m : Prepares(s[j]) \/ IsProgram(s[j], appends),
         \A j \in 1..m : IsProgram(s[j], appends) =>
             \A p \in s[j].reads : \E l \in 1..j - 1 : Prepares(s[l]) /\ s[l].op # "cd" /\ s[l].writes.name = p.name,
         IsProgram(s[m], appends)
  PROVE  Lawful(s, appends, pattern, n)
<1>1. ~ PhonopyIn(s)
  <2>1. \A j \in 1..m : s[j].op # "phonopy"
    BY PreparesIs DEF IsProgram
  <2> QED
    BY <2>1 DEF PhonopyIn
<1>2. \A j \in 1..m : Listed(s[j], PhonopyIn(s), appends, pattern)
  <2>1. ASSUME NEW c, IsProgram(c, appends) PROVE Listed(c, PhonopyIn(s), appends, pattern)
    BY <1>1, <2>1 DEF Listed, IsProgram
  <2> QED
    BY <2>1, PreparesIs
<1>3. Ordered(s)
  <2>1. \A j \in 1..m : s[j].op # "for" /\ s[j].op # "phonopy"
    BY PreparesIs DEF IsProgram
  <2> QED
    BY <2>1 DEF Ordered, InDirs
<1>4. ReadyTo(s, {}, n)
  <2> SUFFICES ASSUME NEW j \in 1..m
               PROVE  Needs(s[j], n) \subseteq UNION {Gives(s[l], n) : l \in 1..j - 1}
    BY DEF ReadyTo
  <2>1. CASE Prepares(s[j])
    <3>1. s[j].op # "for" /\ s[j].item = 0 /\ s[j].reads = {} /\ s[j].mode # "append"
      BY <2>1, PreparesIs
    <3>2. Needs(s[j], n) = {<<Work, p.name, 0>> : p \in s[j].reads}
      BY <3>1, PlainNeeds
    <3> QED
      BY <3>1, <3>2
  <2>2. CASE IsProgram(s[j], appends)
    <3>1. s[j].op = "program" /\ s[j].item = 0 /\ \A p \in s[j].reads : PlainRef(p)
      BY <2>2 DEF IsProgram
    <3>2. Needs(s[j], n) = {<<Work, p.name, 0>> : p \in s[j].reads}
      BY <3>1, PlainNeeds
    <3>3. ASSUME NEW p \in s[j].reads
          PROVE  \E l \in 1..j - 1 : <<Work, p.name, 0>> \in Gives(s[l], n)
      <4>1. PICK l \in 1..j - 1 : Prepares(s[l]) /\ s[l].op # "cd" /\ s[l].writes.name = p.name
        BY <2>2
      <4>2. Gives(s[l], n) = {<<Work, s[l].writes.name, 0>>}
        BY <4>1, PreparesIs, PlainGives
      <4> QED
        BY <4>1, <4>2
    <3> QED
      BY <3>2, <3>3
  <2> QED
    BY <2>1, <2>2
<1>5. HasOutputs(s, n)
  <2>1. s[m].op = "program" /\ s[m].item = 0 /\ s[m].writes.dir = "here" /\ s[m].writes.of = 0 /\ s[m].writes.name \in OutputNames
    BY DEF IsProgram
  <2>2. Gives(s[m], n) = {<<Work, s[m].writes.name, 0>>}
    BY <2>1, PlainGives
  <2>3. m \in DOMAIN s
    OBVIOUS
  <2>4. <<Work, s[m].writes.name, 0>> \in Given(s, n)
    BY <2>2, <2>3 DEF Given
  <2> QED
    BY <1>1, <2>1, <2>4 DEF HasOutputs
<1> QED
  BY <1>2, <1>3, <1>4, <1>5 DEF Lawful

(* Input files, then one program that reads them. *)
LEMMA InputsThenProgram ==
  ASSUME NEW s, NEW m \in Nat, DOMAIN s = 1..m, m >= 1,
         NEW appends, NEW pattern, NEW n \in Nat,
         NEW names \in SUBSET InputNames, names # {},
         NEW out \in OutputNames, NEW mode, mode = "new" \/ (mode = "append" /\ appends),
         s[m] = Program({Here(name) : name \in names}, Here(out), mode),
         \A j \in 1..m - 1 : Prepares(s[j]),
         \A name \in names : \E l \in 1..m - 1 :
             s[l] \in {Doc(Here(name)), Fetch(Here(name)), Fetch(InWork(name))}
  PROVE  Lawful(s, appends, pattern, n)
<1>1. IsProgram(s[m], appends)
  BY ProgramIs
<1>2. \A j \in 1..m : j = m \/ j \in 1..m - 1
  OBVIOUS
<1>3. \A j \in 1..m - 1 : ~ IsProgram(s[j], appends)
  BY PreparesIs DEF IsProgram
<1>4. s[m].reads = {Here(name) : name \in names}
  BY CommandIs DEF Program
<1>5. ASSUME NEW p \in s[m].reads
      PROVE  \E l \in 1..m - 1 : Prepares(s[l]) /\ s[l].op # "cd" /\ s[l].writes.name = p.name
  <2>1. PICK name \in names : p = Here(name)
    BY <1>4
  <2>2. PICK l \in 1..m - 1 : s[l] \in {Doc(Here(name)), Fetch(Here(name)), Fetch(InWork(name))}
    OBVIOUS
  <2>3. \E q : s[l] \in {Doc(q), Fetch(q)} /\ q.name = name
    BY <2>2, RefIs
  <2>4. s[l].op # "cd" /\ s[l].writes.name = name
    BY <2>3, CommandIs DEF Doc, Fetch
  <2> QED
    BY <2>1, <2>2, <2>4, RefIs
<1>6. \A j \in 1..m : Prepares(s[j]) \/ IsProgram(s[j], appends)
  BY <1>1, <1>2
<1>7. \A j \in 1..m : IsProgram(s[j], appends) =>
             \A p \in s[j].reads : \E l \in 1..j - 1 : Prepares(s[l]) /\ s[l].op # "cd" /\ s[l].writes.name = p.name
  BY <1>2, <1>3, <1>5
<1> QED
  BY <1>1, <1>6, <1>7, PlainScript

(* The scripts of one input and one program, of fourteen calculators. *)
LEMMA SingleLawful ==
  ASSUME NEW input \in InputNames, NEW out \in OutputNames, NEW appends, NEW pattern, NEW n \in Nat
  PROVE  Lawful(SingleStep(input, out), appends, pattern, n)
<1> DEFINE s == SingleStep(input, out)
           names == {input}
           m == 3
           mode == "new"
<1>1. /\ DOMAIN s = 1..m /\ s[1] = Cd("work") /\ s[2] = Doc(Here(input))
      /\ s[m] = Program({Here(name) : name \in names}, Here(out), mode)
  BY DEF SingleStep
<1>2. names \in SUBSET InputNames /\ names # {} /\ \A name \in names : name = input
  OBVIOUS
<1>3. \A j \in 1..m - 1 : Prepares(s[j])
  <2>1. \A j \in 1..3 - 1 : j \in {1, 2}
    OBVIOUS
  <2> HIDE DEF s
  <2> QED
    BY <1>1, <2>1 DEF Prepares
<1>4. \A name \in names : \E l \in 1..m - 1 :
             s[l] \in {Doc(Here(name)), Fetch(Here(name)), Fetch(InWork(name))}
  BY <1>1, <1>2
<1>5. m \in Nat /\ m >= 1 /\ mode = "new"
  OBVIOUS
<1> HIDE DEF s, names, m, mode
<1>6. Lawful(s, appends, pattern, n)
  BY <1>1, <1>2, <1>3, <1>4, <1>5, InputsThenProgram
<1> QED
  BY <1>6 DEF s

(* The scripts that write several inputs, of PWscf ... *)
LEMMA PwScfLawful ==
  ASSUME NEW appends, NEW pattern, NEW n \in Nat
  PROVE  Lawful(PwScf, appends, pattern, n)
<1> DEFINE s == PwScf
           names == {"input", "pseudo"}
           m == 4
           out == "output"
           mode == "new"
<1>1. /\ DOMAIN s = 1..m
      /\ s[1] = Cd("work")
      /\ s[2] = Doc(Here("input"))
      /\ s[3] = Fetch(InWork("pseudo"))
      /\ s[m] = Program({Here(name) : name \in names}, Here(out), mode)
  BY DEF PwScf
<1>2. /\ names \in SUBSET InputNames /\ names # {} /\ out \in OutputNames
      /\ m \in Nat /\ m >= 1 /\ (mode = "new" \/ (mode = "append" /\ appends))
  BY DEF InputNames, OutputNames
<1>3. \A name \in names : \E l \in 1..m - 1 :
             s[l] \in {Doc(Here(name)), Fetch(Here(name)), Fetch(InWork(name))}
  <2>1. {1, 2, 3} \subseteq 1..m - 1
    OBVIOUS
  <2> HIDE DEF s
  <2> QED
    BY <1>1, <2>1
<1>4. \A j \in 1..m - 1 : Prepares(s[j])
  <2>1. 1..m - 1 = {1, 2, 3}
    OBVIOUS
  <2>2. {"input", "pseudo"} \subseteq InputNames
    BY <1>2
  <2> HIDE DEF s, m, names
  <2> QED
    BY <1>1, <2>1, <2>2 DEF Prepares
<1> HIDE DEF s, names, m, out, mode
<1>5. Lawful(s, appends, pattern, n)
  BY <1>1, <1>2, <1>3, <1>4, InputsThenProgram
<1> QED
  BY <1>5 DEF s

(* ... of SIESTA ... *)
LEMMA SiestaLawful ==
  ASSUME NEW appends, NEW pattern, NEW n \in Nat
  PROVE  Lawful(Siesta, appends, pattern, n)
<1> DEFINE s == Siesta
           names == {"input", "pseudo"}
           m == 4
           out == "output"
           mode == "new"
<1>1. /\ DOMAIN s = 1..m
      /\ s[1] = Cd("work")
      /\ s[2] = Doc(Here("input"))
      /\ s[3] = Fetch(Here("pseudo"))
      /\ s[m] = Program({Here(name) : name \in names}, Here(out), mode)
  BY DEF Siesta
<1>2. /\ names \in SUBSET InputNames /\ names # {} /\ out \in OutputNames
      /\ m \in Nat /\ m >= 1 /\ (mode = "new" \/ (mode = "append" /\ appends))
  BY DEF InputNames, OutputNames
<1>3. \A name \in names : \E l \in 1..m - 1 :
             s[l] \in {Doc(Here(name)), Fetch(Here(name)), Fetch(InWork(name))}
  <2>1. {1, 2, 3} \subseteq 1..m - 1
    OBVIOUS
  <2> HIDE DEF s
  <2> QED
    BY <1>1, <2>1
<1>4. \A j \in 1..m - 1 : Prepares(s[j])
  <2>1. 1..m - 1 = {1, 2, 3}
    OBVIOUS
  <2>2. {"input", "pseudo"} \subseteq InputNames
    BY <1>2
  <2> HIDE DEF s, m, names
  <2> QED
    BY <1>1, <2>1, <2>2 DEF Prepares
<1> HIDE DEF s, names, m, out, mode
<1>5. Lawful(s, appends, pattern, n)
  BY <1>1, <1>2, <1>3, <1>4, InputsThenProgram
<1> QED
  BY <1>5 DEF s

(* ... of Abinit ... *)
LEMMA AbinitLawful ==
  ASSUME NEW appends, NEW pattern, NEW n \in Nat
  PROVE  Lawful(Abinit, appends, pattern, n)
<1> DEFINE s == Abinit
           names == {"abinit.abi", "pseudo"}
           m == 4
           out == "own"
           mode == "new"
<1>1. /\ DOMAIN s = 1..m
      /\ s[1] = Cd("work")
      /\ s[2] = Doc(Here("abinit.abi"))
      /\ s[3] = Fetch(Here("pseudo"))
      /\ s[m] = Program({Here(name) : name \in names}, Here(out), mode)
  BY DEF Abinit
<1>2. /\ names \in SUBSET InputNames /\ names # {} /\ out \in OutputNames
      /\ m \in Nat /\ m >= 1 /\ (mode = "new" \/ (mode = "append" /\ appends))
  BY DEF InputNames, OutputNames
<1>3. \A name \in names : \E l \in 1..m - 1 :
             s[l] \in {Doc(Here(name)), Fetch(Here(name)), Fetch(InWork(name))}
  <2>1. {1, 2, 3} \subseteq 1..m - 1
    OBVIOUS
  <2> HIDE DEF s
  <2> QED
    BY <1>1, <2>1
<1>4. \A j \in 1..m - 1 : Prepares(s[j])
  <2>1. 1..m - 1 = {1, 2, 3}
    OBVIOUS
  <2>2. {"abinit.abi", "pseudo"} \subseteq InputNames
    BY <1>2
  <2> HIDE DEF s, m, names
  <2> QED
    BY <1>1, <2>1, <2>2 DEF Prepares
<1> HIDE DEF s, names, m, out, mode
<1>5. Lawful(s, appends, pattern, n)
  BY <1>1, <1>2, <1>3, <1>4, InputsThenProgram
<1> QED
  BY <1>5 DEF s

(* ... of VASP ... *)
LEMMA VaspLawful ==
  ASSUME NEW appends, NEW pattern, NEW n \in Nat
  PROVE  Lawful(Vasp, appends, pattern, n)
<1> DEFINE s == Vasp
           names == {"INCAR", "KPOINTS", "POSCAR", "POTCAR"}
           m == 6
           out == "own"
           mode == "new"
<1>1. /\ DOMAIN s = 1..m
      /\ s[1] = Cd("work")
      /\ s[2] = Doc(Here("INCAR"))
      /\ s[3] = Doc(Here("KPOINTS"))
      /\ s[4] = Doc(Here("POSCAR"))
      /\ s[5] = Fetch(Here("POTCAR"))
      /\ s[m] = Program({Here(name) : name \in names}, Here(out), mode)
  BY DEF Vasp, VaspInputs, VaspProgram
<1>2. /\ names \in SUBSET InputNames /\ names # {} /\ out \in OutputNames
      /\ m \in Nat /\ m >= 1 /\ (mode = "new" \/ (mode = "append" /\ appends))
  BY DEF InputNames, OutputNames
<1>3. \A name \in names : \E l \in 1..m - 1 :
             s[l] \in {Doc(Here(name)), Fetch(Here(name)), Fetch(InWork(name))}
  <2>1. {1, 2, 3, 4, 5} \subseteq 1..m - 1
    OBVIOUS
  <2> HIDE DEF s
  <2> QED
    BY <1>1, <2>1
<1>4. \A j \in 1..m - 1 : Prepares(s[j])
  <2>1. 1..m - 1 = {1, 2, 3, 4, 5}
    OBVIOUS
  <2>2. {"INCAR", "KPOINTS", "POSCAR", "POTCAR"} \subseteq InputNames
    BY <1>2
  <2> HIDE DEF s, m, names
  <2> QED
    BY <1>1, <2>1, <2>2 DEF Prepares
<1> HIDE DEF s, names, m, out, mode
<1>5. Lawful(s, appends, pattern, n)
  BY <1>1, <1>2, <1>3, <1>4, InputsThenProgram
<1> QED
  BY <1>5 DEF s

(* ... of CP2K ... *)
LEMMA Cp2kLawful ==
  ASSUME NEW appends, appends, NEW pattern, NEW n \in Nat
  PROVE  Lawful(Cp2k, appends, pattern, n)
<1> DEFINE s == Cp2k
           names == {"input"}
           m == 3
           out == "output"
           mode == "append"
<1>1. /\ DOMAIN s = 1..m
      /\ s[1] = Cd("work")
      /\ s[2] = Doc(Here("input"))
      /\ s[m] = Program({Here(name) : name \in names}, Here(out), mode)
  BY DEF Cp2k
<1>2. /\ names \in SUBSET InputNames /\ names # {} /\ out \in OutputNames
      /\ m \in Nat /\ m >= 1 /\ (mode = "new" \/ (mode = "append" /\ appends))
  BY DEF InputNames, OutputNames
<1>3. \A name \in names : \E l \in 1..m - 1 :
             s[l] \in {Doc(Here(name)), Fetch(Here(name)), Fetch(InWork(name))}
  <2>1. {1, 2} \subseteq 1..m - 1
    OBVIOUS
  <2> HIDE DEF s
  <2> QED
    BY <1>1, <2>1
<1>4. \A j \in 1..m - 1 : Prepares(s[j])
  <2>1. 1..m - 1 = {1, 2}
    OBVIOUS
  <2>2. {"input"} \subseteq InputNames
    BY <1>2
  <2> HIDE DEF s, m, names
  <2> QED
    BY <1>1, <2>1, <2>2 DEF Prepares
<1> HIDE DEF s, names, m, out, mode
<1>5. Lawful(s, appends, pattern, n)
  BY <1>1, <1>2, <1>3, <1>4, InputsThenProgram
<1> QED
  BY <1>5 DEF s

(* ... and of CP2K's NEB. *)
LEMMA NebLawful ==
  ASSUME NEW appends, appends, NEW pattern, NEW n \in Nat
  PROVE  Lawful(Neb, appends, pattern, n)
<1> DEFINE s == Neb
           names == {"input", "images"}
           m == 5
           out == "output"
           mode == "append"
<1>1. /\ DOMAIN s = 1..m
      /\ s[1] = Cd("work")
      /\ s[2] = Fetch(InWork("images"))
      /\ s[3] = Cd("work")
      /\ s[4] = Doc(Here("input"))
      /\ s[m] = Program({Here(name) : name \in names}, Here(out), mode)
  BY DEF Neb
<1>2. /\ names \in SUBSET InputNames /\ names # {} /\ out \in OutputNames
      /\ m \in Nat /\ m >= 1 /\ (mode = "new" \/ (mode = "append" /\ appends))
  BY DEF InputNames, OutputNames
<1>3. \A name \in names : \E l \in 1..m - 1 :
             s[l] \in {Doc(Here(name)), Fetch(Here(name)), Fetch(InWork(name))}
  <2>1. {1, 2, 3, 4} \subseteq 1..m - 1
    OBVIOUS
  <2> HIDE DEF s
  <2> QED
    BY <1>1, <2>1
<1>4. \A j \in 1..m - 1 : Prepares(s[j])
  <2>1. 1..m - 1 = {1, 2, 3, 4}
    OBVIOUS
  <2>2. {"input", "images"} \subseteq InputNames
    BY <1>2
  <2> HIDE DEF s, m, names
  <2> QED
    BY <1>1, <2>1, <2>2 DEF Prepares
<1> HIDE DEF s, names, m, out, mode
<1>5. Lawful(s, appends, pattern, n)
  BY <1>1, <1>2, <1>3, <1>4, InputsThenProgram
<1> QED
  BY <1>5 DEF s

-----------------------------------------------------------------------------
(* The scripts of phonopy. *)
LEMMA InLoopCommands ==
  ASSUME NEW appends
  PROVE  /\ InLoop(Mkdir, appends)
         /\ \A name \in InputNames \ Main : InLoop(CpToItem(name), appends)
         /\ \A name \in InputNames : /\ InLoop(DocAppended(InItem(name)), appends)
                                     /\ InLoop(DocAppended(HereOf(name)), appends)
         /\ \A reads : (/\ \A p \in reads : (p.dir = "here" /\ PlainRef(p)) \/ NumberedRef(p)
                        /\ \E p \in reads : NumberedRef(p)) =>
               \A name \in InputNames : /\ InLoop(Cat(reads, InItem(name)), appends)
                                        /\ InLoop(Cat(reads, HereOf(name)), appends)
         /\ \A reads : (/\ \A p \in reads : (p.dir = "here" /\ PlainRef(p)) \/ NumberedRef(p)
                        /\ \E p \in reads : NumberedRef(p)) =>
               \A out \in OutputNames : /\ InLoop(Program(reads, HereOf(out), "new"), appends)
                                        /\ appends => InLoop(Program(reads, HereOf(out), "append"), appends)
<1>1. InLoop(Mkdir, appends)
  <2>1. Mkdir.op = "mkdir" /\ Mkdir.reads = {} /\ IsCommand(Mkdir) /\ Mkdir.item = 0
    BY DEF Mkdir, Command, IsCommand
  <2> QED
    BY <2>1 DEF InLoop
<1>2. ASSUME NEW name \in InputNames \ Main PROVE InLoop(CpToItem(name), appends)
  <2>1. PlainRef(Here(name)) /\ Here(name).dir = "here"
    BY RefIs DEF PlainRef
  <2> QED
    BY <2>1, CommandIs, RefIs DEF CpToItem, InLoop
<1>3. ASSUME NEW name \in InputNames, NEW w \in {InItem(name), HereOf(name)}
      PROVE  InLoop(DocAppended(w), appends)
  BY CommandIs, RefIs DEF DocAppended, InLoop
<1>4. ASSUME NEW reads, \A p \in reads : (p.dir = "here" /\ PlainRef(p)) \/ NumberedRef(p),
             \E p \in reads : NumberedRef(p), NEW name \in InputNames, NEW w \in {InItem(name), HereOf(name)}
      PROVE  InLoop(Cat(reads, w), appends)
  BY <1>4, CommandIs, RefIs DEF Cat, InLoop
<1>5. ASSUME NEW reads, \A p \in reads : (p.dir = "here" /\ PlainRef(p)) \/ NumberedRef(p),
             \E p \in reads : NumberedRef(p), NEW out \in OutputNames,
             NEW mode, mode = "new" \/ appends
      PROVE  InLoop(Program(reads, HereOf(out), mode), appends)
  <2> DEFINE c == Program(reads, HereOf(out), mode)
  <2>1. /\ IsCommand(c) /\ c.item = 0 /\ c.op = "program" /\ c.mode = mode
        /\ c.reads = reads /\ c.writes = HereOf(out)
    BY CommandIs DEF Program
  <2> HIDE DEF c
  <2>2. c.writes.dir = "here" /\ c.writes.of = Each /\ c.writes.name = out
    BY <2>1, RefIs
  <2>3. c.mode = "new" \/ appends
    BY <1>5, <2>1
  <2> QED
    BY <1>5, <2>1, <2>2, <2>3 DEF InLoop, c
<1> QED
  BY <1>1, <1>2, <1>3, <1>4, <1>5

(* A numbered path is the file of the item. *)
LEMMA NumberedAt ==
  ASSUME NEW p, NumberedRef(p), NEW i
  PROVE  At(Work, p, i) = <<Work, p.name, i>>
  BY DEF NumberedRef, At

(* What a loop over files gives. *)
LEMMA FileLoopGives ==
  ASSUME NEW c, NEW appends, NEW pattern, FileLoop(c, appends, pattern),
         c.writes.name # "run-supercell", NEW n \in Structures, NEW i \in 1..n,
         NEW k \in DOMAIN c.body
  PROVE  IF c.body[k].op = "mkdir" THEN Directory(i) \in Gives(c, n)
         ELSE At(Work, c.body[k].writes, i) \in Gives(c, n)
<1> DEFINE b == Of(c.body[k], i)
<1>1. IsCommand(c.body[k]) /\ c.body[k].op \in {"mkdir", "cat", "cp", "doc", "program"}
  BY DEF FileLoop, InLoop
<1>2. b.op = c.body[k].op /\ b.writes = c.body[k].writes /\ b.item = i
  BY <1>1, OfIs
<1>3. i # Star
  BY ScriptAssumption DEF Structures, Star
<1>4. SimpleGives(b, n) = IF c.body[k].op = "mkdir" THEN {Directory(i)}
                          ELSE {At(Work, c.body[k].writes, i)}
  <2> HIDE DEF b
  <2> QED
    BY <1>1, <1>2, <1>3 DEF SimpleGives
<1>5. Gives(c, n) = UNION {UNION {SimpleGives(Of(c.body[k_1], i_1), n) : k_1 \in DOMAIN c.body} : i_1 \in 1..n}
  BY DEF Gives, FileLoop, InDirs
<1>6. SimpleGives(b, n) \subseteq Gives(c, n)
  BY <1>5
<1> HIDE DEF b
<1> QED
  BY <1>4, <1>6

(* The script of phonopy: what is read in a loop is written before it.     *)
WrittenBefore(s, j, name) == \E l \in 1..j - 1 : Prepares(s[l]) /\ s[l].op # "cd" /\ s[l].writes.name = name

LoopWrites(c, appends, pattern, w) ==
    /\ FileLoop(c, appends, pattern)
    /\ \E k \in DOMAIN c.body : c.body[k].op # "mkdir" /\ c.body[k].writes = w

Numbered(s, j, name, appends, pattern) ==
    \/ name = pattern
    \/ \E l \in 1..j - 1 : LoopWrites(s[l], appends, pattern, HereOf(name))

(* The k-th command is phonopy's, the loops over files are L, and D is the  *)
(* loop over directories or empty.                                         *)
PhonopyScript(s, m, appends, pattern, k, from, L, D) ==
    /\ m \in Nat /\ Len(s) = m /\ DOMAIN s = 1..m
    /\ pattern \in Displaced /\ from \in InputNames
    /\ k \in 1..m /\ L \in SUBSET (k + 1..m) /\ D \in SUBSET {m}
    /\ s[k] = Phonopy(from, pattern) /\ WrittenBefore(s, k, from)
    /\ \A j \in 1..k - 1 : Prepares(s[j])
    /\ \A j \in k + 1..m : Prepares(s[j]) \/ j \in L \/ j \in D
    /\ \A j \in L : Listed(s[j], TRUE, appends, pattern) /\ FileLoop(s[j], appends, pattern)
    /\ \A j \in D : Listed(s[j], TRUE, appends, pattern) /\ DirLoop(s[j], appends)
    /\ \A j \in L :
            /\ Numbered(s, j, s[j].writes.name, appends, pattern)
            /\ \A b \in DOMAIN s[j].body : \A p \in s[j].body[b].reads :
                   \/ PlainRef(p) /\ WrittenBefore(s, j, p.name)
                   \/ NumberedRef(p) /\ Numbered(s, j, p.name, appends, pattern)
    /\ \A j \in D : \E l \in L :
            /\ l < j /\ s[l].body[1].op = "mkdir"
            /\ \A p \in s[j].body[2].reads : LoopWrites(s[l], appends, pattern, InItem(p.name))
    /\ \/ D # {}
       \/ \E j \in L, out \in OutputNames : LoopWrites(s[j], appends, pattern, HereOf(out))

(* A script that runs phonopy once, loops over its supercells and runs a program for each. *)
LEMMA PhonopyLawful ==
  ASSUME NEW s, NEW m, NEW appends, NEW pattern, NEW k, NEW from, NEW L, NEW D, NEW n \in Structures,
         PhonopyScript(s, m, appends, pattern, k, from, L, D)
  PROVE  Lawful(s, appends, pattern, n)
<1> SUFFICES ASSUME m \in Nat, Len(s) = m, DOMAIN s = 1..m, pattern \in Displaced, from \in InputNames,
                    k \in 1..m, L \in SUBSET (k + 1..m), D \in SUBSET {m},
                    s[k] = Phonopy(from, pattern), WrittenBefore(s, k, from),
                    \A j \in 1..k - 1 : Prepares(s[j]),
                    \A j \in k + 1..m : Prepares(s[j]) \/ j \in L \/ j \in D,
                    \A j \in L : Listed(s[j], TRUE, appends, pattern) /\ FileLoop(s[j], appends, pattern),
                    \A j \in D : Listed(s[j], TRUE, appends, pattern) /\ DirLoop(s[j], appends),
                    \A j \in L :
                        /\ Numbered(s, j, s[j].writes.name, appends, pattern)
                        /\ \A b \in DOMAIN s[j].body : \A p \in s[j].body[b].reads :
                               \/ PlainRef(p) /\ WrittenBefore(s, j, p.name)
                               \/ NumberedRef(p) /\ Numbered(s, j, p.name, appends, pattern),
                    \A j \in D : \E l \in L :
                        /\ l < j /\ s[l].body[1].op = "mkdir"
                        /\ \A p \in s[j].body[2].reads :
                               LoopWrites(s[l], appends, pattern, InItem(p.name)),
                    \/ D # {}
                    \/ \E j \in L, out \in OutputNames : LoopWrites(s[j], appends, pattern, HereOf(out))
             PROVE  Lawful(s, appends, pattern, n)
  BY DEF PhonopyScript
<1>1. n \in Nat /\ 0 # Star /\ \A i \in 1..n : i # Star /\ i # 0 /\ i \in Nat
  BY ScriptAssumption DEF Structures, Star
<1>2. /\ s[k].op = "phonopy" /\ s[k].reads = {Here(from)} /\ s[k].writes = Here(pattern)
      /\ s[k].item = 0 /\ s[k].mode = "new" /\ IsCommand(s[k])
  BY CommandIs DEF Phonopy
<1>3. PhonopyIn(s)
  BY <1>2 DEF PhonopyIn
<1>4. \A c : FileLoop(c, appends, pattern) =>
          /\ c.op = "for" /\ c.reads = {} /\ ~ InDirs(c) /\ c.writes.name # "run-supercell"
          /\ 1 \in DOMAIN c.body
  <2> SUFFICES ASSUME NEW c, FileLoop(c, appends, pattern)
               PROVE  /\ c.op = "for" /\ c.reads = {} /\ c.writes.name # "run-supercell"
                      /\ 1 \in DOMAIN c.body
    BY DEF InDirs
  <2>1. c.op = "for" /\ c.reads = {} /\ c.writes.name \in {pattern, "run-input"}
    BY DEF FileLoop
  <2>2. Len(c.body) \in Nat \ {0} /\ DOMAIN c.body = 1..Len(c.body)
    BY DEF FileLoop
  <2>3. 1 \in DOMAIN c.body
    BY <2>2
  <2>4. c.writes.name # "run-supercell"
    BY <2>1, NamesDiffer
  <2> QED
    BY <2>1, <2>3, <2>4
<1>5. \A c : DirLoop(c, appends) => InDirs(c) /\ c.op = "for" /\ c.reads = {}
  BY DEF DirLoop, InDirs
<1>6. \A j \in 1..m : j \in 1..k - 1 \/ j = k \/ j \in k + 1..m
  OBVIOUS
<1>7. \A j \in 1..m : Listed(s[j], TRUE, appends, pattern)
  <2>1. Listed(Phonopy(from, pattern), TRUE, appends, pattern)
    BY ListedCommands
  <2> QED
    BY <1>6, <2>1, PreparesIs, s[k] = Phonopy(from, pattern)
<1>8. Ordered(s)
  <2>1. ASSUME NEW j \in 1..m, InDirs(s[j])
        PROVE  j = Len(s) /\ \E l \in 1..j - 1 : Makes(s[l])
    <3>1. s[j].op = "for"
      BY <2>1 DEF InDirs
    <3>2. j \in k + 1..m /\ ~ Prepares(s[j])
      BY <1>2, <1>6, <3>1, PreparesIs
    <3>3. j \in D /\ j = m
      BY <1>4, <2>1, <3>2
    <3>4. PICK l \in L : l < j /\ FileLoop(s[l], appends, pattern) /\ s[l].body[1].op = "mkdir"
      BY <3>3
    <3>5. Makes(s[l]) /\ l \in 1..j - 1
      BY <1>4, <3>4 DEF Makes
    <3> QED
      BY <3>3, <3>5
  <2>2. ASSUME NEW j \in 1..m, s[j].op = "phonopy"
        PROVE  \A l \in 1..j : s[l].op # "for"
    <3>1. ~ Prepares(s[j]) /\ s[j].op # "for"
      BY <2>2, PreparesIs
    <3>2. j = k
      BY <1>4, <1>5, <1>6, <3>1
    <3>3. \A l \in 1..j : l = k \/ l \in 1..k - 1
      BY <3>2
    <3> QED
      BY <1>2, <3>3, PreparesIs
  <2> QED
    BY <2>1, <2>2 DEF Ordered
<1>9. ASSUME NEW j \in 1..m, NEW name, WrittenBefore(s, j, name)
      PROVE  <<Work, name, 0>> \in UNION {Gives(s[l], n) : l \in 1..j - 1}
  <2>1. PICK l \in 1..j - 1 : Prepares(s[l]) /\ s[l].op # "cd" /\ s[l].writes.name = name
    BY <1>9 DEF WrittenBefore
  <2>2. Gives(s[l], n) = {<<Work, name, 0>>}
    BY <2>1, PreparesIs, PlainGives
  <2> QED
    BY <2>2
<1>10. ASSUME NEW j \in k + 1..m, NEW name, Numbered(s, j, name, appends, pattern), NEW i \in 1..n
       PROVE  <<Work, name, i>> \in UNION {Gives(s[l], n) : l \in 1..j - 1}
  <2>1. CASE name = pattern
    <3>1. Gives(s[k], n) = {<<Work, pattern, i_1>> : i_1 \in 1..n}
      BY <1>1, <1>2, RefIs DEF Gives, InDirs, SimpleGives
    <3>2. k \in 1..j - 1
      OBVIOUS
    <3> QED
      BY <2>1, <3>1, <3>2
  <2>2. CASE \E l \in 1..j - 1 : LoopWrites(s[l], appends, pattern, HereOf(name))
    <3>1. PICK l \in 1..j - 1 : LoopWrites(s[l], appends, pattern, HereOf(name))
      BY <2>2
    <3>2. PICK b \in DOMAIN s[l].body : s[l].body[b].op # "mkdir" /\ s[l].body[b].writes = HereOf(name)
      BY <3>1 DEF LoopWrites
    <3>3. At(Work, HereOf(name), i) = <<Work, name, i>>
      BY RefIs DEF At
    <3>4. FileLoop(s[l], appends, pattern) /\ s[l].writes.name # "run-supercell"
      BY <1>4, <3>1 DEF LoopWrites
    <3>5. At(Work, s[l].body[b].writes, i) \in Gives(s[l], n)
      BY <3>2, <3>4, FileLoopGives
    <3> QED
      BY <3>2, <3>3, <3>5
  <2> QED
    BY <1>10, <2>1, <2>2 DEF Numbered
<1>11. ASSUME NEW j \in 1..m
       PROVE  Needs(s[j], n) \subseteq UNION {Gives(s[l], n) : l \in 1..j - 1}
  <2>1. CASE Prepares(s[j])
    <3>1. s[j].op # "for" /\ s[j].item = 0 /\ s[j].reads = {} /\ s[j].mode # "append"
      BY <2>1, PreparesIs
    <3>2. Needs(s[j], n) = {<<Work, p.name, 0>> : p \in s[j].reads}
      BY <3>1, PlainNeeds
    <3> QED
      BY <3>1, <3>2
  <2>2. CASE j = k
    <3>1. PlainRef(Here(from)) /\ Here(from).name = from
      BY RefIs DEF PlainRef
    <3>2. Needs(s[k], n) = {<<Work, p.name, 0>> : p \in {Here(from)}}
      BY <1>2, <3>1, PlainNeeds
    <3> QED
      BY <1>9, <2>2, <3>1, <3>2
  <2>3. CASE j \in L
    <3> DEFINE c == s[j]
    <3>1. Needs(c, n) = UNION {{<<Work, c.writes.name, i>>}
                \cup UNION {{At(Work, p, i) : p \in c.body[b].reads} : b \in DOMAIN c.body} : i \in 1..n}
      BY <1>4, <2>3 DEF Needs
    <3>2. \A i \in 1..n : <<Work, c.writes.name, i>> \in UNION {Gives(s[l], n) : l \in 1..j - 1}
      BY <1>10, <2>3
    <3>3. ASSUME NEW i \in 1..n, NEW b \in DOMAIN c.body, NEW p \in c.body[b].reads
          PROVE  At(Work, p, i) \in UNION {Gives(s[l], n) : l \in 1..j - 1}
      <4>1. CASE PlainRef(p) /\ WrittenBefore(s, j, p.name)
        BY <1>9, <4>1, PlainAt, SMTT(40)
      <4>2. CASE NumberedRef(p) /\ Numbered(s, j, p.name, appends, pattern)
        BY <1>10, <2>3, <4>2, NumberedAt
      <4> QED
        BY <2>3, <4>1, <4>2
    <3> HIDE DEF c
    <3> QED
      BY <3>1, <3>2, <3>3 DEF c
  <2>4. CASE j \in D
    <3> DEFINE R == s[j].body[2].reads
    <3>1. PICK l \in L : l < j
                 /\ FileLoop(s[l], appends, pattern)
                 /\ s[l].body[1].op = "mkdir"
                 /\ \A p \in R : LoopWrites(s[l], appends, pattern, InItem(p.name))
      BY <2>4
    <3>2. l \in 1..j - 1 /\ 1 \in DOMAIN s[l].body /\ s[l].writes.name # "run-supercell"
      BY <1>4, <3>1
    <3>3. \A i \in 1..n : Directory(i) \in Gives(s[l], n)
      BY <3>1, <3>2, FileLoopGives
    <3>4. ASSUME NEW i \in 1..n, NEW p \in R
          PROVE  At(i, p, i) \in Gives(s[l], n)
      <4>1. PICK b \in DOMAIN s[l].body : s[l].body[b].op # "mkdir" /\ s[l].body[b].writes = InItem(p.name)
        BY <3>1 DEF LoopWrites
      <4>2. At(Work, InItem(p.name), i) = <<i, p.name, 0>>
        BY RefIs DEF At, Each
      <4>3. p.dir = "here" /\ p.of = 0
        BY <2>4 DEF DirLoop, IsProgram, PlainRef
      <4>4. At(i, p, i) = <<i, p.name, 0>>
        BY <4>3 DEF At, Each
      <4>5. At(Work, s[l].body[b].writes, i) \in Gives(s[l], n)
        BY <3>1, <3>2, <4>1, FileLoopGives
      <4> QED
        BY <4>1, <4>2, <4>4, <4>5
    <3>5. Needs(s[j], n) = UNION {{Directory(i)} \cup {At(i, p, i) : p \in R} : i \in 1..n}
      BY <1>5, <2>4 DEF Needs
    <3> HIDE DEF R
    <3> QED
      BY <3>2, <3>3, <3>4, <3>5
  <2> QED
    BY <1>6, <2>1, <2>2, <2>3, <2>4
<1>12. ASSUME NEW i \in 1..n
       PROVE  \E q \in Given(s, n) : q[2] \in OutputNames /\ Supercell(q) = i
  <2>1. CASE D # {}
    <3>1. PICK j \in D : DirLoop(s[j], appends)
      BY <2>1
    <3> DEFINE q == <<i, s[j].body[2].writes.name, 0>>
    <3>2. q \in Gives(s[j], n)
      BY <1>5, <3>1 DEF Gives
    <3>3. q[2] \in OutputNames /\ Supercell(q) = i
      BY <3>1 DEF DirLoop, IsProgram, Supercell
    <3>4. j \in DOMAIN s
      <4>1. j = m
        BY <3>1
      <4>2. m \in 1..m
        OBVIOUS
      <4> QED
        BY <4>1, <4>2
    <3> QED
      BY <3>2, <3>3, <3>4 DEF Given
  <2>2. CASE \E j \in L, out \in OutputNames : LoopWrites(s[j], appends, pattern, HereOf(out))
    <3>1. PICK j \in L, out \in OutputNames : LoopWrites(s[j], appends, pattern, HereOf(out))
      BY <2>2
    <3>2. PICK b \in DOMAIN s[j].body : s[j].body[b].op # "mkdir" /\ s[j].body[b].writes = HereOf(out)
      BY <3>1 DEF LoopWrites
    <3>3. At(Work, HereOf(out), i) = <<Work, out, i>>
      BY RefIs DEF At
    <3>4. FileLoop(s[j], appends, pattern) /\ s[j].writes.name # "run-supercell"
      BY <1>4, <3>1 DEF LoopWrites
    <3>5. At(Work, s[j].body[b].writes, i) \in Gives(s[j], n)
      BY <3>2, <3>4, FileLoopGives
    <3>6. Supercell(<<Work, out, i>>) = i
      BY <1>1 DEF Supercell
    <3>7. j \in DOMAIN s
      BY <3>1
    <3> QED
      BY <3>2, <3>3, <3>5, <3>6, <3>7 DEF Given
  <2> QED
    BY <2>1, <2>2
<1>13. ReadyTo(s, {}, n)
  BY <1>11 DEF ReadyTo
<1>14. HasOutputs(s, n)
  BY <1>3, <1>12 DEF HasOutputs
<1>15. PhonopyIn(s) = TRUE
  BY <1>3 DEF PhonopyIn
<1> QED
  BY <1>7, <1>8, <1>13, <1>14, <1>15 DEF Lawful

(* The fields of a loop. *)
LEMMA ForIs ==
  ASSUME NEW name, NEW body, NEW c, c = For(name, body)
  PROVE  /\ IsCommand(c) /\ c.op = "for" /\ c.reads = {} /\ c.item = 0 /\ c.body = body
         /\ c.writes = Here(name) /\ c.writes.name = name
<1>1. /\ IsCommand(c) /\ c.op = "for" /\ c.reads = {} /\ c.item = 0 /\ c.body = body
      /\ c.writes = Here(name)
  BY DEF For, Command, IsCommand
<1>2. Here(name).name = name
  BY RefIs
<1> QED
  BY <1>1, <1>2

(* A loop over files, by its body ... *)
LEMMA FileLoopIs ==
  ASSUME NEW appends, NEW pattern, NEW name \in {pattern, "run-input"},
         NEW body, NEW m \in Nat \ {0}, Len(body) = m, DOMAIN body = 1..m,
         \A k \in 1..m : InLoop(body[k], appends),
         \A k \in 1..m : body[k].op = "mkdir" => k = 1 /\ name = pattern,
         \A k \in 1..m : body[k].op = "doc" =>
               \E l \in 1..k - 1 : body[l].op = "cat" /\ body[l].writes = body[k].writes,
         NEW c, c = For(name, body)
  PROVE  FileLoop(c, appends, pattern) /\ Listed(c, TRUE, appends, pattern)
<1>1. FileLoop(c, appends, pattern)
  BY ForIs DEF FileLoop
<1>2. IsCommand(c) /\ c.item = 0
  BY ForIs
<1> QED
  BY <1>1, <1>2 DEF Listed

(* ... and one over the directories of the supercells. *)
LEMMA DirLoopIs ==
  ASSUME NEW appends, NEW pattern, NEW p, IsProgram(p, appends), \E r \in p.reads : r.name \in Main,
         NEW c, c = InEveryDirectory(p)
  PROVE  DirLoop(c, appends) /\ Listed(c, TRUE, appends, pattern)
<1>1. /\ IsCommand(c) /\ c.op = "for" /\ c.reads = {} /\ c.item = 0
      /\ c.body = <<Cd("item"), p, Cd("up")>> /\ c.writes.name = "run-supercell"
  BY ForIs DEF InEveryDirectory
<1>2. /\ Len(c.body) = 3 /\ DOMAIN c.body = 1..3
      /\ c.body[1] = Cd("item") /\ c.body[2] = p /\ c.body[3] = Cd("up")
  BY <1>1
<1>3. InDirs(c)
  BY <1>1 DEF InDirs
<1>4. DirLoop(c, appends)
  BY <1>1, <1>2, <1>3 DEF DirLoop
<1> QED
  BY <1>1, <1>4 DEF Listed

(* What writes a file before a loop. *)
LEMMA WrittenIs ==
  ASSUME NEW s, NEW j \in Nat, NEW l \in 1..j - 1, NEW name \in InputNames,
         s[l] \in {Doc(Here(name)), Fetch(Here(name)), Fetch(InWork(name))}
  PROVE  WrittenBefore(s, j, name)
<1>1. \E q : s[l] \in {Doc(q), Fetch(q)} /\ q.name = name
  BY RefIs
<1>2. s[l].op # "cd" /\ s[l].writes.name = name
  BY <1>1, CommandIs DEF Doc, Fetch
<1> QED
  BY <1>2 DEF WrittenBefore, Prepares

(* The fields of the commands in loops. *)
LEMMA ReadsOf ==
  ASSUME NEW name, NEW reads, NEW w
  PROVE  /\ Mkdir.op = "mkdir" /\ Mkdir.reads = {}
         /\ CpToItem(name).op = "cp" /\ CpToItem(name).reads = {Here(name)} /\ CpToItem(name).writes = InItem(name)
         /\ Cat(reads, w).op = "cat" /\ Cat(reads, w).reads = reads /\ Cat(reads, w).writes = w
         /\ DocAppended(w).op = "doc" /\ DocAppended(w).reads = {} /\ DocAppended(w).writes = w
  BY DEF Mkdir, CpToItem, Cat, DocAppended, Command

(* The reading of a numbered file, with a part written before or alone. *)
LEMMA NumberedReads ==
  ASSUME NEW name \in Displaced \cup {"run-input"}
  PROVE  /\ NumberedRef(HereOf(name)) /\ HereOf(name).name = name
         /\ \A plain \in InputNames : /\ PlainRef(Here(plain)) /\ Here(plain).dir = "here"
                                      /\ Here(plain).name = plain
  BY RefIs DEF NumberedRef, PlainRef

(* A concatenation and a program that read the file of their item belong in a loop. *)
LEMMA NumberedInLoop ==
  ASSUME NEW name \in Displaced \cup {"run-input"}, NEW plain \in InputNames, NEW appends,
         NEW reads, reads \subseteq {Here(plain), HereOf(name)}, HereOf(name) \in reads
  PROVE  /\ \A to \in InputNames : /\ InLoop(Cat(reads, InItem(to)), appends)
                                   /\ InLoop(Cat(reads, HereOf(to)), appends)
         /\ \A out \in OutputNames : /\ InLoop(Program(reads, HereOf(out), "new"), appends)
                                     /\ appends => InLoop(Program(reads, HereOf(out), "append"), appends)
<1>1. \A p \in reads : (p.dir = "here" /\ PlainRef(p)) \/ NumberedRef(p)
  BY NumberedReads
<1>2. \E p \in reads : NumberedRef(p)
  BY NumberedReads
<1> QED
  BY <1>1, <1>2, InLoopCommands

(* The fields of a program. *)
LEMMA ProgramOp ==
  ASSUME NEW reads, NEW w, NEW mode
  PROVE  /\ Program(reads, w, mode).op = "program" /\ Program(reads, w, mode).reads = reads
         /\ Program(reads, w, mode).writes = w
  BY DEF Program, Command

(* The scripts with phonopy, of VASP ... *)
LEMMA VaspPhonopyLawful ==
  ASSUME NEW appends, NEW n \in Structures
  PROVE  Lawful(VaspPhonopy, appends, "POSCAR-", n)
<1> DEFINE s == VaspPhonopy
           m == 9
           k == 6
           from == "POSCAR"
           pattern == "POSCAR-"
           body8 == VaspSupercell
           program == VaspProgram
<1>1. /\ Len(s) = m /\ DOMAIN s = 1..m
      /\ s[1] = Cd("work")
      /\ s[2] = Doc(Here("INCAR"))
      /\ s[3] = Doc(Here("KPOINTS"))
      /\ s[4] = Doc(Here("POSCAR"))
      /\ s[5] = Fetch(Here("POTCAR"))
      /\ s[k] = Phonopy(from, pattern)
      /\ s[7] = Cd("work")
      /\ s[8] = For(pattern, body8)
      /\ s[m] = InEveryDirectory(program)
  <2> DEFINE t == <<Phonopy("POSCAR", "POSCAR-"), Cd("work"), For("POSCAR-", VaspSupercell),
                    InEveryDirectory(VaspProgram)>>
             u == VaspInputs
             C == Range(u) \cup Range(t)
  <2>1. /\ u \in Seq(C) /\ Len(u) = 5
        /\ u[1] = Cd("work")
        /\ u[2] = Doc(Here("INCAR"))
        /\ u[3] = Doc(Here("KPOINTS"))
        /\ u[4] = Doc(Here("POSCAR"))
        /\ u[5] = Fetch(Here("POTCAR"))
    BY DEF VaspInputs, Range
  <2>2. /\ t \in Seq(C) /\ Len(t) = 4
        /\ t[1] = Phonopy("POSCAR", "POSCAR-") /\ t[2] = Cd("work")
        /\ t[3] = For("POSCAR-", VaspSupercell) /\ t[4] = InEveryDirectory(VaspProgram)
    BY DEF Range
  <2>3. s = u \o t
    BY DEF VaspPhonopy
  <2> HIDE DEF s, t, u, C
  <2>4. u \in Seq(C) /\ t \in Seq(C)
    BY <2>1, <2>2
  <2>5. /\ u \o t \in Seq(C) /\ Len(u \o t) = Len(u) + Len(t)
        /\ \A i \in 1..Len(u) : (u \o t)[i] = u[i]
        /\ \A i \in 1..Len(t) : (u \o t)[Len(u) + i] = t[i]
    BY <2>4, ConcatIs
  <2> QED
    BY <2>1, <2>2, <2>3, <2>5, SMTT(40)
<1>2. /\ Len(body8) = 5 /\ DOMAIN body8 = 1..5
      /\ body8[1] = Mkdir
      /\ body8[2] = Cat({HereOf(pattern)}, InItem("POSCAR"))
      /\ body8[3] = CpToItem("INCAR")
      /\ body8[4] = CpToItem("KPOINTS")
      /\ body8[5] = CpToItem("POTCAR")
  BY DEF VaspSupercell
<1>3. /\ pattern \in Displaced /\ {"INCAR", "KPOINTS", "POSCAR", "POTCAR"} \subseteq InputNames
      /\ {"INCAR", "KPOINTS", "POTCAR"} \cap Main = {} /\ "POSCAR" \in Main /\ {"own"} \subseteq OutputNames
  BY DEF Displaced, InputNames, Main, OutputNames
<1>4. 1..5 = {1, 2, 3, 4, 5} /\ k + 1..m = {7, 8, 9}
  OBVIOUS
<1> HIDE DEF s, m, k, from, pattern, body8, program
<1>5. /\ FileLoop(s[8], appends, pattern) /\ Listed(s[8], TRUE, appends, pattern)
      /\ s[8].body = body8 /\ s[8].writes.name = pattern
  <2> DEFINE z == 5
  <2>1. \A b \in 1..z : InLoop(body8[b], appends)
    <3>1. InLoop(body8[1], appends)
      BY <1>2, InLoopCommands
    <3>2. InLoop(body8[2], appends)
      <4> DEFINE reads == {HereOf(pattern)}
      <4>1. reads \subseteq {Here("POSCAR"), HereOf(pattern)} /\ HereOf(pattern) \in reads
        OBVIOUS
      <4>2. "POSCAR" \in InputNames /\ pattern \in Displaced \cup {"run-input"}
        BY <1>3
      <4> HIDE DEF reads
      <4>3. InLoop(Cat(reads, InItem("POSCAR")), appends)
        BY <1>3, <4>1, <4>2, NumberedInLoop
      <4> QED
        BY <1>2, <4>3 DEF reads
    <3>3. InLoop(body8[3], appends)
      BY <1>2, <1>3, InLoopCommands
    <3>4. InLoop(body8[4], appends)
      BY <1>2, <1>3, InLoopCommands
    <3>5. InLoop(body8[5], appends)
      BY <1>2, <1>3, InLoopCommands
    <3> QED
      BY <1>4, <3>1, <3>2, <3>3, <3>4, <3>5
  <2>2. \A b \in 1..z : body8[b].op = "mkdir" => b = 1
    BY <1>2, <1>4, ReadsOf, ProgramOp
  <2>3. \A b \in 1..z : body8[b].op # "doc"
    BY <1>2, <1>4, ReadsOf, ProgramOp
  <2>4. z \in Nat \ {0} /\ Len(body8) = z /\ DOMAIN body8 = 1..z
    BY <1>2
  <2> HIDE DEF z
  <2>5. s[8].body = body8 /\ s[8].writes.name = pattern
    BY <1>1, ForIs
  <2>6. FileLoop(s[8], appends, pattern) /\ Listed(s[8], TRUE, appends, pattern)
    BY <1>1, <2>1, <2>2, <2>3, <2>4, FileLoopIs
  <2> QED
    BY <2>5, <2>6
<1>6. /\ DirLoop(s[m], appends) /\ Listed(s[m], TRUE, appends, pattern)
      /\ s[m].body[2].reads = {Here(name) : name \in {"INCAR", "KPOINTS", "POSCAR", "POTCAR"}}
  <2> DEFINE names == {"INCAR", "KPOINTS", "POSCAR", "POTCAR"}
             reads == {Here(name) : name \in names}
             out == "own"
             mode == "new"
  <2>1. program = Program(reads, Here(out), mode)
    BY DEF program, VaspProgram
  <2>2. names \in SUBSET InputNames /\ names # {} /\ "POSCAR" \in names /\ out \in OutputNames /\ mode = "new"
    BY <1>3
  <2> HIDE DEF names, out, mode
  <2>3. IsProgram(program, appends)
    BY <2>1, <2>2, ProgramIs
  <2>4. program.reads = reads
    BY <2>1, CommandIs DEF Program
  <2>5. \E r \in program.reads : r.name \in Main
    <3>1. Here("POSCAR") \in program.reads /\ Here("POSCAR").name = "POSCAR"
      BY <2>2, <2>4, RefIs
    <3> QED
      BY <1>3, <3>1
  <2>6. DirLoop(s[m], appends) /\ Listed(s[m], TRUE, appends, pattern)
    BY <1>1, <2>3, <2>5, DirLoopIs
  <2>7. s[m].body[2] = program
    BY <1>1, ForIs DEF InEveryDirectory
  <2> QED
    BY <2>4, <2>6, <2>7 DEF names
<1>7. /\ WrittenBefore(s, k, from)
      /\ WrittenBefore(s, 8, "INCAR")
      /\ WrittenBefore(s, 8, "KPOINTS")
      /\ WrittenBefore(s, 8, "POTCAR")
  <2>1. /\ 4 \in 1..k - 1 /\ k \in Nat /\ m \in Nat
        /\ {2, 3, 5} \subseteq 1..8 - 1 /\ 8 \in Nat
    BY DEF k, m
  <2>2. from = "POSCAR"
    BY DEF from
  <2>3. WrittenBefore(s, k, from)
    BY <1>1, <1>3, <2>1, <2>2, WrittenIs
  <2>4. WrittenBefore(s, 8, "INCAR")
    BY <1>1, <1>3, <2>1, <2>2, WrittenIs
  <2>5. WrittenBefore(s, 8, "KPOINTS")
    BY <1>1, <1>3, <2>1, <2>2, WrittenIs
  <2>6. WrittenBefore(s, 8, "POTCAR")
    BY <1>1, <1>3, <2>1, <2>2, WrittenIs
  <2> QED
    BY <2>3, <2>4, <2>5, <2>6
<1>8. \A j \in 1..k - 1 : Prepares(s[j])
  <2>1. 1..k - 1 = {1, 2, 3, 4, 5}
    BY DEF k
  <2> QED
    BY <1>1, <1>3, <2>1 DEF Prepares
<1>9. Prepares(s[7])
  BY <1>1, <1>3 DEF Prepares
<1>10. /\ LoopWrites(s[8], appends, pattern, InItem("POSCAR"))
      /\ LoopWrites(s[8], appends, pattern, InItem("INCAR"))
      /\ LoopWrites(s[8], appends, pattern, InItem("KPOINTS"))
      /\ LoopWrites(s[8], appends, pattern, InItem("POTCAR"))
  <2>1. /\ body8[2].op # "mkdir" /\ body8[2].writes = InItem("POSCAR") /\ 2 \in DOMAIN body8
        /\ body8[3].op # "mkdir" /\ body8[3].writes = InItem("INCAR") /\ 3 \in DOMAIN body8
        /\ body8[4].op # "mkdir" /\ body8[4].writes = InItem("KPOINTS") /\ 4 \in DOMAIN body8
        /\ body8[5].op # "mkdir" /\ body8[5].writes = InItem("POTCAR") /\ 5 \in DOMAIN body8
    BY <1>2, <1>4, ReadsOf, ProgramOp
  <2> QED
    BY <1>5, <2>1 DEF LoopWrites
<1>11. Numbered(s, 8, pattern, appends, pattern)
  BY DEF Numbered
<1>12. ASSUME NEW b \in DOMAIN body8, NEW p \in body8[b].reads
       PROVE  \/ PlainRef(p) /\ WrittenBefore(s, 8, p.name)
              \/ NumberedRef(p) /\ Numbered(s, 8, p.name, appends, pattern)
  <2>1. p \in {Here("INCAR"), Here("KPOINTS"), Here("POTCAR"), HereOf(pattern)}
    BY <1>2, <1>4, ReadsOf, ProgramOp
  <2> QED
    BY <1>3, <1>7, <1>11, <2>1, NumberedReads
<1>13. /\ s[8].body[1].op = "mkdir"
       /\ \A p \in s[m].body[2].reads : LoopWrites(s[8], appends, pattern, InItem(p.name))
  <2>1. s[8].body[1].op = "mkdir"
    BY <1>2, <1>5, ReadsOf
  <2> QED
    BY <1>6, <1>10, <2>1, RefIs
<1> DEFINE L == {8}
           D == {m}
<1>14. /\ m \in Nat /\ k \in 1..m /\ L \in SUBSET (k + 1..m) /\ D \in SUBSET {m} /\ m = 9
       /\ from \in InputNames
  BY <1>3 DEF m, k, from
<1>15. \A j \in k + 1..m : Prepares(s[j]) \/ j \in L \/ j \in D
  BY <1>4, <1>9, <1>14
<1>16. \A j \in L : Listed(s[j], TRUE, appends, pattern) /\ FileLoop(s[j], appends, pattern)
  BY <1>5
<1>17. \A j \in D : Listed(s[j], TRUE, appends, pattern) /\ DirLoop(s[j], appends)
  BY <1>6
<1>18. \A j \in L :
             /\ Numbered(s, j, s[j].writes.name, appends, pattern)
             /\ \A b \in DOMAIN s[j].body : \A p \in s[j].body[b].reads :
                    \/ PlainRef(p) /\ WrittenBefore(s, j, p.name)
                    \/ NumberedRef(p) /\ Numbered(s, j, p.name, appends, pattern)
  BY <1>5, <1>11, <1>12
<1>19. \A j \in D : \E l \in L :
             /\ l < j /\ s[l].body[1].op = "mkdir"
             /\ \A p \in s[j].body[2].reads : LoopWrites(s[l], appends, pattern, InItem(p.name))
  BY <1>13, <1>14
<1>20. \/ D # {}
       \/ \E j \in L, out \in OutputNames : LoopWrites(s[j], appends, pattern, HereOf(out))
  OBVIOUS
<1> HIDE DEF L, D
<1>21. /\ Len(s) = m /\ DOMAIN s = 1..m /\ pattern \in Displaced /\ s[k] = Phonopy(from, pattern)
  BY <1>1, <1>3
<1>22. PhonopyScript(s, m, appends, pattern, k, from, L, D)
  BY <1>7, <1>8, <1>14, <1>15, <1>16, <1>17, <1>18, <1>19, <1>20, <1>21 DEF PhonopyScript
<1>23. Lawful(s, appends, pattern, n)
  BY <1>22, PhonopyLawful
<1> QED
  BY <1>23 DEF s, pattern

(* ... of Abinit ... *)
LEMMA AbinitPhonopyLawful ==
  ASSUME NEW appends, NEW n \in Structures
  PROVE  Lawful(AbinitPhonopy, appends, "supercell", n)
<1> DEFINE s == AbinitPhonopy
           m == 8
           k == 4
           from == "abinit.abi"
           pattern == "supercell"
           body7 == AbinitSupercell
           program == Program({Here("abinit.abi"), Here("pseudo")}, Here("own"), "new")
<1>1. /\ Len(s) = m /\ DOMAIN s = 1..m
      /\ s[1] = Cd("work")
      /\ s[2] = Doc(Here("abinit.abi"))
      /\ s[3] = Fetch(Here("pseudo"))
      /\ s[k] = Phonopy(from, pattern)
      /\ s[5] = Cd("work")
      /\ s[6] = Doc(Here("part-1"))
      /\ s[7] = For(pattern, body7)
      /\ s[m] = InEveryDirectory(program)
  BY DEF AbinitPhonopy
<1>2. /\ Len(body7) = 3 /\ DOMAIN body7 = 1..3
      /\ body7[1] = Mkdir
      /\ body7[2] = Cat({Here("part-1"), HereOf(pattern)}, InItem("abinit.abi"))
      /\ body7[3] = CpToItem("pseudo")
  BY DEF AbinitSupercell
<1>3. /\ pattern \in Displaced /\ {"abinit.abi", "part-1", "pseudo"} \subseteq InputNames
      /\ {"pseudo"} \cap Main = {} /\ "abinit.abi" \in Main /\ {"own"} \subseteq OutputNames
  BY DEF Displaced, InputNames, Main, OutputNames
<1>4. 1..3 = {1, 2, 3} /\ k + 1..m = {5, 6, 7, 8}
  OBVIOUS
<1> HIDE DEF s, m, k, from, pattern, body7, program
<1>5. /\ FileLoop(s[7], appends, pattern) /\ Listed(s[7], TRUE, appends, pattern)
      /\ s[7].body = body7 /\ s[7].writes.name = pattern
  <2> DEFINE z == 3
  <2>1. \A b \in 1..z : InLoop(body7[b], appends)
    <3>1. InLoop(body7[1], appends)
      BY <1>2, InLoopCommands
    <3>2. InLoop(body7[2], appends)
      <4> DEFINE reads == {Here("part-1"), HereOf(pattern)}
      <4>1. reads \subseteq {Here("part-1"), HereOf(pattern)} /\ HereOf(pattern) \in reads
        OBVIOUS
      <4>2. "part-1" \in InputNames /\ pattern \in Displaced \cup {"run-input"}
        BY <1>3
      <4> HIDE DEF reads
      <4>3. InLoop(Cat(reads, InItem("abinit.abi")), appends)
        BY <1>3, <4>1, <4>2, NumberedInLoop
      <4> QED
        BY <1>2, <4>3 DEF reads
    <3>3. InLoop(body7[3], appends)
      BY <1>2, <1>3, InLoopCommands
    <3> QED
      BY <1>4, <3>1, <3>2, <3>3
  <2>2. \A b \in 1..z : body7[b].op = "mkdir" => b = 1
    BY <1>2, <1>4, ReadsOf, ProgramOp
  <2>3. \A b \in 1..z : body7[b].op # "doc"
    BY <1>2, <1>4, ReadsOf, ProgramOp
  <2>4. z \in Nat \ {0} /\ Len(body7) = z /\ DOMAIN body7 = 1..z
    BY <1>2
  <2> HIDE DEF z
  <2>5. s[7].body = body7 /\ s[7].writes.name = pattern
    BY <1>1, ForIs
  <2>6. FileLoop(s[7], appends, pattern) /\ Listed(s[7], TRUE, appends, pattern)
    BY <1>1, <2>1, <2>2, <2>3, <2>4, FileLoopIs
  <2> QED
    BY <2>5, <2>6
<1>6. /\ DirLoop(s[m], appends) /\ Listed(s[m], TRUE, appends, pattern)
      /\ s[m].body[2].reads = {Here(name) : name \in {"abinit.abi", "pseudo"}}
  <2> DEFINE names == {"abinit.abi", "pseudo"}
             reads == {Here(name) : name \in names}
             out == "own"
             mode == "new"
  <2>1. program = Program(reads, Here(out), mode)
    BY DEF program
  <2>2. names \in SUBSET InputNames /\ names # {} /\ "abinit.abi" \in names /\ out \in OutputNames /\ mode = "new"
    BY <1>3
  <2> HIDE DEF names, out, mode
  <2>3. IsProgram(program, appends)
    BY <2>1, <2>2, ProgramIs
  <2>4. program.reads = reads
    BY <2>1, CommandIs DEF Program
  <2>5. \E r \in program.reads : r.name \in Main
    <3>1. Here("abinit.abi") \in program.reads /\ Here("abinit.abi").name = "abinit.abi"
      BY <2>2, <2>4, RefIs
    <3> QED
      BY <1>3, <3>1
  <2>6. DirLoop(s[m], appends) /\ Listed(s[m], TRUE, appends, pattern)
    BY <1>1, <2>3, <2>5, DirLoopIs
  <2>7. s[m].body[2] = program
    BY <1>1, ForIs DEF InEveryDirectory
  <2> QED
    BY <2>4, <2>6, <2>7 DEF names
<1>7. /\ WrittenBefore(s, k, from)
      /\ WrittenBefore(s, 7, "part-1")
      /\ WrittenBefore(s, 7, "pseudo")
  <2>1. /\ 2 \in 1..k - 1 /\ k \in Nat /\ m \in Nat
        /\ {6, 3} \subseteq 1..7 - 1 /\ 7 \in Nat
    BY DEF k, m
  <2>2. from = "abinit.abi"
    BY DEF from
  <2>3. WrittenBefore(s, k, from)
    BY <1>1, <1>3, <2>1, <2>2, WrittenIs
  <2>4. WrittenBefore(s, 7, "part-1")
    BY <1>1, <1>3, <2>1, <2>2, WrittenIs
  <2>5. WrittenBefore(s, 7, "pseudo")
    BY <1>1, <1>3, <2>1, <2>2, WrittenIs
  <2> QED
    BY <2>3, <2>4, <2>5
<1>8. \A j \in 1..k - 1 : Prepares(s[j])
  <2>1. 1..k - 1 = {1, 2, 3}
    BY DEF k
  <2> QED
    BY <1>1, <1>3, <2>1 DEF Prepares
<1>9. Prepares(s[5]) /\ Prepares(s[6])
  BY <1>1, <1>3 DEF Prepares
<1>10. /\ LoopWrites(s[7], appends, pattern, InItem("abinit.abi"))
      /\ LoopWrites(s[7], appends, pattern, InItem("pseudo"))
  <2>1. /\ body7[2].op # "mkdir" /\ body7[2].writes = InItem("abinit.abi") /\ 2 \in DOMAIN body7
        /\ body7[3].op # "mkdir" /\ body7[3].writes = InItem("pseudo") /\ 3 \in DOMAIN body7
    BY <1>2, <1>4, ReadsOf, ProgramOp
  <2> QED
    BY <1>5, <2>1 DEF LoopWrites
<1>11. Numbered(s, 7, pattern, appends, pattern)
  BY DEF Numbered
<1>12. ASSUME NEW b \in DOMAIN body7, NEW p \in body7[b].reads
       PROVE  \/ PlainRef(p) /\ WrittenBefore(s, 7, p.name)
              \/ NumberedRef(p) /\ Numbered(s, 7, p.name, appends, pattern)
  <2>1. p \in {Here("part-1"), Here("pseudo"), HereOf(pattern)}
    BY <1>2, <1>4, ReadsOf, ProgramOp
  <2> QED
    BY <1>3, <1>7, <1>11, <2>1, NumberedReads
<1>13. /\ s[7].body[1].op = "mkdir"
       /\ \A p \in s[m].body[2].reads : LoopWrites(s[7], appends, pattern, InItem(p.name))
  <2>1. s[7].body[1].op = "mkdir"
    BY <1>2, <1>5, ReadsOf
  <2> QED
    BY <1>6, <1>10, <2>1, RefIs
<1> DEFINE L == {7}
           D == {m}
<1>14. /\ m \in Nat /\ k \in 1..m /\ L \in SUBSET (k + 1..m) /\ D \in SUBSET {m} /\ m = 8
       /\ from \in InputNames
  BY <1>3 DEF m, k, from
<1>15. \A j \in k + 1..m : Prepares(s[j]) \/ j \in L \/ j \in D
  BY <1>4, <1>9, <1>14
<1>16. \A j \in L : Listed(s[j], TRUE, appends, pattern) /\ FileLoop(s[j], appends, pattern)
  BY <1>5
<1>17. \A j \in D : Listed(s[j], TRUE, appends, pattern) /\ DirLoop(s[j], appends)
  BY <1>6
<1>18. \A j \in L :
             /\ Numbered(s, j, s[j].writes.name, appends, pattern)
             /\ \A b \in DOMAIN s[j].body : \A p \in s[j].body[b].reads :
                    \/ PlainRef(p) /\ WrittenBefore(s, j, p.name)
                    \/ NumberedRef(p) /\ Numbered(s, j, p.name, appends, pattern)
  BY <1>5, <1>11, <1>12
<1>19. \A j \in D : \E l \in L :
             /\ l < j /\ s[l].body[1].op = "mkdir"
             /\ \A p \in s[j].body[2].reads : LoopWrites(s[l], appends, pattern, InItem(p.name))
  BY <1>13, <1>14
<1>20. \/ D # {}
       \/ \E j \in L, out \in OutputNames : LoopWrites(s[j], appends, pattern, HereOf(out))
  OBVIOUS
<1> HIDE DEF L, D
<1>21. /\ Len(s) = m /\ DOMAIN s = 1..m /\ pattern \in Displaced /\ s[k] = Phonopy(from, pattern)
  BY <1>1, <1>3
<1>22. PhonopyScript(s, m, appends, pattern, k, from, L, D)
  BY <1>7, <1>8, <1>14, <1>15, <1>16, <1>17, <1>18, <1>19, <1>20, <1>21 DEF PhonopyScript
<1>23. Lawful(s, appends, pattern, n)
  BY <1>22, PhonopyLawful
<1> QED
  BY <1>23 DEF s, pattern

(* ... of SIESTA ... *)
LEMMA SiestaPhonopyLawful ==
  ASSUME NEW appends, NEW n \in Structures
  PROVE  Lawful(SiestaPhonopy, appends, "supercell", n)
<1> DEFINE s == SiestaPhonopy
           m == 8
           k == 4
           from == "input"
           pattern == "supercell"
           body7 == SiestaSupercell
           program == Program({Here("fdf"), Here("pseudo")}, Here("output"), "new")
<1>1. /\ Len(s) = m /\ DOMAIN s = 1..m
      /\ s[1] = Cd("work")
      /\ s[2] = Doc(Here("input"))
      /\ s[3] = Fetch(Here("pseudo"))
      /\ s[k] = Phonopy(from, pattern)
      /\ s[5] = Cd("work")
      /\ s[6] = Doc(Here("part-1"))
      /\ s[7] = For(pattern, body7)
      /\ s[m] = InEveryDirectory(program)
  BY DEF SiestaPhonopy
<1>2. /\ Len(body7) = 4 /\ DOMAIN body7 = 1..4
      /\ body7[1] = Mkdir
      /\ body7[2] = Cat({Here("part-1"), HereOf(pattern)}, InItem("fdf"))
      /\ body7[3] = DocAppended(InItem("fdf"))
      /\ body7[4] = CpToItem("pseudo")
  BY DEF SiestaSupercell
<1>3. /\ pattern \in Displaced /\ {"fdf", "input", "part-1", "pseudo"} \subseteq InputNames
      /\ {"pseudo"} \cap Main = {} /\ "fdf" \in Main /\ {"output"} \subseteq OutputNames
  BY DEF Displaced, InputNames, Main, OutputNames
<1>4. 1..4 = {1, 2, 3, 4} /\ k + 1..m = {5, 6, 7, 8}
  OBVIOUS
<1> HIDE DEF s, m, k, from, pattern, body7, program
<1>5. /\ FileLoop(s[7], appends, pattern) /\ Listed(s[7], TRUE, appends, pattern)
      /\ s[7].body = body7 /\ s[7].writes.name = pattern
  <2> DEFINE z == 4
  <2>1. \A b \in 1..z : InLoop(body7[b], appends)
    <3>1. InLoop(body7[1], appends)
      BY <1>2, InLoopCommands
    <3>2. InLoop(body7[2], appends)
      <4> DEFINE reads == {Here("part-1"), HereOf(pattern)}
      <4>1. reads \subseteq {Here("part-1"), HereOf(pattern)} /\ HereOf(pattern) \in reads
        OBVIOUS
      <4>2. "part-1" \in InputNames /\ pattern \in Displaced \cup {"run-input"}
        BY <1>3
      <4> HIDE DEF reads
      <4>3. InLoop(Cat(reads, InItem("fdf")), appends)
        BY <1>3, <4>1, <4>2, NumberedInLoop
      <4> QED
        BY <1>2, <4>3 DEF reads
    <3>3. InLoop(body7[3], appends)
      BY <1>2, <1>3, InLoopCommands
    <3>4. InLoop(body7[4], appends)
      BY <1>2, <1>3, InLoopCommands
    <3> QED
      BY <1>4, <3>1, <3>2, <3>3, <3>4
  <2>2. \A b \in 1..z : body7[b].op = "mkdir" => b = 1
    BY <1>2, <1>4, ReadsOf, ProgramOp
  <2>3. \A b \in 1..z : body7[b].op = "doc" =>
            \E l \in 1..b - 1 : body7[l].op = "cat" /\ body7[l].writes = body7[b].writes
    <3>1. \A b \in 1..z : body7[b].op = "doc" => b = 3
      BY <1>2, <1>4, ReadsOf
    <3>2. body7[2].op = "cat" /\ body7[2].writes = body7[3].writes /\ 2 \in 1..3 - 1
      BY <1>2, ReadsOf
    <3> QED
      BY <3>1, <3>2
  <2>4. z \in Nat \ {0} /\ Len(body7) = z /\ DOMAIN body7 = 1..z
    BY <1>2
  <2> HIDE DEF z
  <2>5. s[7].body = body7 /\ s[7].writes.name = pattern
    BY <1>1, ForIs
  <2>6. FileLoop(s[7], appends, pattern) /\ Listed(s[7], TRUE, appends, pattern)
    BY <1>1, <2>1, <2>2, <2>3, <2>4, FileLoopIs
  <2> QED
    BY <2>5, <2>6
<1>6. /\ DirLoop(s[m], appends) /\ Listed(s[m], TRUE, appends, pattern)
      /\ s[m].body[2].reads = {Here(name) : name \in {"fdf", "pseudo"}}
  <2> DEFINE names == {"fdf", "pseudo"}
             reads == {Here(name) : name \in names}
             out == "output"
             mode == "new"
  <2>1. program = Program(reads, Here(out), mode)
    BY DEF program
  <2>2. names \in SUBSET InputNames /\ names # {} /\ "fdf" \in names /\ out \in OutputNames /\ mode = "new"
    BY <1>3
  <2> HIDE DEF names, out, mode
  <2>3. IsProgram(program, appends)
    BY <2>1, <2>2, ProgramIs
  <2>4. program.reads = reads
    BY <2>1, CommandIs DEF Program
  <2>5. \E r \in program.reads : r.name \in Main
    <3>1. Here("fdf") \in program.reads /\ Here("fdf").name = "fdf"
      BY <2>2, <2>4, RefIs
    <3> QED
      BY <1>3, <3>1
  <2>6. DirLoop(s[m], appends) /\ Listed(s[m], TRUE, appends, pattern)
    BY <1>1, <2>3, <2>5, DirLoopIs
  <2>7. s[m].body[2] = program
    BY <1>1, ForIs DEF InEveryDirectory
  <2> QED
    BY <2>4, <2>6, <2>7 DEF names
<1>7. /\ WrittenBefore(s, k, from)
      /\ WrittenBefore(s, 7, "part-1")
      /\ WrittenBefore(s, 7, "pseudo")
  <2>1. /\ 2 \in 1..k - 1 /\ k \in Nat /\ m \in Nat
        /\ {6, 3} \subseteq 1..7 - 1 /\ 7 \in Nat
    BY DEF k, m
  <2>2. from = "input"
    BY DEF from
  <2>3. WrittenBefore(s, k, from)
    BY <1>1, <1>3, <2>1, <2>2, WrittenIs
  <2>4. WrittenBefore(s, 7, "part-1")
    BY <1>1, <1>3, <2>1, <2>2, WrittenIs
  <2>5. WrittenBefore(s, 7, "pseudo")
    BY <1>1, <1>3, <2>1, <2>2, WrittenIs
  <2> QED
    BY <2>3, <2>4, <2>5
<1>8. \A j \in 1..k - 1 : Prepares(s[j])
  <2>1. 1..k - 1 = {1, 2, 3}
    BY DEF k
  <2> QED
    BY <1>1, <1>3, <2>1 DEF Prepares
<1>9. Prepares(s[5]) /\ Prepares(s[6])
  BY <1>1, <1>3 DEF Prepares
<1>10. /\ LoopWrites(s[7], appends, pattern, InItem("fdf"))
      /\ LoopWrites(s[7], appends, pattern, InItem("pseudo"))
  <2>1. /\ body7[2].op # "mkdir" /\ body7[2].writes = InItem("fdf") /\ 2 \in DOMAIN body7
        /\ body7[4].op # "mkdir" /\ body7[4].writes = InItem("pseudo") /\ 4 \in DOMAIN body7
    BY <1>2, <1>4, ReadsOf, ProgramOp
  <2> QED
    BY <1>5, <2>1 DEF LoopWrites
<1>11. Numbered(s, 7, pattern, appends, pattern)
  BY DEF Numbered
<1>12. ASSUME NEW b \in DOMAIN body7, NEW p \in body7[b].reads
       PROVE  \/ PlainRef(p) /\ WrittenBefore(s, 7, p.name)
              \/ NumberedRef(p) /\ Numbered(s, 7, p.name, appends, pattern)
  <2>1. p \in {Here("part-1"), Here("pseudo"), HereOf(pattern)}
    BY <1>2, <1>4, ReadsOf, ProgramOp
  <2> QED
    BY <1>3, <1>7, <1>11, <2>1, NumberedReads
<1>13. /\ s[7].body[1].op = "mkdir"
       /\ \A p \in s[m].body[2].reads : LoopWrites(s[7], appends, pattern, InItem(p.name))
  <2>1. s[7].body[1].op = "mkdir"
    BY <1>2, <1>5, ReadsOf
  <2> QED
    BY <1>6, <1>10, <2>1, RefIs
<1> DEFINE L == {7}
           D == {m}
<1>14. /\ m \in Nat /\ k \in 1..m /\ L \in SUBSET (k + 1..m) /\ D \in SUBSET {m} /\ m = 8
       /\ from \in InputNames
  BY <1>3 DEF m, k, from
<1>15. \A j \in k + 1..m : Prepares(s[j]) \/ j \in L \/ j \in D
  BY <1>4, <1>9, <1>14
<1>16. \A j \in L : Listed(s[j], TRUE, appends, pattern) /\ FileLoop(s[j], appends, pattern)
  BY <1>5
<1>17. \A j \in D : Listed(s[j], TRUE, appends, pattern) /\ DirLoop(s[j], appends)
  BY <1>6
<1>18. \A j \in L :
             /\ Numbered(s, j, s[j].writes.name, appends, pattern)
             /\ \A b \in DOMAIN s[j].body : \A p \in s[j].body[b].reads :
                    \/ PlainRef(p) /\ WrittenBefore(s, j, p.name)
                    \/ NumberedRef(p) /\ Numbered(s, j, p.name, appends, pattern)
  BY <1>5, <1>11, <1>12
<1>19. \A j \in D : \E l \in L :
             /\ l < j /\ s[l].body[1].op = "mkdir"
             /\ \A p \in s[j].body[2].reads : LoopWrites(s[l], appends, pattern, InItem(p.name))
  BY <1>13, <1>14
<1>20. \/ D # {}
       \/ \E j \in L, out \in OutputNames : LoopWrites(s[j], appends, pattern, HereOf(out))
  OBVIOUS
<1> HIDE DEF L, D
<1>21. /\ Len(s) = m /\ DOMAIN s = 1..m /\ pattern \in Displaced /\ s[k] = Phonopy(from, pattern)
  BY <1>1, <1>3
<1>22. PhonopyScript(s, m, appends, pattern, k, from, L, D)
  BY <1>7, <1>8, <1>14, <1>15, <1>16, <1>17, <1>18, <1>19, <1>20, <1>21 DEF PhonopyScript
<1>23. Lawful(s, appends, pattern, n)
  BY <1>22, PhonopyLawful
<1> QED
  BY <1>23 DEF s, pattern

(* ... of PWscf ... *)
LEMMA PwPhonopyLawful ==
  ASSUME NEW appends, NEW n \in Structures
  PROVE  Lawful(PwPhonopy, appends, "supercell", n)
<1> DEFINE s == PwPhonopy
           m == 8
           k == 4
           from == "input"
           pattern == "supercell"
           body7 == PwSupercell
           body8 == <<Program({HereOf("run-input"), Here("pseudo")}, HereOf("output"), "new")>>
<1>1. /\ Len(s) = m /\ DOMAIN s = 1..m
      /\ s[1] = Cd("work")
      /\ s[2] = Doc(Here("input"))
      /\ s[3] = Fetch(InWork("pseudo"))
      /\ s[k] = Phonopy(from, pattern)
      /\ s[5] = Cd("work")
      /\ s[6] = Doc(Here("part-1"))
      /\ s[7] = For(pattern, body7)
      /\ s[m] = For("run-input", body8)
  BY DEF PwPhonopy
<1>2. /\ Len(body7) = 2 /\ DOMAIN body7 = 1..2
      /\ body7[1] = Cat({Here("part-1"), HereOf(pattern)}, HereOf("run-input"))
      /\ body7[2] = DocAppended(HereOf("run-input"))
      /\ Len(body8) = 1 /\ DOMAIN body8 = 1..1
      /\ body8[1] = Program({HereOf("run-input"), Here("pseudo")}, HereOf("output"), "new")
  BY DEF PwSupercell
<1>3. /\ pattern \in Displaced /\ {"input", "part-1", "pseudo", "run-input"} \subseteq InputNames
      /\ {"output"} \subseteq OutputNames
  BY DEF Displaced, InputNames, Main, OutputNames
<1>4. 1..1 = {1} /\ 1..2 = {1, 2} /\ k + 1..m = {5, 6, 7, 8}
  OBVIOUS
<1> HIDE DEF s, m, k, from, pattern, body7, body8
<1>5. /\ FileLoop(s[7], appends, pattern) /\ Listed(s[7], TRUE, appends, pattern)
      /\ s[7].body = body7 /\ s[7].writes.name = pattern
  <2> DEFINE z == 2
  <2>1. \A b \in 1..z : InLoop(body7[b], appends)
    <3>1. InLoop(body7[1], appends)
      <4> DEFINE reads == {Here("part-1"), HereOf(pattern)}
      <4>1. reads \subseteq {Here("part-1"), HereOf(pattern)} /\ HereOf(pattern) \in reads
        OBVIOUS
      <4>2. "part-1" \in InputNames /\ pattern \in Displaced \cup {"run-input"}
        BY <1>3
      <4> HIDE DEF reads
      <4>3. InLoop(Cat(reads, HereOf("run-input")), appends)
        BY <1>3, <4>1, <4>2, NumberedInLoop
      <4> QED
        BY <1>2, <4>3 DEF reads
    <3>2. InLoop(body7[2], appends)
      BY <1>2, <1>3, InLoopCommands
    <3> QED
      BY <1>4, <3>1, <3>2
  <2>2. \A b \in 1..z : body7[b].op = "mkdir" => b = 1
    BY <1>2, <1>4, ReadsOf, ProgramOp
  <2>3. \A b \in 1..z : body7[b].op = "doc" =>
            \E l \in 1..b - 1 : body7[l].op = "cat" /\ body7[l].writes = body7[b].writes
    <3>1. \A b \in 1..z : body7[b].op = "doc" => b = 2
      BY <1>2, <1>4, ReadsOf
    <3>2. body7[1].op = "cat" /\ body7[1].writes = body7[2].writes /\ 1 \in 1..2 - 1
      BY <1>2, ReadsOf
    <3> QED
      BY <3>1, <3>2
  <2>4. z \in Nat \ {0} /\ Len(body7) = z /\ DOMAIN body7 = 1..z
    BY <1>2
  <2> HIDE DEF z
  <2>5. s[7].body = body7 /\ s[7].writes.name = pattern
    BY <1>1, ForIs
  <2>6. FileLoop(s[7], appends, pattern) /\ Listed(s[7], TRUE, appends, pattern)
    BY <1>1, <2>1, <2>2, <2>3, <2>4, FileLoopIs
  <2> QED
    BY <2>5, <2>6
<1>6. /\ FileLoop(s[m], appends, pattern) /\ Listed(s[m], TRUE, appends, pattern)
      /\ s[m].body = body8 /\ s[m].writes.name = "run-input"
  <2> DEFINE z == 1
  <2>1. \A b \in 1..z : InLoop(body8[b], appends)
    <3>1. InLoop(body8[1], appends)
      <4> DEFINE reads == {HereOf("run-input"), Here("pseudo")}
      <4>1. reads \subseteq {Here("pseudo"), HereOf("run-input")} /\ HereOf("run-input") \in reads
        OBVIOUS
      <4>2. "pseudo" \in InputNames /\ "run-input" \in Displaced \cup {"run-input"}
        BY <1>3
      <4> HIDE DEF reads
      <4>3. InLoop(Program(reads, HereOf("output"), "new"), appends)
        BY <1>3, <4>1, <4>2, NumberedInLoop
      <4> QED
        BY <1>2, <4>3 DEF reads
    <3> QED
      BY <1>4, <3>1
  <2>2. \A b \in 1..z : body8[b].op = "mkdir" => b = 1 /\ FALSE
    BY <1>2, <1>4, ReadsOf, ProgramOp
  <2>3. \A b \in 1..z : body8[b].op # "doc"
    BY <1>2, <1>4, ReadsOf, ProgramOp
  <2>4. z \in Nat \ {0} /\ Len(body8) = z /\ DOMAIN body8 = 1..z
    BY <1>2
  <2> HIDE DEF z
  <2>5. s[m].body = body8 /\ s[m].writes.name = "run-input"
    BY <1>1, ForIs
  <2>6. FileLoop(s[m], appends, pattern) /\ Listed(s[m], TRUE, appends, pattern)
    BY <1>1, <2>1, <2>2, <2>3, <2>4, FileLoopIs
  <2> QED
    BY <2>5, <2>6
<1>7. /\ WrittenBefore(s, k, from)
      /\ WrittenBefore(s, 7, "part-1")
      /\ WrittenBefore(s, m, "pseudo")
  <2>1. /\ 2 \in 1..k - 1 /\ k \in Nat /\ m \in Nat
        /\ {6} \subseteq 1..7 - 1 /\ 7 \in Nat
        /\ {3} \subseteq 1..m - 1 /\ m \in Nat
    BY DEF k, m
  <2>2. from = "input"
    BY DEF from
  <2>3. WrittenBefore(s, k, from)
    BY <1>1, <1>3, <2>1, <2>2, WrittenIs
  <2>4. WrittenBefore(s, 7, "part-1")
    BY <1>1, <1>3, <2>1, <2>2, WrittenIs
  <2>5. WrittenBefore(s, m, "pseudo")
    BY <1>1, <1>3, <2>1, <2>2, WrittenIs
  <2> QED
    BY <2>3, <2>4, <2>5
<1>8. \A j \in 1..k - 1 : Prepares(s[j])
  <2>1. 1..k - 1 = {1, 2, 3}
    BY DEF k
  <2> QED
    BY <1>1, <1>3, <2>1 DEF Prepares
<1>9. Prepares(s[5]) /\ Prepares(s[6])
  BY <1>1, <1>3 DEF Prepares
<1>10. /\ LoopWrites(s[7], appends, pattern, HereOf("run-input"))
  <2>1. /\ body7[1].op # "mkdir" /\ body7[1].writes = HereOf("run-input") /\ 1 \in DOMAIN body7
    BY <1>2, <1>4, ReadsOf, ProgramOp
  <2> QED
    BY <1>5, <2>1 DEF LoopWrites
<1>11. /\ LoopWrites(s[m], appends, pattern, HereOf("output"))
  <2>1. /\ body8[1].op # "mkdir" /\ body8[1].writes = HereOf("output") /\ 1 \in DOMAIN body8
    BY <1>2, <1>4, ReadsOf, ProgramOp
  <2> QED
    BY <1>6, <2>1 DEF LoopWrites
<1>12. Numbered(s, 7, pattern, appends, pattern)
  BY DEF Numbered
<1>13. ASSUME NEW b \in DOMAIN body7, NEW p \in body7[b].reads
       PROVE  \/ PlainRef(p) /\ WrittenBefore(s, 7, p.name)
              \/ NumberedRef(p) /\ Numbered(s, 7, p.name, appends, pattern)
  <2>1. p \in {Here("part-1"), HereOf(pattern)}
    BY <1>2, <1>4, ReadsOf, ProgramOp
  <2> QED
    BY <1>3, <1>7, <1>12, <2>1, NumberedReads
<1>14. Numbered(s, m, "run-input", appends, pattern)
  <2>1. 7 \in 1..m - 1
    BY DEF m
  <2> QED
    BY <1>10, <2>1 DEF Numbered
<1>15. ASSUME NEW b \in DOMAIN body8, NEW p \in body8[b].reads
       PROVE  \/ PlainRef(p) /\ WrittenBefore(s, m, p.name)
              \/ NumberedRef(p) /\ Numbered(s, m, p.name, appends, pattern)
  <2>1. p \in {Here("pseudo"), HereOf("run-input")}
    BY <1>2, <1>4, ReadsOf, ProgramOp
  <2> QED
    BY <1>3, <1>7, <1>14, <2>1, NumberedReads
<1> DEFINE L == {7, m}
           D == {}
<1>16. /\ m \in Nat /\ k \in 1..m /\ L \in SUBSET (k + 1..m) /\ D \in SUBSET {m} /\ m = 8
       /\ from \in InputNames
  BY <1>3 DEF m, k, from
<1>17. \A j \in k + 1..m : Prepares(s[j]) \/ j \in L \/ j \in D
  BY <1>4, <1>9, <1>16
<1>18. \A j \in L : Listed(s[j], TRUE, appends, pattern) /\ FileLoop(s[j], appends, pattern)
  BY <1>5, <1>6
<1>19. \A j \in D : Listed(s[j], TRUE, appends, pattern) /\ DirLoop(s[j], appends)
  OBVIOUS
<1>20. \A j \in L :
             /\ Numbered(s, j, s[j].writes.name, appends, pattern)
             /\ \A b \in DOMAIN s[j].body : \A p \in s[j].body[b].reads :
                    \/ PlainRef(p) /\ WrittenBefore(s, j, p.name)
                    \/ NumberedRef(p) /\ Numbered(s, j, p.name, appends, pattern)
  BY <1>5, <1>6, <1>12, <1>14, <1>13, <1>15
<1>21. \A j \in D : \E l \in L :
             /\ l < j /\ s[l].body[1].op = "mkdir"
             /\ \A p \in s[j].body[2].reads : LoopWrites(s[l], appends, pattern, InItem(p.name))
  OBVIOUS
<1>22. \/ D # {}
       \/ \E j \in L, out \in OutputNames : LoopWrites(s[j], appends, pattern, HereOf(out))
  BY <1>3, <1>11
<1> HIDE DEF L, D
<1>23. /\ Len(s) = m /\ DOMAIN s = 1..m /\ pattern \in Displaced /\ s[k] = Phonopy(from, pattern)
  BY <1>1, <1>3
<1>24. PhonopyScript(s, m, appends, pattern, k, from, L, D)
  BY <1>7, <1>8, <1>16, <1>17, <1>18, <1>19, <1>20, <1>21, <1>22, <1>23 DEF PhonopyScript
<1>25. Lawful(s, appends, pattern, n)
  BY <1>24, PhonopyLawful
<1> QED
  BY <1>25 DEF s, pattern

(* ... and of CP2K. *)
LEMMA Cp2kPhonopyLawful ==
  ASSUME NEW appends, appends, NEW n \in Structures
  PROVE  Lawful(Cp2kPhonopy, appends, "supercell", n)
<1> DEFINE s == Cp2kPhonopy
           m == 4
           k == 3
           from == "input"
           pattern == "supercell"
           body4 == <<Program({HereOf("supercell")}, HereOf("output"), "append")>>
<1>1. /\ Len(s) = m /\ DOMAIN s = 1..m
      /\ s[1] = Cd("work")
      /\ s[2] = Doc(Here("input"))
      /\ s[k] = Phonopy(from, pattern)
      /\ s[m] = For(pattern, body4)
  BY DEF Cp2kPhonopy
<1>2. /\ Len(body4) = 1 /\ DOMAIN body4 = 1..1
      /\ body4[1] = Program({HereOf(pattern)}, HereOf("output"), "append")
  OBVIOUS
<1>3. /\ pattern \in Displaced /\ {"input"} \subseteq InputNames
      /\ {"output"} \subseteq OutputNames
  BY DEF Displaced, InputNames, Main, OutputNames
<1>4. 1..1 = {1} /\ k + 1..m = {4}
  OBVIOUS
<1> HIDE DEF s, m, k, from, pattern, body4
<1>5. /\ FileLoop(s[m], appends, pattern) /\ Listed(s[m], TRUE, appends, pattern)
      /\ s[m].body = body4 /\ s[m].writes.name = pattern
  <2> DEFINE z == 1
  <2>1. \A b \in 1..z : InLoop(body4[b], appends)
    <3>1. InLoop(body4[1], appends)
      <4> DEFINE reads == {HereOf(pattern)}
      <4>1. reads \subseteq {Here("input"), HereOf(pattern)} /\ HereOf(pattern) \in reads
        OBVIOUS
      <4>2. "input" \in InputNames /\ pattern \in Displaced \cup {"run-input"}
        BY <1>3
      <4> HIDE DEF reads
      <4>3. InLoop(Program(reads, HereOf("output"), "append"), appends)
        BY <1>3, <4>1, <4>2, NumberedInLoop
      <4> QED
        BY <1>2, <4>3 DEF reads
    <3> QED
      BY <1>4, <3>1
  <2>2. \A b \in 1..z : body4[b].op = "mkdir" => b = 1
    BY <1>2, <1>4, ReadsOf, ProgramOp
  <2>3. \A b \in 1..z : body4[b].op # "doc"
    BY <1>2, <1>4, ReadsOf, ProgramOp
  <2>4. z \in Nat \ {0} /\ Len(body4) = z /\ DOMAIN body4 = 1..z
    BY <1>2
  <2> HIDE DEF z
  <2>5. s[m].body = body4 /\ s[m].writes.name = pattern
    BY <1>1, ForIs
  <2>6. FileLoop(s[m], appends, pattern) /\ Listed(s[m], TRUE, appends, pattern)
    BY <1>1, <2>1, <2>2, <2>3, <2>4, FileLoopIs
  <2> QED
    BY <2>5, <2>6
<1>6. /\ WrittenBefore(s, k, from)
  <2>1. /\ 2 \in 1..k - 1 /\ k \in Nat /\ m \in Nat
    BY DEF k, m
  <2>2. from = "input"
    BY DEF from
  <2>3. WrittenBefore(s, k, from)
    BY <1>1, <1>3, <2>1, <2>2, WrittenIs
  <2> QED
    BY <2>3
<1>7. \A j \in 1..k - 1 : Prepares(s[j])
  <2>1. 1..k - 1 = {1, 2}
    BY DEF k
  <2> QED
    BY <1>1, <1>3, <2>1 DEF Prepares
<1>8. /\ LoopWrites(s[m], appends, pattern, HereOf("output"))
  <2>1. /\ body4[1].op # "mkdir" /\ body4[1].writes = HereOf("output") /\ 1 \in DOMAIN body4
    BY <1>2, <1>4, ReadsOf, ProgramOp
  <2> QED
    BY <1>5, <2>1 DEF LoopWrites
<1>9. Numbered(s, m, pattern, appends, pattern)
  BY DEF Numbered
<1>10. ASSUME NEW b \in DOMAIN body4, NEW p \in body4[b].reads
       PROVE  \/ PlainRef(p) /\ WrittenBefore(s, m, p.name)
              \/ NumberedRef(p) /\ Numbered(s, m, p.name, appends, pattern)
  <2>1. p \in {HereOf(pattern)}
    BY <1>2, <1>4, ReadsOf, ProgramOp
  <2> QED
    BY <1>3, <1>6, <1>9, <2>1, NumberedReads
<1> DEFINE L == {m}
           D == {}
<1>11. /\ m \in Nat /\ k \in 1..m /\ L \in SUBSET (k + 1..m) /\ D \in SUBSET {m} /\ m = 4
       /\ from \in InputNames
  BY <1>3 DEF m, k, from
<1>12. \A j \in k + 1..m : Prepares(s[j]) \/ j \in L \/ j \in D
  BY <1>4, <1>11
<1>13. \A j \in L : Listed(s[j], TRUE, appends, pattern) /\ FileLoop(s[j], appends, pattern)
  BY <1>5
<1>14. \A j \in D : Listed(s[j], TRUE, appends, pattern) /\ DirLoop(s[j], appends)
  OBVIOUS
<1>15. \A j \in L :
             /\ Numbered(s, j, s[j].writes.name, appends, pattern)
             /\ \A b \in DOMAIN s[j].body : \A p \in s[j].body[b].reads :
                    \/ PlainRef(p) /\ WrittenBefore(s, j, p.name)
                    \/ NumberedRef(p) /\ Numbered(s, j, p.name, appends, pattern)
  BY <1>5, <1>9, <1>10
<1>16. \A j \in D : \E l \in L :
             /\ l < j /\ s[l].body[1].op = "mkdir"
             /\ \A p \in s[j].body[2].reads : LoopWrites(s[l], appends, pattern, InItem(p.name))
  OBVIOUS
<1>17. \/ D # {}
       \/ \E j \in L, out \in OutputNames : LoopWrites(s[j], appends, pattern, HereOf(out))
  BY <1>3, <1>8
<1> HIDE DEF L, D
<1>18. /\ Len(s) = m /\ DOMAIN s = 1..m /\ pattern \in Displaced /\ s[k] = Phonopy(from, pattern)
  BY <1>1, <1>3
<1>19. PhonopyScript(s, m, appends, pattern, k, from, L, D)
  BY <1>6, <1>7, <1>11, <1>12, <1>13, <1>14, <1>15, <1>16, <1>17, <1>18 DEF PhonopyScript
<1>20. Lawful(s, appends, pattern, n)
  BY <1>19, PhonopyLawful
<1> QED
  BY <1>20 DEF s, pattern

SingleSteps ==
    {"octopus", "orca", "gromacs", "nwchem", "gaussian", "elk", "xtb", "gamessus", "exciting",
     "dftbplus", "dalton", "qchem", "lammps", "qmcpack"}

(* The calculators with one input and one program. *)
LEMMA SingleStepScripts ==
  ASSUME NEW x \in SingleSteps
  PROVE  \E input \in InputNames, out \in OutputNames : Steps[x] = SingleStep(input, out)
<1>1. /\ {"inp", "orca.inp", "input", "nwchem.nw", "gaussian.gjf", "elk.in", "xtb.inp",
          "gamessus.inp", "DALTON.INP", "qchem.inp"} \subseteq InputNames
      /\ {"own", "octopus.out", "nwchem.out", "elk.out", "gamessus.out"} \subseteq OutputNames
  BY DEF InputNames, OutputNames
<1>2. /\ Steps["octopus"] = Octopus /\ Steps["orca"] = Orca /\ Steps["gromacs"] = Gromacs
      /\ Steps["nwchem"] = NWChem /\ Steps["gaussian"] = Gaussian /\ Steps["elk"] = Elk
      /\ Steps["xtb"] = Xtb /\ Steps["gamessus"] = GamessUS /\ Steps["exciting"] = Exciting
      /\ Steps["dftbplus"] = DftbPlus /\ Steps["dalton"] = Dalton /\ Steps["qchem"] = QChem
      /\ Steps["lammps"] = Lammps /\ Steps["qmcpack"] = Qmcpack
  BY DEF Steps
<1>3. /\ Octopus = SingleStep("inp", "octopus.out")
      /\ Orca = SingleStep("orca.inp", "own")
      /\ Gromacs = SingleStep("input", "own")
      /\ NWChem = SingleStep("nwchem.nw", "nwchem.out")
      /\ Gaussian = SingleStep("gaussian.gjf", "own")
      /\ Elk = SingleStep("elk.in", "elk.out")
      /\ Xtb = SingleStep("xtb.inp", "own")
      /\ GamessUS = SingleStep("gamessus.inp", "gamessus.out")
      /\ Exciting = SingleStep("input", "own")
      /\ DftbPlus = SingleStep("input", "own")
      /\ Dalton = SingleStep("DALTON.INP", "own")
      /\ QChem = SingleStep("qchem.inp", "own")
      /\ Lammps = SingleStep("input", "own")
      /\ Qmcpack = SingleStep("input", "own")
  BY DEF Octopus, Orca, Gromacs, NWChem, Gaussian, Elk, Xtb, GamessUS, Exciting, DftbPlus, Dalton,
         QChem, Lammps, Qmcpack
<1> QED
  BY <1>1, <1>2, <1>3 DEF SingleSteps

(* All scripts of the program are lawful, for any number of supercells. *)
LEMMA ScriptsAreLawful ==
  ASSUME NEW x \in DOMAIN Steps, NEW n \in Structures
  PROVE  Lawful(Steps[x], Appending(x), Pattern(x), n)
<1>1. n \in Nat
  BY ScriptAssumption DEF Structures
<1>2. /\ DOMAIN Steps = SingleSteps \cup {"pwscf", "siesta", "abinit", "vasp", "cp2k", "neb"}
             \cup {"vasp_phonopy", "abinit_phonopy", "siesta_phonopy", "pw_phonopy", "cp2k_phonopy"}
      /\ Steps["pwscf"] = PwScf /\ Steps["siesta"] = Siesta /\ Steps["abinit"] = Abinit
      /\ Steps["vasp"] = Vasp /\ Steps["cp2k"] = Cp2k /\ Steps["neb"] = Neb
      /\ Steps["vasp_phonopy"] = VaspPhonopy /\ Steps["abinit_phonopy"] = AbinitPhonopy
      /\ Steps["siesta_phonopy"] = SiestaPhonopy /\ Steps["pw_phonopy"] = PwPhonopy
      /\ Steps["cp2k_phonopy"] = Cp2kPhonopy
  BY DEF Steps, SingleSteps
<1>3. CASE x \in SingleSteps
  <2>1. PICK input \in InputNames, out \in OutputNames : Steps[x] = SingleStep(input, out)
    BY <1>3, SingleStepScripts
  <2>2. Lawful(SingleStep(input, out), Appending(x), Pattern(x), n)
    BY <1>1, SingleLawful
  <2> QED
    BY <2>1, <2>2
<1>4. CASE x \in {"pwscf", "siesta", "abinit", "vasp"}
  <2>1. /\ Lawful(PwScf, Appending(x), Pattern(x), n) /\ Lawful(Siesta, Appending(x), Pattern(x), n)
        /\ Lawful(Abinit, Appending(x), Pattern(x), n) /\ Lawful(Vasp, Appending(x), Pattern(x), n)
    BY <1>1, PwScfLawful, SiestaLawful, AbinitLawful, VaspLawful
  <2> QED
    BY <1>2, <1>4, <2>1
<1>5. CASE x \in {"cp2k", "neb"}
  <2>1. Appending(x)
    BY <1>5 DEF Appending
  <2>2. Lawful(Cp2k, Appending(x), Pattern(x), n) /\ Lawful(Neb, Appending(x), Pattern(x), n)
    BY <1>1, <2>1, Cp2kLawful, NebLawful
  <2> QED
    BY <1>2, <1>5, <2>2
<1>6. CASE x = "vasp_phonopy"
  <2>1. Pattern(x) = "POSCAR-"
    BY <1>6 DEF Pattern
  <2>2. Lawful(VaspPhonopy, Appending(x), "POSCAR-", n)
    BY VaspPhonopyLawful
  <2> QED
    BY <1>2, <1>6, <2>1, <2>2
<1>7. CASE x \in {"abinit_phonopy", "siesta_phonopy", "pw_phonopy", "cp2k_phonopy"}
  <2>1. Pattern(x) = "supercell"
    BY <1>7 DEF Pattern
  <2>2. /\ Lawful(AbinitPhonopy, Appending(x), "supercell", n)
        /\ Lawful(SiestaPhonopy, Appending(x), "supercell", n)
        /\ Lawful(PwPhonopy, Appending(x), "supercell", n)
    BY AbinitPhonopyLawful, SiestaPhonopyLawful, PwPhonopyLawful
  <2>3. x = "cp2k_phonopy" => Lawful(Cp2kPhonopy, Appending(x), "supercell", n)
    BY Cp2kPhonopyLawful DEF Appending
  <2> QED
    BY <1>2, <1>7, <2>1, <2>2, <2>3
<1> QED
  BY <1>2, <1>3, <1>4, <1>5, <1>6, <1>7

-----------------------------------------------------------------------------
IsSeq(s) == \E S : s \in Seq(S)

(* FormInv.  What is still to be executed is the rest of the script, *)
(* with the loop over files that is being executed in its place ...        *)
ScriptCommand(c) == Listed(c, IsPhonopy, Appends, Pattern(calc))
Items == (1..count) \cup {Star}
LoopCommand(c) == IsCommand(c) /\ c.item \in Items /\ InLoop(Of(c, 0), Appends)

FormA ==
    /\ cwd = Work
    /\ \A j \in DOMAIN todo :
           /\ ScriptCommand(todo[j]) \/ LoopCommand(todo[j])
           /\ InDirs(todo[j]) => j = Len(todo)
           /\ todo[j].op = "phonopy" => \A l \in 1..j : todo[l].op \notin {"for", "mkdir"}

(* ... or what is left of the loop over the directories.                   *)
CdTo(c, to) == c.op = "cd" /\ c.mode = to
DirProgram(c) == IsProgram(Of(c, 0), Appends) /\ \E p \in c.reads : p.name \in Main

FormB ==
    \A j \in DOMAIN todo :
        LET c == todo[j]
            next == todo[j + 1]
        IN  /\ IsCommand(c) /\ c.item \in Items
            /\ \/ CdTo(c, "item") /\ j < Len(todo) /\ DirProgram(next) /\ next.item = c.item
               \/ DirProgram(c) /\ j < Len(todo) /\ CdTo(next, "up")
               \/ CdTo(c, "up") /\ (j < Len(todo) => CdTo(next, "item"))

Named(f) == f = <<f[1], f[2], f[3]>> /\ f[2] \in InputNames \cup OutputNames \cup Displaced

FileIs(f) ==
    /\ Named(f)
    /\ f[1] \in {Work} \cup dirs
    /\ f[3] \in {0} \cup Items
    /\ f[2] \in Displaced => f[1] = Work /\ f[3] \in 1..count /\ f[2] = Pattern(calc)

(* What is made from a supercell is in the file of this supercell. *)
MadeFor(f, C) ==
    \A c \in C :
        /\ c.pass \in 1..pass
        /\ c.tag \in Displaced => c.of = Supercell(f) /\ Supercell(f) # 0

FilesInv == \A f \in DOMAIN files : FileIs(f) /\ MadeFor(f, files[f])

FormInv ==
    /\ calc \in DOMAIN Steps /\ count \in Structures /\ pass \in Nat \ {0}
    /\ IsSeq(todo)
    /\ FormA \/ FormB
    /\ cwd \in {Above, Work} \cup dirs
    /\ dirs \subseteq Items
    /\ FilesInv

(* Where the script is. *)
AnyDisplaced == \E f \in DOMAIN files : f[2] \in Displaced

Inside == pass > 1 /\ Star \in dirs

LeaveA ==
    /\ \A j \in DOMAIN todo : InDirs(todo[j]) => dirs # {} \/ \E l \in 1..j - 1 : Makes(todo[l])
    /\ pass = 1 =>
           /\ Star \in dirs \/ (\E j \in DOMAIN todo : todo[j].op = "mkdir" /\ todo[j].item = Star)
                 => ~ AnyDisplaced /\ \A j \in DOMAIN todo : todo[j].op # "phonopy"
           /\ \A j \in DOMAIN todo : todo[j].op = "mkdir" /\ todo[j].item # Star => AnyDisplaced

LeaveB ==
    /\ IF todo = <<>> \/ CdTo(todo[1], "item") THEN cwd = Work ELSE cwd \in dirs
    /\ \A j \in DOMAIN todo : CdTo(todo[j], "item") =>
           todo[j].item \in dirs /\ (todo[j].item = Star => dirs = {Star})

LeaveInv ==
    \/ Inside
    \/ /\ dirs = {Star} \/ Star \notin dirs
       /\ (FormA /\ LeaveA) \/ (FormB /\ LeaveB)

(* What a clean execution has made. *)
Fresh(f, C) ==
    /\ f[2] \notin OutputNames \/ ~ Appends => \A c \in C : c.pass = pass
    /\ (f[2] \in Main \/ (f[2] \in OutputNames /\ IsPhonopy)) /\ Supercell(f) # 0 =>
           \E c \in C : c.tag \in Displaced
    /\ f[2] \in OutputNames => Leaves(f) \in C

Good(f) == f \in DOMAIN files /\ Fresh(f, files[f]) /\ f[1] # Star /\ f[3] # Star

Have ==
    {f \in DOMAIN files : Good(f)} \cup {Directory(d) : d \in dirs}

CleanA ==
    /\ ReadyTo(todo, Have, count)
    /\ Given(Steps[calc], count) \subseteq Have \cup Given(todo, count)

DirTarget(c) == <<c.item, c.writes.name, 0>>

CleanB ==
    /\ todo = <<>> \/ CdTo(todo[1], "item") => cwd = Work
    /\ todo # <<>> /\ todo[1].op = "program" => cwd = todo[1].item
    /\ todo # <<>> /\ CdTo(todo[1], "up") => cwd \in dirs
    /\ \A j \in DOMAIN todo : todo[j].op = "program" /\ todo[j].item # Star =>
           \A p \in todo[j].reads : <<todo[j].item, p.name, 0>> \in Have
    /\ \A q \in Given(Steps[calc], count) :
           q \in Have \/ \E j \in DOMAIN todo : todo[j].op = "program" /\ todo[j].item # Star /\ q = DirTarget(todo[j])

StarInv == \A j \in DOMAIN todo : todo[j].item = Star => Literal

OutputsInv ==
    \A f \in DOMAIN files :
        f[2] \in OutputNames /\ f[1] # Star /\ f[3] # Star /\ Leaves(f) \in files[f] =>
            Good(f) /\ (IsPhonopy => Supercell(f) \in 1..count)

CleanInv ==
    clean => /\ (FormA /\ CleanA) \/ (FormB /\ CleanB)
             /\ StarInv
             /\ OutputsInv

-----------------------------------------------------------------------------
(* The loop: its body, item by item. *)
Expand(c, items) == FlattenSeq([k \in DOMAIN items |-> Body(c, items[k])])

(* The elements of a sequence and one more. *)
LEMMA AppendIs ==
  ASSUME NEW S, NEW s \in Seq(S), NEW x \in S
  PROVE  /\ Append(s, x) \in Seq(S) /\ Len(s) \in Nat /\ Len(Append(s, x)) = Len(s) + 1
         /\ DOMAIN s = 1..Len(s) /\ DOMAIN Append(s, x) = 1..Len(s) + 1
         /\ Append(s, x)[Len(s) + 1] = x
         /\ \A k \in 1..Len(s) : Append(s, x)[k] = s[k] /\ s[k] \in S
<1>1. Append(s, x) \in Seq(S) /\ Len(s) \in Nat /\ Len(Append(s, x)) = Len(s) + 1
  OBVIOUS
<1>2. DOMAIN s = 1..Len(s) /\ DOMAIN Append(s, x) = 1..Len(s) + 1
  OBVIOUS
<1>3. Append(s, x)[Len(s) + 1] = x
  OBVIOUS
<1>4. \A k \in 1..Len(s) : Append(s, x)[k] = s[k] /\ s[k] \in S
  OBVIOUS
<1> QED
  BY <1>1, <1>2, <1>3, <1>4

(* A function on 1..n is a sequence. *)
LEMMA TabledIs ==
  ASSUME NEW n \in Nat, NEW S, NEW f, f = [k \in 1..n |-> f[k]], \A k \in 1..n : f[k] \in S
  PROVE  f \in Seq(S) /\ Len(f) = n /\ DOMAIN f = 1..n
<1>1. [k \in 1..n |-> f[k]] \in Seq(S) /\ Len([k \in 1..n |-> f[k]]) = n
  OBVIOUS
<1> QED
  BY <1>1

(* The body of a loop is executed for one item after another ... *)
LEMMA ExpandSteps ==
  ASSUME NEW c, NEW m \in Nat, DOMAIN c.body = 1..m,
         NEW S, \A k \in 1..m, i \in 1..Star : Of(c.body[k], i) \in S
  PROVE  /\ Expand(c, <<>>) = <<>>
         /\ \A items \in Seq(1..Star), i \in 1..Star :
                /\ Expand(c, items) \in Seq(S) /\ Body(c, i) \in Seq(S)
                /\ Expand(c, Append(items, i)) = Expand(c, items) \o Body(c, i)
<1>1. Expand(c, <<>>) = <<>>
  <2>1. [k \in DOMAIN <<>> |-> Body(c, <<>>[k])] = <<>>
    OBVIOUS
  <2> QED
    BY <2>1, FlattenEmpty DEF Expand
<1>2. ASSUME NEW i \in 1..Star PROVE Body(c, i) \in Seq(S)
  <2>1. \A k \in 1..m : Of(c.body[k], i) \in S
    OBVIOUS
  <2>2. [k \in 1..m |-> Of(c.body[k], i)] \in Seq(S)
    BY <2>1
  <2> QED
    BY <2>2 DEF Body
<1>3. ASSUME NEW items \in Seq(1..Star), NEW i \in 1..Star
      PROVE  /\ Expand(c, items) \in Seq(S)
             /\ Expand(c, Append(items, i)) = Expand(c, items) \o Body(c, i)
  <2> DEFINE ss == [k \in DOMAIN items |-> Body(c, items[k])]
             more == Append(items, i)
             tt == [k \in DOMAIN more |-> Body(c, more[k])]
             n == Len(items)
  <2>1. /\ n \in Nat /\ DOMAIN items = 1..n /\ DOMAIN more = 1..n + 1
        /\ more[n + 1] = i /\ \A k \in 1..n : more[k] = items[k] /\ items[k] \in 1..Star
    <3> DEFINE V == 1..Star
    <3>1. items \in Seq(V) /\ i \in V
      OBVIOUS
    <3> HIDE DEF V
    <3>2. /\ n \in Nat /\ DOMAIN items = 1..n /\ DOMAIN more = 1..n + 1
          /\ more[n + 1] = i /\ \A k \in 1..n : more[k] = items[k] /\ items[k] \in V
      BY <3>1, AppendIs
    <3> QED
      BY <3>2 DEF V
  <2>2. ss = [k \in 1..n |-> Body(c, items[k])] /\ tt = [k \in 1..n + 1 |-> Body(c, more[k])]
    BY <2>1
  <2>3. ss \in Seq(Seq(S)) /\ Len(ss) = n
    <3>1. \A k \in 1..n : Body(c, items[k]) \in Seq(S)
      BY <1>2, <2>1
    <3> QED
      BY <2>1, <2>2, <3>1
  <2>4. tt = Append(ss, Body(c, i))
    <3> HIDE DEF ss, more, n
    <3> DEFINE B == Body(c, i)
               uu == Append(ss, B)
    <3>1. B \in Seq(S)
      BY <1>2
    <3> HIDE DEF B
    <3>2. /\ uu \in Seq(Seq(S)) /\ Len(uu) = n + 1 /\ uu[n + 1] = B
          /\ \A k \in 1..n : uu[k] = ss[k]
      BY <2>3, <3>1, AppendIs
    <3> HIDE DEF uu
    <3>3. /\ tt \in Seq(Seq(S)) /\ Len(tt) = n + 1 /\ tt[n + 1] = B
          /\ \A k \in 1..n : tt[k] = ss[k]
      <4>1. \A k \in 1..n + 1 : Body(c, more[k]) \in Seq(S)
        <5>1. \A k \in 1..n + 1 : more[k] \in 1..Star
          <6>1. \A k \in 1..n + 1 : k = n + 1 \/ k \in 1..n
            BY <2>1
          <6> QED
            BY <2>1, <6>1
        <5> QED
          BY <1>2, <5>1
      <4>2. tt \in Seq(Seq(S)) /\ Len(tt) = n + 1
        <5>1. tt = [k \in 1..n + 1 |-> tt[k]] /\ \A k \in 1..n + 1 : tt[k] \in Seq(S)
          BY <2>2, <4>1
        <5>2. n + 1 \in Nat
          BY <2>1
        <5> HIDE DEF tt
        <5> QED
          BY <5>1, <5>2, TabledIs
      <4>3. n + 1 \in 1..n + 1 /\ \A k \in 1..n : k \in 1..n + 1
        BY <2>1
      <4> QED
        BY <2>1, <2>2, <4>2, <4>3 DEF B
    <3>4. \A k \in 1..n + 1 : uu[k] = tt[k]
      <4>1. \A k \in 1..n + 1 : k = n + 1 \/ k \in 1..n
        BY <2>1
      <4> QED
        BY <3>2, <3>3, <4>1
    <3>5. uu = tt
      BY <3>2, <3>3, <3>4, SeqEqual
    <3> QED
      BY <3>5 DEF uu, B
  <2>5. Expand(c, items) = FlattenSeq(ss) /\ Expand(c, more) = FlattenSeq(tt)
    BY DEF Expand
  <2> HIDE DEF ss, tt
  <2> QED
    BY <1>2, <2>3, <2>4, <2>5, FlattenAppend
<1> QED
  BY <1>1, <1>2, <1>3

(* What is in it: the commands of the body for the items, in their order.  *)
Unrolled(c, items, e) ==
    /\ \A j \in DOMAIN e : \E k \in DOMAIN c.body, i \in Range(items) :
           /\ e[j] = Of(c.body[k], i)
           /\ \A l \in 1..k - 1 : \E h \in 1..j - 1 : e[h] = Of(c.body[l], i)
    /\ \A k \in DOMAIN c.body, i \in Range(items) : \E j \in DOMAIN e : e[j] = Of(c.body[k], i)

(* ... each time as it is written ... *)
LEMMA BodyIs ==
  ASSUME NEW c, NEW m \in Nat, DOMAIN c.body = 1..m, NEW i
  PROVE  DOMAIN Body(c, i) = 1..m /\ \A k \in 1..m : Body(c, i)[k] = Of(c.body[k], i)
  BY DEF Body

(* ... and that is the whole of what the loop executes, every command after those before it. *)
LEMMA ExpandIs ==
  ASSUME NEW c, NEW m \in Nat, DOMAIN c.body = 1..m,
         NEW S, \A k \in 1..m, i \in 1..Star : Of(c.body[k], i) \in S
  PROVE  \A items \in Seq(1..Star) : Expand(c, items) \in Seq(S) /\ Unrolled(c, items, Expand(c, items))
<1> DEFINE V == 1..Star
           J == {items \in Seq(V) : Expand(c, items) \in Seq(S) /\ Unrolled(c, items, Expand(c, items))}
<1>1. <<>> \in J
  <2>1. Expand(c, <<>>) = <<>>
    BY ExpandSteps
  <2>2. Unrolled(c, <<>>, <<>>)
    BY DEF Unrolled, Range
  <2> HIDE DEF V
  <2>3. <<>> \in Seq(V) /\ <<>> \in Seq(S)
    OBVIOUS
  <2> QED
    BY <2>1, <2>2, <2>3
<1>2. ASSUME NEW items \in Seq(V), NEW x \in V, items \in J PROVE Append(items, x) \in J
  <2> DEFINE more == Append(items, x)
             e == Expand(c, items)
             b == Body(c, x)
             n == Len(e)
             t == Expand(c, more)
  <2>1. e \in Seq(S) /\ b \in Seq(S) /\ t = e \o b
    BY ExpandSteps
  <2>2. more \in Seq(V) /\ Range(more) = Range(items) \cup {x}
    <3> HIDE DEF V
    <3> QED
      BY RangeOfAppend
  <2>3. DOMAIN b = 1..m /\ \A k \in 1..m : b[k] = Of(c.body[k], x)
    BY BodyIs
  <2>4. Unrolled(c, items, e)
    BY <1>2
  <2> HIDE DEF e, b, more, t, V
  <2>5. /\ t \in Seq(S) /\ n \in Nat /\ DOMAIN e = 1..n /\ DOMAIN t = 1..n + m
        /\ \A j \in 1..n : t[j] = e[j]
        /\ \A k \in 1..m : t[n + k] = b[k]
    <3>1. Len(b) = m
      BY <2>1, <2>3
    <3>2. /\ t \in Seq(S) /\ Len(t) = n + Len(b)
          /\ \A j \in 1..n : t[j] = e[j]
          /\ \A k \in 1..Len(b) : t[n + k] = b[k]
      BY <2>1, ConcatIs
    <3>3. n \in Nat /\ DOMAIN e = 1..n /\ DOMAIN t = 1..Len(t)
      BY <2>1, <3>2
    <3> QED
      BY <3>1, <3>2, <3>3
  <2> HIDE DEF n
  <2>6. ASSUME NEW j \in DOMAIN t
        PROVE  \E k \in DOMAIN c.body, i \in Range(more) :
                   /\ t[j] = Of(c.body[k], i)
                   /\ \A l \in 1..k - 1 : \E h \in 1..j - 1 : t[h] = Of(c.body[l], i)
    <3>1. CASE j \in 1..n
      <4>1. PICK k \in DOMAIN c.body, i \in Range(items) :
                   /\ e[j] = Of(c.body[k], i)
                   /\ \A l \in 1..k - 1 : \E h \in 1..j - 1 : e[h] = Of(c.body[l], i)
        BY <2>4, <2>5, <3>1 DEF Unrolled
      <4>2. ASSUME NEW l \in 1..k - 1 PROVE \E h \in 1..j - 1 : t[h] = Of(c.body[l], i)
        <5>1. PICK h \in 1..j - 1 : e[h] = Of(c.body[l], i)
          BY <4>1
        <5>2. h \in 1..n
          BY <2>5, <3>1
        <5> QED
          BY <2>5, <5>1, <5>2
      <4> QED
        BY <2>2, <2>5, <3>1, <4>1, <4>2
    <3>2. CASE j \notin 1..n
      <4> DEFINE k == j - n
      <4>1. k \in 1..m /\ j = n + k
        BY <2>5, <3>2
      <4>2. ASSUME NEW l \in 1..k - 1 PROVE \E h \in 1..j - 1 : t[h] = Of(c.body[l], x)
        <5>1. n + l \in 1..j - 1 /\ l \in 1..m
          BY <2>5, <4>1
        <5> QED
          BY <2>3, <2>5, <5>1
      <4>3. t[j] = Of(c.body[k], x)
        BY <2>3, <2>5, <4>1
      <4>4. x \in Range(more)
        BY <2>2
      <4> QED
        BY <4>1, <4>2, <4>3, <4>4
    <3> QED
      BY <3>1, <3>2
  <2>7. ASSUME NEW k \in DOMAIN c.body, NEW i \in Range(more)
        PROVE  \E j \in DOMAIN t : t[j] = Of(c.body[k], i)
    <3>1. CASE i \in Range(items)
      <4>1. PICK j \in DOMAIN e : e[j] = Of(c.body[k], i)
        BY <2>4, <3>1 DEF Unrolled
      <4>2. j \in DOMAIN t /\ t[j] = e[j]
        BY <2>5
      <4> QED
        BY <4>1, <4>2
    <3>2. CASE i = x
      <4>1. n + k \in DOMAIN t /\ t[n + k] = Of(c.body[k], x)
        BY <2>3, <2>5
      <4> QED
        BY <3>2, <4>1
    <3> QED
      BY <2>2, <3>1, <3>2
  <2> QED
    BY <2>2, <2>5, <2>6, <2>7 DEF Unrolled, t, more
<1> HIDE DEF J
<1>3. \A items \in Seq(V) : items \in J
  BY <1>1, <1>2, InductionOnSeq
<1> QED
  BY <1>3 DEF J, V

(* The loop over the directories: blocks of three.                         *)
Triples(a, p, z, I, e) ==
    \A j \in DOMAIN e : \E i \in I :
        \/ e[j] = Of(a, i) /\ j < Len(e) /\ e[j + 1] = Of(p, i)
        \/ e[j] = Of(p, i) /\ j < Len(e) /\ e[j + 1] = Of(z, i)
        \/ e[j] = Of(z, i) /\ (j < Len(e) => \E h \in I : e[j + 1] = Of(a, h))

(* A loop over directories enters, calculates and goes up, again and again. *)
LEMMA TriplesIs ==
  ASSUME NEW c, NEW a, NEW p, NEW z, DOMAIN c.body = 1..3,
         c.body[1] = a, c.body[2] = p, c.body[3] = z,
         NEW S, \A k \in 1..3, i \in 1..Star : Of(c.body[k], i) \in S
  PROVE  \A items \in Seq(1..Star) :
             LET e == Expand(c, items)
             IN  Triples(a, p, z, Range(items), e) /\ (e # <<>> => \E i \in Range(items) : e[1] = Of(a, i))
<1> DEFINE V == 1..Star
           P(items, e) == Triples(a, p, z, Range(items), e) /\ (e # <<>> => \E i \in Range(items) : e[1] = Of(a, i))
           J == {items \in Seq(V) : P(items, Expand(c, items))}
<1>1. <<>> \in J
  <2>1. Expand(c, <<>>) = <<>>
    BY ExpandSteps
  <2>2. P(<<>>, <<>>)
    BY DEF Triples
  <2> HIDE DEF V, P
  <2>3. <<>> \in Seq(V)
    OBVIOUS
  <2> QED
    BY <2>1, <2>2, <2>3
<1>2. ASSUME NEW items \in Seq(V), NEW x \in V, items \in J PROVE Append(items, x) \in J
  <2> DEFINE more == Append(items, x)
             e == Expand(c, items)
             b == Body(c, x)
             n == Len(e)
             t == Expand(c, more)
             I == Range(items)
             R == Range(more)
  <2>1. e \in Seq(S) /\ b \in Seq(S) /\ t = e \o b
    BY ExpandSteps
  <2>2. more \in Seq(V) /\ R = I \cup {x}
    <3> HIDE DEF V
    <3> QED
      BY RangeOfAppend
  <2>3. DOMAIN b = 1..3 /\ b[1] = Of(a, x) /\ b[2] = Of(p, x) /\ b[3] = Of(z, x)
    <3> DEFINE m == 3
    <3>1. m \in Nat /\ DOMAIN c.body = 1..m /\ 1 \in 1..m /\ 2 \in 1..m /\ 3 \in 1..m
      OBVIOUS
    <3> HIDE DEF m, b
    <3>2. DOMAIN b = 1..m /\ \A k \in 1..m : b[k] = Of(c.body[k], x)
      BY <3>1, BodyIs DEF b
    <3> QED
      BY <3>1, <3>2 DEF m
  <2>4. Triples(a, p, z, I, e) /\ (e # <<>> => \E i \in I : e[1] = Of(a, i))
    BY <1>2
  <2> HIDE DEF e, b, more, t, V, I, R
  <2>5. /\ t \in Seq(S) /\ n \in Nat /\ DOMAIN e = 1..n /\ DOMAIN t = 1..n + 3 /\ Len(t) = n + 3
        /\ \A j \in 1..n : t[j] = e[j]
        /\ t[n + 1] = Of(a, x) /\ t[n + 2] = Of(p, x) /\ t[n + 3] = Of(z, x)
    <3>1. Len(b) = 3
      BY <2>1, <2>3
    <3>2. /\ t \in Seq(S) /\ Len(t) = n + Len(b)
          /\ \A j \in 1..n : t[j] = e[j]
          /\ \A k \in 1..Len(b) : t[n + k] = b[k]
      BY <2>1, ConcatIs
    <3>3. n \in Nat /\ DOMAIN e = 1..n /\ DOMAIN t = 1..Len(t)
      BY <2>1, <3>2
    <3> QED
      BY <2>3, <3>1, <3>2, <3>3
  <2>6. e = <<>> <=> n = 0
    BY <2>1
  <2> HIDE DEF n
  <2>7. ASSUME NEW j \in DOMAIN t
        PROVE  \E i \in R :
                  \/ t[j] = Of(a, i) /\ j < Len(t) /\ t[j + 1] = Of(p, i)
                  \/ t[j] = Of(p, i) /\ j < Len(t) /\ t[j + 1] = Of(z, i)
                  \/ t[j] = Of(z, i) /\ (j < Len(t) => \E h \in R : t[j + 1] = Of(a, h))
    <3>1. CASE j \in 1..n /\ j # n
      <4>1. PICK i \in I :
               \/ e[j] = Of(a, i) /\ j < Len(e) /\ e[j + 1] = Of(p, i)
               \/ e[j] = Of(p, i) /\ j < Len(e) /\ e[j + 1] = Of(z, i)
               \/ e[j] = Of(z, i) /\ (j < Len(e) => \E h \in I : e[j + 1] = Of(a, h))
        BY <2>4, <2>5, <3>1 DEF Triples
      <4>2. j + 1 \in 1..n /\ j < Len(t) /\ t[j] = e[j] /\ t[j + 1] = e[j + 1] /\ j < Len(e)
        BY <2>5, <3>1 DEF n
      <4> QED
        BY <2>2, <4>1, <4>2
    <3>2. CASE j = n
      <4>1. n \in 1..n
        BY <2>5, <3>2
      <4>2. PICK i \in I :
               \/ e[n] = Of(a, i) /\ n < Len(e) /\ e[n + 1] = Of(p, i)
               \/ e[n] = Of(p, i) /\ n < Len(e) /\ e[n + 1] = Of(z, i)
               \/ e[n] = Of(z, i) /\ (n < Len(e) => \E h \in I : e[n + 1] = Of(a, h))
        BY <2>4, <2>5, <4>1 DEF Triples
      <4>3. e[n] = Of(z, i)
        BY <2>5, <4>2 DEF n
      <4>4. t[n] = e[n]
        BY <2>5, <4>1
      <4> QED
        BY <2>2, <2>5, <3>2, <4>3, <4>4
    <3>3. CASE j \in {n + 1, n + 2, n + 3}
      BY <2>2, <2>5, <3>3
    <3>4. j \in 1..n \/ j \in {n + 1, n + 2, n + 3}
      BY <2>5
    <3> QED
      BY <3>1, <3>2, <3>3, <3>4
  <2>8. \E i \in R : t[1] = Of(a, i)
    <3>1. CASE n = 0
      BY <2>2, <2>5, <3>1
    <3>2. CASE n # 0
      <4>1. 1 \in 1..n /\ e # <<>>
        BY <2>5, <2>6, <3>2
      <4> QED
        BY <2>2, <2>4, <2>5, <4>1
    <3> QED
      BY <3>1, <3>2
  <2>9. P(more, t)
    BY <2>7, <2>8 DEF Triples, R
  <2> QED
    BY <2>2, <2>9 DEF t, more
<1> HIDE DEF J
<1>3. \A items \in Seq(V) : items \in J
  BY <1>1, <1>2, InductionOnSeq
<1> QED
  BY <1>3 DEF J, V

-----------------------------------------------------------------------------
(* The rest of a script. *)
LEMMA SeqIs ==
  ASSUME NEW s, IsSeq(s)
  PROVE  Len(s) \in Nat /\ DOMAIN s = 1..Len(s)
<1>1. PICK S : s \in Seq(S)
  BY DEF IsSeq
<1> QED
  BY <1>1

(* A sequence without its first element. *)
LEMMA TailIs ==
  ASSUME NEW s, IsSeq(s), s # <<>>
  PROVE  /\ Len(s) \in Nat \ {0} /\ DOMAIN s = 1..Len(s)
         /\ IsSeq(Tail(s)) /\ Len(Tail(s)) = Len(s) - 1 /\ DOMAIN Tail(s) = 1..Len(s) - 1
         /\ \A j \in 1..Len(s) - 1 : Tail(s)[j] = s[j + 1]
<1>1. PICK S : s \in Seq(S)
  BY DEF IsSeq
<1>2. Len(s) \in Nat \ {0} /\ DOMAIN s = 1..Len(s)
  BY <1>1
<1>3. Tail(s) \in Seq(S) /\ Len(Tail(s)) = Len(s) - 1 /\ DOMAIN Tail(s) = 1..Len(s) - 1
  BY <1>1
<1>4. \A j \in 1..Len(s) - 1 : Tail(s)[j] = s[j + 1]
  BY <1>1
<1> QED
  BY <1>2, <1>3, <1>4 DEF IsSeq

Joined(t, e, u) ==
    /\ IsSeq(t) /\ Len(t) = Len(e) + Len(u) /\ DOMAIN t = 1..Len(e) + Len(u)
    /\ \A j \in 1..Len(e) : t[j] = e[j]
    /\ \A j \in 1..Len(u) : t[Len(e) + j] = u[j]

(* The elements of two sequences in a row. *)
LEMMA ConcatOfSeqs ==
  ASSUME NEW e, IsSeq(e), NEW u, IsSeq(u)
  PROVE  Joined(e \o u, e, u)
<1> DEFINE t == e \o u
<1>1. PICK S : e \in Seq(S)
  BY DEF IsSeq
<1>2. PICK T : u \in Seq(T)
  BY DEF IsSeq
<1> DEFINE C == S \cup T
<1>3. e \in Seq(C) /\ u \in Seq(C)
  BY <1>1, <1>2
<1> HIDE DEF C
<1>4. /\ t \in Seq(C) /\ Len(t) = Len(e) + Len(u) /\ DOMAIN t = 1..Len(t)
      /\ \A j \in 1..Len(e) : t[j] = e[j]
      /\ \A j \in 1..Len(u) : t[Len(e) + j] = u[j]
  <2> HIDE DEF t
  <2>0. t = e \o u
    BY DEF t
  <2>1. /\ t \in Seq(C) /\ Len(t) = Len(e) + Len(u)
        /\ \A j \in 1..Len(e) : t[j] = e[j]
        /\ \A j \in 1..Len(u) : t[Len(e) + j] = u[j]
    BY <1>3, <2>0, ConcatIs
  <2>2. DOMAIN t = 1..Len(t)
    BY <2>1
  <2> QED
    BY <2>1, <2>2
<1> HIDE DEF t
<1>6. IsSeq(t)
  BY <1>4 DEF IsSeq
<1>7. DOMAIN t = 1..Len(e) + Len(u)
  BY <1>4
<1>5. Joined(t, e, u)
  BY <1>4, <1>6, <1>7 DEF Joined
<1> QED
  BY <1>5 DEF t

(* The items of a loop: the numbers that match, and * itself when nothing  *)
(* does or a file has that name.                                           *)
Found == Matches(todo[1].writes.name)
Matched(I) ==
    I = (Structures \cap Found) \cup (IF Found = {} \/ Star \in Found THEN {Star} ELSE {})

(* The literal pattern is not the number of a supercell. *)
LEMMA NumbersAre ==
  Star \in Nat \ {0} /\ Structures \subseteq Nat \ {0} /\ Star \notin Structures
  /\ 1..Star = Structures \cup {Star} /\ MaxStructures \in Nat
  BY ScriptAssumption DEF Star, Structures

(* The numbers up to n, in their order. *)
LEMMA NumbersInOrder ==
  ASSUME NEW T, NEW n \in Nat, \A i \in 1..n : i \in T
  PROVE  [i \in 1..n |-> i] \in Seq(T)
  OBVIOUS

(* A loop is replaced by its body for the items that it finds. *)
LEMMA LoopItems ==
  ASSUME NEW m \in Nat, DOMAIN todo[1].body = 1..m, Loop
  PROVE  \E items \in Seq(1..Star) :
             /\ Matched(Range(items))
             /\ todo' = Expand(todo[1], items) \o Tail(todo)
<1> DEFINE found == Matches(todo[1].writes.name)
           all == [i \in Structures |-> i]
           numbered == Only(all, found)
           literal == IF found = {} \/ Star \in found THEN <<Star>> ELSE <<>>
           V == 1..Star
           L == IF found = {} \/ Star \in found THEN {Star} ELSE {}
<1>1. PICK items \in {literal \o numbered, numbered \o literal} :
         todo' = FlattenSeq([k \in DOMAIN items |-> Body(todo[1], items[k])]) \o Tail(todo)
  <2>1. \A i : [k \in DOMAIN todo[1].body |-> [todo[1].body[k] EXCEPT !.item = i]] = Body(todo[1], i)
    BY DEF Body, Of
  <2> QED
    BY <2>1, ZenonT(40) DEF Loop
<1>2. todo' = Expand(todo[1], items) \o Tail(todo)
  BY <1>1 DEF Expand
<1>3. all \in Seq(V) /\ Range(all) = Structures
  <2>1. all = [i \in 1..MaxStructures |-> i] /\ Structures = 1..MaxStructures
    BY DEF Structures
  <2>2. \A i \in 1..MaxStructures : i \in V
    BY NumbersAre DEF Structures
  <2>3. [i \in 1..MaxStructures |-> i] \in Seq(V)
    <3> HIDE DEF V
    <3>1. MaxStructures \in Nat
      BY NumbersAre
    <3> QED
      BY <2>2, <3>1, NumbersInOrder, Zenon
  <2>4. Range([i \in 1..MaxStructures |-> i]) = 1..MaxStructures
    BY DEF Range
  <2> QED
    BY <2>1, <2>3, <2>4
<1>4. numbered \in Seq(V) /\ Range(numbered) = Structures \cap found
  <2> HIDE DEF all, V, found
  <2> QED
    BY <1>3, OnlyTyped, OnlyHas
<1>5. literal \in Seq(V) /\ Range(literal) = L
  <2>1. <<Star>> \in Seq(V) /\ <<>> \in Seq(V)
    <3>1. Star \in V
      BY NumbersAre
    <3> HIDE DEF V
    <3> QED
      BY <3>1, SMTT(40)
  <2>2. Range(<<Star>>) = {Star} /\ Range(<<>>) = {}
    BY SMTT(40) DEF Range
  <2> HIDE DEF V, found
  <2> QED
    BY <2>1, <2>2
<1> HIDE DEF numbered, literal, V, L, found
<1>6. items \in Seq(V) /\ Range(items) = (Structures \cap found) \cup L
  <2>1. ASSUME NEW s \in Seq(V), NEW t \in Seq(V)
        PROVE  s \o t \in Seq(V) /\ Range(s \o t) = Range(s) \cup Range(t)
    BY <2>1, RangeConcatenation
  <2> QED
    BY <1>1, <1>4, <1>5, <2>1, ZenonT(40)
<1> QED
  BY <1>2, <1>6 DEF Matched, V, L, Found, found

-----------------------------------------------------------------------------
(* What the simple commands write, from the working directory. *)
ItemsAre == Items \subseteq 1..Star /\ 0 \notin Items /\ Star \in Items /\ 1..count \subseteq Structures

(* The items of this execution. *)
LEMMA CountIs ==
  ASSUME count \in Structures
  PROVE  ItemsAre /\ count \in Nat \ {0} /\ 1..count \subseteq Nat \ {0} /\ Star \notin 1..count
<1>1. MaxStructures \in Nat
  BY ScriptAssumption
<1> QED
  BY <1>1 DEF ItemsAre, Items, Star, Structures

(* In the working directory a path is what At makes of it. *)
LEMMA ResolveIs ==
  ASSUME cwd = Work
  PROVE  \A p, i : Resolve(p, i) = At(Work, p, i)
  BY DEF Resolve, At

(* What phonopy writes. *)
LEMMA PatternIs ==
  ASSUME NEW x
  PROVE  Pattern(x) \in Displaced
  BY DEF Pattern, Displaced

(* A path of a script. *)
LEMMA PlainPath ==
  ASSUME NEW p, PlainRef(p), NEW i
  PROVE  LET f == At(Work, p, i)
         IN  f = <<Work, p.name, 0>> /\ Named(f) /\ Supercell(f) = 0 /\ f[1] = Work /\ f[2] = p.name /\ f[3] = 0
  BY PlainAt DEF PlainRef, Named, Supercell, Work

(* A numbered path is the file of this item in the working directory. *)
LEMMA NumberedPath ==
  ASSUME NEW p, NumberedRef(p), NEW i, i # 0
  PROVE  LET f == At(Work, p, i)
         IN  f = <<Work, p.name, i>> /\ Named(f) /\ Supercell(f) = i /\ f[1] = Work /\ f[2] = p.name /\ f[3] = i
<1>1. At(Work, p, i) = <<Work, p.name, i>>
  BY DEF NumberedRef, At
<1>2. p.name \in InputNames \cup Displaced
  BY NamesDiffer DEF NumberedRef
<1> QED
  BY <1>1, <1>2 DEF Named, Supercell

(* The paths of a command in a loop: it writes for its item, and to no file of phonopy's. *)
LEMMA LoopPath ==
  ASSUME NEW c, NEW a, IsCommand(c), InLoop(Of(c, 0), a), c.item # 0
  PROVE  /\ \A p \in c.reads : (p.dir = "here" /\ PlainRef(p)) \/ NumberedRef(p)
         /\ c.op \in {"mkdir", "cat", "cp", "doc", "program"}
         /\ c.op \in {"cat", "cp", "doc"} => c.writes.name \in InputNames
         /\ c.op \in {"cat", "cp"} => c.mode = "new" /\ (c.writes.name \in Main => \E p \in c.reads : NumberedRef(p))
         /\ c.op = "doc" => c.mode = "append" /\ c.reads = {}
         /\ c.op = "program" => /\ c.writes.name \in OutputNames /\ (c.mode = "new" \/ a)
                                /\ c.writes.dir = "here" /\ c.writes.of = Each
                                /\ \E p \in c.reads : NumberedRef(p)
         /\ c.op # "mkdir" =>
               LET f == At(Work, c.writes, c.item)
               IN  /\ f \in {<<c.item, c.writes.name, 0>>, <<Work, c.writes.name, c.item>>}
                   /\ Named(f) /\ Supercell(f) = c.item /\ f[2] = c.writes.name
                   /\ f[1] \in {Work, c.item} /\ f[3] \in {0, c.item} /\ f[2] \notin Displaced
                   /\ c.writes.dir = "item" \/ c.writes.of = Each
<1> DEFINE b == Of(c, 0)
<1>1. /\ b.op = c.op /\ b.reads = c.reads /\ b.writes = c.writes /\ b.mode = c.mode
  BY OfIs
<1> HIDE DEF b
<1>2. InLoop(b, a)
  BY DEF b
<1>3. /\ \A p \in c.reads : (p.dir = "here" /\ PlainRef(p)) \/ NumberedRef(p)
      /\ c.op # "mkdir" => \/ c.writes.dir = "item" /\ c.writes.of = 0
                           \/ c.writes.dir = "here" /\ c.writes.of = Each
  BY <1>1, <1>2 DEF InLoop
<1>4. \/ c.op = "mkdir"
      \/ /\ c.op \in {"cat", "cp"} /\ c.mode = "new" /\ c.writes.name \in InputNames
         /\ c.writes.name \in Main => \E p \in c.reads : NumberedRef(p)
      \/ c.op = "doc" /\ c.mode = "append" /\ c.reads = {} /\ c.writes.name \in InputNames
      \/ /\ c.op = "program" /\ (c.mode = "new" \/ a) /\ c.writes.name \in OutputNames
         /\ c.writes.dir = "here" /\ \E p \in c.reads : NumberedRef(p)
  BY <1>1, <1>2 DEF InLoop
<1>5. ASSUME c.op # "mkdir"
      PROVE  LET f == At(Work, c.writes, c.item)
             IN  /\ f \in {<<c.item, c.writes.name, 0>>, <<Work, c.writes.name, c.item>>}
                 /\ Named(f) /\ Supercell(f) = c.item /\ f[2] = c.writes.name
                 /\ f[1] \in {Work, c.item} /\ f[3] \in {0, c.item} /\ f[2] \notin Displaced
                 /\ c.writes.dir = "item" \/ c.writes.of = Each
  <2> DEFINE f == At(Work, c.writes, c.item)
  <2>1. f \in {<<c.item, c.writes.name, 0>>, <<Work, c.writes.name, c.item>>}
    BY <1>3, <1>5 DEF At, Each
  <2>2. c.writes.name \in InputNames \cup OutputNames /\ c.writes.name \notin Displaced
    BY <1>4, <1>5, NamesDiffer
  <2> HIDE DEF f
  <2>3. /\ Named(f) /\ Supercell(f) = c.item /\ f[2] = c.writes.name
        /\ f[1] \in {Work, c.item} /\ f[3] \in {0, c.item}
    BY <2>1, <2>2 DEF Named, Supercell, Work
  <2> QED
    BY <1>3, <1>5, <2>1, <2>2, <2>3 DEF f
<1> QED
  BY <1>3, <1>4, <1>5

(* A command of a program, in the directory d. *)
LEMMA ProgramPath ==
  ASSUME NEW c, NEW a, IsProgram(Of(c, 0), a), IsCommand(c)
  PROVE  /\ c.op = "program" /\ (c.mode = "new" \/ a) /\ c.reads # {}
         /\ c.writes.name \in OutputNames /\ c.writes.dir = "here" /\ c.writes.of = 0
         /\ \A d, i : At(d, c.writes, i) = <<d, c.writes.name, 0>>
         /\ \A p \in c.reads : PlainRef(p) /\ p.dir = "here" /\ p.name \in InputNames
                               /\ \A d, i : At(d, p, i) = <<d, p.name, 0>>
<1>1. /\ c.op = "program" /\ (c.mode = "new" \/ a) /\ c.reads # {}
      /\ \A p \in c.reads : p.dir = "here" /\ PlainRef(p)
      /\ c.writes.name \in OutputNames /\ c.writes.dir = "here" /\ c.writes.of = 0
  BY OfIs DEF IsProgram
<1>2. ASSUME NEW p, p.dir = "here", p.of = 0, NEW d, NEW i PROVE At(d, p, i) = <<d, p.name, 0>>
  BY <1>2 DEF At, Each
<1> QED
  BY <1>1, <1>2 DEF PlainRef

-----------------------------------------------------------------------------
(* What a command does to the files. *)
Writes(f, X) == files' = [g \in DOMAIN files \cup {f} |-> IF g # f THEN files[g] ELSE X]
Before(f) == IF f \in DOMAIN files THEN files[f] ELSE {}

Written(f, C, X) ==
    /\ Writes(f, X)
    /\ C \subseteq X /\ X \subseteq C \cup Before(f)
    /\ todo[1].mode # "append" => X = C
    /\ todo[1].mode = "append" => Before(f) \subseteq X

(* A file that is written has the content and, when appended, the one before. *)
LEMMA PutIs ==
  ASSUME NEW f, NEW C, files' = Put(f, C)
  PROVE  \E X : Written(f, C, X)
<1> DEFINE old == IF Exists(f) THEN files[f] ELSE {}
           X == IF todo[1].mode = "append" THEN old \cup C ELSE C
<1>1. Put(f, C) = [g \in DOMAIN files \cup {f} |-> IF g # f THEN files[g] ELSE X]
  BY DEF Put
<1>2. old = Before(f)
  BY DEF Before, Exists
<1>3. C \subseteq X /\ X \subseteq C \cup Before(f) /\ (todo[1].mode # "append" => X = C)
      /\ (todo[1].mode = "append" => Before(f) \subseteq X)
  BY <1>2
<1> HIDE DEF X
<1>4. Writes(f, X)
  BY <1>1 DEF Writes
<1> QED
  BY <1>3, <1>4 DEF Written

(* Writing what is made for a file keeps the files ... *)
LEMMA FilesKept ==
  ASSUME FilesInv, dirs \subseteq dirs', pass' = pass, calc' = calc, count' = count,
         NEW f, Named(f), f[1] \in {Work} \cup dirs', f[3] \in {0} \cup Items, f[2] \notin Displaced,
         NEW C, MadeFor(f, C), NEW X, X \subseteq C \cup Before(f), Writes(f, X)
  PROVE  FilesInv'
<1>1. DOMAIN files' = DOMAIN files \cup {f}
  BY DEF Writes
<1>2. ASSUME NEW g \in DOMAIN files' PROVE FileIs(g)'
  <2>1. Named(g)' <=> Named(g)
    BY DEF Named
  <2>2. CASE g = f
    BY <2>1, <2>2 DEF FileIs, Items, Named
  <2>3. CASE g # f
    <3>1. FileIs(g)
      BY <1>1, <2>3 DEF FilesInv
    <3> QED
      BY <2>1, <3>1 DEF FileIs, Items
  <2> QED
    BY <2>2, <2>3
<1>3. ASSUME NEW g \in DOMAIN files' PROVE MadeFor(g, files[g])'
  <2>1. files'[g] = IF g # f THEN files[g] ELSE X
    BY <1>1 DEF Writes
  <2>2. CASE g = f
    <3>1. MadeFor(f, X)
      BY DEF FilesInv, MadeFor, Before
    <3> QED
      BY <2>1, <2>2, <3>1 DEF MadeFor, Supercell
  <2>3. CASE g # f
    <3>1. MadeFor(g, files[g])
      BY <1>1, <2>3 DEF FilesInv
    <3> QED
      BY <2>1, <2>3, <3>1 DEF MadeFor, Supercell
  <2> QED
    BY <2>2, <2>3
<1> QED
  BY <1>2, <1>3 DEF FilesInv

(* ... and so does writing nothing. *)
LEMMA FilesSame ==
  ASSUME FilesInv, dirs \subseteq dirs', calc' = calc, count' = count, files' = files,
         pass \in Nat, pass' \in {pass, pass + 1}
  PROVE  FilesInv'
<1>1. ASSUME NEW g \in DOMAIN files' PROVE FileIs(g)'
  <2>1. FileIs(g)
    BY DEF FilesInv
  <2> QED
    BY <2>1 DEF FileIs, Items, Named
<1>2. ASSUME NEW g \in DOMAIN files' PROVE MadeFor(g, files[g])'
  <2>1. MadeFor(g, files[g])
    BY DEF FilesInv
  <2>2. \A c \in files[g] : c.pass \in 1..pass'
    BY <2>1 DEF MadeFor
  <2> QED
    BY <2>1, <2>2 DEF MadeFor, Supercell
<1> QED
  BY <1>1, <1>2 DEF FilesInv

(* What is written in a command's name. *)
LEMMA LeavesIs ==
  ASSUME NEW f, NEW g, f[2] \notin Displaced, pass \in Nat \ {0}
  PROVE  MadeFor(g, {Leaves(f)})
<1>1. Leaves(f).tag = f[2] /\ Leaves(f).pass = pass
  BY DEF Leaves
<1>2. pass \in 1..pass
  OBVIOUS
<1> QED
  BY <1>1, <1>2 DEF MadeFor

(* What the files that are read have in them. *)
LEMMA SourcesAre ==
  ASSUME FilesInv, NEW P, NEW f,
         \A p \in P : Supercell(p) = Supercell(f) \/ Supercell(p) = 0
  PROVE  MadeFor(f, Sources(P))
<1>1. ASSUME NEW c \in Sources(P)
      PROVE  c.pass \in 1..pass /\ (c.tag \in Displaced => c.of = Supercell(f) /\ Supercell(f) # 0)
  <2>1. PICK p \in P : p \in DOMAIN files /\ c \in files[p]
    BY DEF Sources, Exists
  <2>2. MadeFor(p, files[p])
    BY <2>1 DEF FilesInv
  <2> QED
    BY <2>1, <2>2 DEF MadeFor
<1> QED
  BY <1>1 DEF MadeFor

(* What is made for a file may be put together. *)
LEMMA MadeForUnion ==
  ASSUME NEW f, NEW C, NEW D, MadeFor(f, C), MadeFor(f, D)
  PROVE  MadeFor(f, C \cup D) /\ MadeFor(f, {})
  BY DEF MadeFor

(* A command outside of loops, as a command of a body. *)
LEMMA OfSame ==
  ASSUME NEW c, IsCommand(c)
  PROVE  /\ c.item = 0 => Of(c, 0) = c
         /\ \A i : c.item = 0 => Of(Of(c, i), 0) = c
  BY DEF IsCommand, Of

Simple(c) == ScriptCommand(c) \/ LoopCommand(c)
Filing == {"doc", "fetch", "cat", "cp", "program"}

(* A command writes no supercell, and reads only the supercell it writes for. *)
LEMMA TargetA ==
  ASSUME count \in Structures, NEW c, Simple(c), c.op \in Filing
  PROVE  LET f == At(Work, c.writes, c.item)
         IN  /\ Named(f) /\ f[2] = c.writes.name /\ f[2] \notin Displaced
             /\ f[1] = Work \/ c.op \notin {"fetch", "program"}
             /\ f[3] \in {0} \cup Items
             /\ \A p \in c.reads : Supercell(At(Work, p, c.item)) \in {0, Supercell(f)}
<1> DEFINE f == At(Work, c.writes, c.item)
<1>0. c.op \in {"doc", "fetch", "cat", "cp", "program"}
  BY DEF Filing
<1>1. CASE LoopCommand(c)
  <2>1. IsCommand(c) /\ c.item \in Items /\ InLoop(Of(c, 0), Appends) /\ c.item # 0
    BY <1>1, CountIs DEF LoopCommand, ItemsAre
  <2>2. /\ \A p \in c.reads : (p.dir = "here" /\ PlainRef(p)) \/ NumberedRef(p)
        /\ c.op \in {"mkdir", "cat", "cp", "doc", "program"}
        /\ c.op = "program" => c.writes.dir = "here" /\ c.writes.of = Each
        /\ c.op # "mkdir" =>
               /\ Named(f) /\ Supercell(f) = c.item /\ f[2] = c.writes.name
               /\ f[1] \in {Work, c.item} /\ f[3] \in {0, c.item} /\ f[2] \notin Displaced
    BY <2>1, LoopPath
  <2>3. \A p \in c.reads : Supercell(At(Work, p, c.item)) \in {0, c.item}
    BY <2>1, <2>2, PlainPath, NumberedPath
  <2>4. c.op = "program" => f[1] = Work
    BY <2>2 DEF At
  <2> HIDE DEF f
  <2>5. f[1] = Work \/ c.op \notin {"fetch", "program"}
    BY <2>2, <2>4
  <2> QED
    BY <1>0, <2>1, <2>2, <2>3, <2>5 DEF f
<1>2. CASE ScriptCommand(c)
  <2>1. IsCommand(c) /\ c.item = 0
    BY <1>2 DEF ScriptCommand, Listed
  <2>2. \/ c.reads = {} /\ PlainRef(c.writes)
        \/ IsProgram(c, Appends)
    BY <1>0, <1>2 DEF ScriptCommand, Listed, DirLoop, FileLoop, InDirs
  <2>3. CASE c.reads = {} /\ PlainRef(c.writes)
    <3>1. /\ Named(f) /\ Supercell(f) = 0 /\ f[1] = Work /\ f[2] = c.writes.name /\ f[3] = 0
      BY <2>3, PlainPath
    <3>2. c.writes.name \notin Displaced
      BY <2>3, NamesDiffer DEF PlainRef
    <3> QED
      BY <2>3, <3>1, <3>2
  <2>4. CASE IsProgram(c, Appends)
    <3>1. Of(c, 0) = c
      BY <2>1, OfSame
    <3>2. /\ f = <<Work, c.writes.name, 0>> /\ c.writes.name \in OutputNames
          /\ \A p \in c.reads : PlainRef(p)
      BY <2>1, <2>4, <3>1, ProgramPath
    <3>3. \A p \in c.reads : Supercell(At(Work, p, c.item)) = 0
      BY <3>2, PlainPath
    <3> HIDE DEF f
    <3>4. Named(f) /\ f[2] = c.writes.name /\ f[2] \notin Displaced /\ f[1] = Work /\ f[3] = 0
      BY <3>2, NamesDiffer DEF Named
    <3> QED
      BY <3>3, <3>4 DEF f
  <2> QED
    BY <2>2, <2>3, <2>4
<1> QED
  BY <1>1, <1>2 DEF Simple

(* The files after a command in the working directory ... *)
LEMMA FilesStepA ==
  ASSUME FormInv, cwd = Work, todo # <<>>, Simple(todo[1]),
         HereDocument \/ FetchExternal \/ Concatenate \/ Copy \/ RunProgram
  PROVE  FilesInv'
<1> DEFINE c == todo[1]
           f == At(Work, c.writes, c.item)
           P == {At(Work, p, c.item) : p \in c.reads}
<1>1. /\ FilesInv /\ count \in Structures /\ pass \in Nat \ {0}
  BY DEF FormInv
<1>2. /\ dirs' = dirs /\ pass' = pass /\ calc' = calc /\ count' = count /\ c.op \in Filing
  BY DEF HereDocument, FetchExternal, Concatenate, Copy, RunProgram, Next1, Fails, Filing
<1>3. /\ Named(f) /\ f[2] = c.writes.name /\ f[2] \notin Displaced
      /\ f[1] = Work \/ c.op \notin {"fetch", "program"}
      /\ f[3] \in {0} \cup Items
      /\ \A p \in c.reads : Supercell(At(Work, p, c.item)) \in {0, Supercell(f)}
  BY <1>1, <1>2, TargetA
<1>4. /\ Resolve(c.writes, c.item) = f
      /\ {Resolve(p, c.item) : p \in c.reads} = P
  BY ResolveIs
<1>5. \A p \in P : Supercell(p) = Supercell(f) \/ Supercell(p) = 0
  BY <1>3
<1> HIDE DEF f, P
<1>6. MadeFor(f, Sources(P)) /\ MadeFor(f, {Leaves(f)}) /\ MadeFor(f, {})
      /\ MadeFor(f, Sources(P) \cup {Leaves(f)})
  <2>1. MadeFor(f, Sources(P))
    BY <1>1, <1>5, SourcesAre
  <2>2. MadeFor(f, {Leaves(f)})
    BY <1>1, <1>3, LeavesIs
  <2> QED
    BY <2>1, <2>2, MadeForUnion
<1>7. \/ files' = files
      \/ /\ f[1] \in {Work} \cup dirs
         /\ \E C \in {Sources(P), {Leaves(f)}, {}, Sources(P) \cup {Leaves(f)}} : files' = Put(f, C)
  <2>1. CASE HereDocument
    BY <1>4, <2>1 DEF HereDocument, Fails, DirExists
  <2>2. CASE FetchExternal
    BY <1>3, <1>4, <2>2 DEF FetchExternal, Fails, Next1
  <2>3. CASE Concatenate
    BY <1>4, <2>3 DEF Concatenate, Fails, DirExists
  <2>4. CASE Copy
    BY <1>4, <2>4 DEF Copy, Fails, DirExists
  <2>5. CASE RunProgram
    BY <1>3, <1>4, <2>5 DEF RunProgram, Fails, Next1
  <2> QED
    BY <2>1, <2>2, <2>3, <2>4, <2>5
<1>8. CASE files' = files
  BY <1>1, <1>2, <1>8, FilesSame
<1>9. CASE /\ f[1] \in {Work} \cup dirs
           /\ \E C \in {Sources(P), {Leaves(f)}, {}, Sources(P) \cup {Leaves(f)}} : files' = Put(f, C)
  <2>1. PICK C \in {Sources(P), {Leaves(f)}, {}, Sources(P) \cup {Leaves(f)}} : files' = Put(f, C)
    BY <1>9
  <2>2. PICK X : Writes(f, X) /\ X \subseteq C \cup Before(f)
    BY <2>1, PutIs DEF Written
  <2>3. MadeFor(f, C)
    BY <1>6, <2>1
  <2>4. f[1] \in {Work} \cup dirs'
    BY <1>2, <1>9
  <2> QED
    BY <1>1, <1>2, <1>3, <2>2, <2>3, <2>4, FilesKept
<1> QED
  BY <1>7, <1>8, <1>9

(* ... after phonopy ... *)
LEMMA FilesDisplace ==
  ASSUME FormInv, cwd = Work, todo # <<>>, Simple(todo[1]), Displace
  PROVE  FilesInv'
<1> DEFINE c == todo[1]
           made == {<<cwd, c.writes.name, i>> : i \in 1..count}
<1>1. /\ FilesInv /\ count \in Structures /\ pass \in Nat \ {0}
  BY DEF FormInv
<1>2. /\ dirs' = dirs /\ pass' = pass /\ calc' = calc /\ count' = count /\ c.op = "phonopy"
  BY DEF Displace, Next1, Fails
<1>3. c.writes.name = Pattern(calc)
  <2>1. ~ LoopCommand(c)
    <3>1. ASSUME LoopCommand(c) PROVE c.op # "phonopy"
      BY <1>1, <3>1, CountIs, LoopPath DEF LoopCommand, ItemsAre
    <3> QED
      BY <1>2, <3>1
  <2>2. c.writes = Here(Pattern(calc))
    BY <1>2, <2>1 DEF Simple, ScriptCommand, Listed, IsProgram, DirLoop, FileLoop, InDirs
  <2> QED
    BY <2>2, RefIs
<1>4. made = {<<Work, Pattern(calc), i>> : i \in 1..count}
  BY <1>3
<1> HIDE DEF made
<1>5. CASE files' = files
  BY <1>1, <1>2, <1>5, FilesSame
<1>6. CASE files' = [f \in DOMAIN files \cup made |-> IF f \in made THEN {Leaves(f)} ELSE files[f]]
  <2>1. ASSUME NEW f \in made
        PROVE  /\ FileIs(f) /\ MadeFor(f, {Leaves(f)})
    <3>1. PICK i \in 1..count : f = <<Work, Pattern(calc), i>>
      BY <1>4
    <3>2. f[1] = Work /\ f[2] = Pattern(calc) /\ f[3] = i /\ i # 0 /\ i \in Items
      BY <1>1, <3>1, CountIs DEF Items
    <3>3. FileIs(f)
      BY <3>1, <3>2, PatternIs DEF FileIs, Named
    <3>4. Supercell(f) = i
      BY <3>2 DEF Supercell
    <3>5. Leaves(f).of = i /\ Leaves(f).pass = pass /\ pass \in 1..pass
      BY <1>1, <3>2 DEF Leaves
    <3> QED
      BY <3>2, <3>3, <3>4, <3>5 DEF MadeFor
  <2>2. ASSUME NEW f \in DOMAIN files' PROVE FileIs(f)'
    <3>1. f \in made \/ f \in DOMAIN files
      BY <1>6
    <3>2. FileIs(f)
      BY <1>1, <2>1, <3>1 DEF FilesInv
    <3> QED
      BY <1>2, <3>2 DEF FileIs, Items, Named
  <2>3. ASSUME NEW f \in DOMAIN files' PROVE MadeFor(f, files[f])'
    <3>1. files'[f] = IF f \in made THEN {Leaves(f)} ELSE files[f]
      BY <1>6
    <3>2. MadeFor(f, files'[f])
      BY <1>1, <1>6, <2>1, <3>1 DEF FilesInv
    <3> QED
      BY <1>2, <3>2 DEF MadeFor, Supercell
  <2> QED
    BY <2>2, <2>3 DEF FilesInv
<1> QED
  BY <1>5, <1>6 DEF Displace, Fails, made

(* ... and after a program in the directory of a supercell. *)
LEMMA FilesStepB ==
  ASSUME FormInv, todo # <<>>, DirProgram(todo[1]), IsCommand(todo[1]), RunProgram
  PROVE  FilesInv'
<1> DEFINE c == todo[1]
           f == <<cwd, c.writes.name, 0>>
           P == {<<cwd, p.name, 0>> : p \in c.reads}
<1>1. /\ FilesInv /\ count \in Structures /\ pass \in Nat \ {0}
  BY DEF FormInv
<1>2. /\ dirs' = dirs /\ pass' = pass /\ calc' = calc /\ count' = count
  BY DEF RunProgram, Next1, Fails
<1>3. /\ c.reads # {} /\ c.writes.name \in OutputNames
      /\ \A d, i : At(d, c.writes, i) = <<d, c.writes.name, 0>>
      /\ \A p \in c.reads : \A d, i : At(d, p, i) = <<d, p.name, 0>>
  BY ProgramPath DEF DirProgram
<1>4. /\ Resolve(c.writes, c.item) = f
      /\ {Resolve(p, c.item) : p \in c.reads} = P
  <2>1. \A p, i : Resolve(p, i) = At(cwd, p, i)
    BY DEF Resolve, At
  <2> QED
    BY <1>3, <2>1
<1>5. /\ Named(f) /\ f[1] = cwd /\ f[3] = 0 /\ f[2] = c.writes.name /\ f[2] \notin Displaced
      /\ Supercell(f) = cwd
      /\ \A p \in P : Supercell(p) = cwd
  <2>1. c.writes.name \in OutputNames /\ c.writes.name \notin Displaced
    BY <1>3, NamesDiffer
  <2> HIDE DEF c
  <2>2. f[1] = cwd /\ f[3] = 0 /\ f[2] = c.writes.name
    OBVIOUS
  <2>3. \A p \in P : Supercell(p) = cwd
    BY DEF Supercell
  <2>4. f = <<f[1], f[2], f[3]>>
    BY <2>2
  <2> HIDE DEF f, P
  <2> QED
    BY <2>1, <2>2, <2>3, <2>4 DEF Named, Supercell
<1>6. P # {} /\ \A p \in P : p[1] = cwd
  <2>1. c.reads # {}
    BY <1>3
  <2> HIDE DEF c
  <2>2. PICK p : p \in c.reads
    BY <2>1
  <2>3. <<cwd, p.name, 0>> \in P
    BY <2>2
  <2>4. \A q \in P : q[1] = cwd
    OBVIOUS
  <2> HIDE DEF P
  <2> QED
    BY <2>3, <2>4
<1> HIDE DEF f, P
<1>7. \/ files' = files
      \/ /\ f[1] \in {Work} \cup dirs
         /\ \E C \in {{}, Sources(P) \cup {Leaves(f)}} : files' = Put(f, C)
  <2>1. CASE (\A p \in P : Exists(p)) /\ files' = Put(f, Sources(P) \cup {Leaves(f)})
    <3>1. PICK p \in P : p \in DOMAIN files /\ p[1] = cwd
      BY <1>6, <2>1 DEF Exists
    <3>2. cwd \in {Work} \cup dirs
      BY <1>1, <3>1 DEF FilesInv, FileIs
    <3> QED
      BY <1>5, <2>1, <3>2
  <2>2. CASE DirExists(f[1]) /\ files' = Put(f, {})
    BY <2>2 DEF DirExists
  <2> QED
    BY <1>4, <2>1, <2>2 DEF RunProgram, Fails
<1>8. CASE files' = files
  BY <1>1, <1>2, <1>8, FilesSame
<1>9. CASE /\ f[1] \in {Work} \cup dirs
           /\ \E C \in {{}, Sources(P) \cup {Leaves(f)}} : files' = Put(f, C)
  <2>1. PICK C \in {{}, Sources(P) \cup {Leaves(f)}} : files' = Put(f, C)
    BY <1>9
  <2>2. PICK X : Writes(f, X) /\ X \subseteq C \cup Before(f)
    BY <2>1, PutIs DEF Written
  <2>3. MadeFor(f, C)
    <3>1. MadeFor(f, Sources(P))
      BY <1>1, <1>5, SourcesAre
    <3>2. MadeFor(f, {Leaves(f)})
      BY <1>1, <1>5, LeavesIs
    <3> QED
      BY <2>1, <3>1, <3>2, MadeForUnion
  <2>4. f[1] \in {Work} \cup dirs'
    BY <1>2, <1>9
  <2>5. f[3] \in {0} \cup Items
    BY <1>5
  <2> QED
    BY <1>1, <1>2, <1>5, <2>2, <2>3, <2>4, <2>5, FilesKept
<1> QED
  BY <1>7, <1>8, <1>9

(* The scripts are sequences. *)
LEMMA StepsAreSeqs ==
  ASSUME NEW x \in DOMAIN Steps
  PROVE  IsSeq(Steps[x])
<1>1. ASSUME NEW a, NEW b, NEW c PROVE IsSeq(<<a, b, c>>)
  <2>1. <<a, b, c>> \in Seq({a, b, c})
    OBVIOUS
  <2> QED
    BY <2>1 DEF IsSeq
<1>2. ASSUME NEW a, NEW b, NEW c, NEW d PROVE IsSeq(<<a, b, c, d>>)
  <2>1. <<a, b, c, d>> \in Seq({a, b, c, d})
    OBVIOUS
  <2> QED
    BY <2>1 DEF IsSeq
<1>3. ASSUME NEW a, NEW b, NEW c, NEW d, NEW e PROVE IsSeq(<<a, b, c, d, e>>)
  <2>1. <<a, b, c, d, e>> \in Seq({a, b, c, d, e})
    OBVIOUS
  <2> QED
    BY <2>1 DEF IsSeq
<1>4. ASSUME NEW a, NEW b, NEW c, NEW d, NEW e, NEW f PROVE IsSeq(<<a, b, c, d, e, f>>)
  <2>1. <<a, b, c, d, e, f>> \in Seq({a, b, c, d, e, f})
    OBVIOUS
  <2> QED
    BY <2>1 DEF IsSeq
<1>5. ASSUME NEW a, NEW b, NEW c, NEW d, NEW e, NEW f, NEW g, NEW h PROVE IsSeq(<<a, b, c, d, e, f, g, h>>)
  <2>1. <<a, b, c, d, e, f, g, h>> \in Seq({a, b, c, d, e, f, g, h})
    OBVIOUS
  <2> QED
    BY <2>1 DEF IsSeq
<1>6. \A input, o : IsSeq(SingleStep(input, o))
  BY <1>1 DEF SingleStep
<1>7. IsSeq(PwScf) /\ IsSeq(Siesta) /\ IsSeq(Abinit) /\ IsSeq(Cp2k) /\ IsSeq(Neb)
  BY <1>1, <1>2, <1>3 DEF PwScf, Siesta, Abinit, Cp2k, Neb
<1>8. IsSeq(VaspInputs)
  BY <1>3 DEF VaspInputs
<1>9. IsSeq(Vasp)
  <2>1. PICK S : VaspInputs \in Seq(S)
    BY <1>8 DEF IsSeq
  <2> DEFINE T == S \cup {VaspProgram}
  <2>2. VaspInputs \in Seq(T) /\ VaspProgram \in T
    BY <2>1
  <2> HIDE DEF T
  <2>3. Append(VaspInputs, VaspProgram) \in Seq(T)
    BY <2>2
  <2> QED
    BY <2>3 DEF IsSeq, Vasp
<1>10. IsSeq(VaspPhonopy)
  <2> DEFINE rest == <<Phonopy("POSCAR", "POSCAR-"), Cd("work"), For("POSCAR-", VaspSupercell),
                       InEveryDirectory(VaspProgram)>>
  <2>1. IsSeq(rest)
    BY <1>2
  <2> HIDE DEF rest
  <2>2. IsSeq(VaspInputs \o rest)
    BY <1>8, <2>1, ConcatOfSeqs DEF Joined
  <2> QED
    BY <2>2 DEF VaspPhonopy, rest
<1>11. IsSeq(AbinitPhonopy) /\ IsSeq(SiestaPhonopy) /\ IsSeq(PwPhonopy)
  BY <1>5 DEF AbinitPhonopy, SiestaPhonopy, PwPhonopy
<1>12. IsSeq(Cp2kPhonopy)
  BY <1>2 DEF Cp2kPhonopy
<1>13. x \in SingleSteps => \E input, o : Steps[x] = SingleStep(input, o)
  BY SingleStepScripts
<1>14. /\ DOMAIN Steps = SingleSteps \cup {"pwscf", "siesta", "abinit", "vasp", "cp2k", "neb"}
             \cup {"vasp_phonopy", "abinit_phonopy", "siesta_phonopy", "pw_phonopy", "cp2k_phonopy"}
       /\ Steps["pwscf"] = PwScf /\ Steps["siesta"] = Siesta /\ Steps["abinit"] = Abinit
       /\ Steps["vasp"] = Vasp /\ Steps["cp2k"] = Cp2k /\ Steps["neb"] = Neb
       /\ Steps["vasp_phonopy"] = VaspPhonopy /\ Steps["abinit_phonopy"] = AbinitPhonopy
       /\ Steps["siesta_phonopy"] = SiestaPhonopy /\ Steps["pw_phonopy"] = PwPhonopy
       /\ Steps["cp2k_phonopy"] = Cp2kPhonopy
  BY DEF Steps, SingleSteps
<1> QED
  BY <1>6, <1>7, <1>9, <1>10, <1>11, <1>12, <1>13, <1>14

(* What is a command of a script depends on the calculator only. *)
LEMMA SharedForm ==
  ASSUME calc' = calc, count' = count
  PROVE  \A c : (Simple(c)' <=> Simple(c))
BY DEF Simple, ScriptCommand, LoopCommand, IsPhonopy, Appends, Items

(* A script has this form when its execution starts ... *)
LEMMA ScriptForm ==
  ASSUME calc \in DOMAIN Steps, count \in Structures
  PROVE  LET s == Steps[calc]
         IN  /\ IsSeq(s)
             /\ \A j \in DOMAIN s :
                   /\ ScriptCommand(s[j])
                   /\ InDirs(s[j]) => j = Len(s)
                   /\ s[j].op = "phonopy" => \A l \in 1..j : s[l].op \notin {"for", "mkdir"}
<1> DEFINE s == Steps[calc]
<1>1. IsSeq(s) /\ Lawful(s, Appending(calc), Pattern(calc), count)
  BY StepsAreSeqs, ScriptsAreLawful
<1>2. PhonopyIn(s) = IsPhonopy /\ Appending(calc) = Appends
  BY DEF PhonopyIn, IsPhonopy, Appending, Appends
<1> HIDE DEF s
<1>3. \A j \in DOMAIN s : ScriptCommand(s[j])
  BY <1>1, <1>2 DEF Lawful, ScriptCommand
<1>4. \A j \in DOMAIN s : s[j].op # "mkdir"
  BY <1>3 DEF ScriptCommand, Listed, IsProgram, DirLoop, FileLoop, InDirs
<1>5. \A j \in DOMAIN s : InDirs(s[j]) => j = Len(s)
  BY <1>1 DEF Lawful, Ordered
<1>6. ASSUME NEW j \in DOMAIN s, s[j].op = "phonopy", NEW l \in 1..j
      PROVE  s[l].op \notin {"for", "mkdir"}
  <2>1. l \in DOMAIN s
    BY <1>1, SeqIs
  <2> QED
    BY <1>1, <1>4, <1>6, <2>1 DEF Lawful, Ordered
<1> QED
  BY <1>1, <1>3, <1>5, <1>6 DEF s

(* ... without its first command ... *)
LEMMA FormTailA ==
  ASSUME FormInv, FormA, todo # <<>>, todo' = Tail(todo), cwd' = Work, calc' = calc, count' = count
  PROVE  IsSeq(todo)' /\ FormA'
<1> DEFINE t == Tail(todo)
<1>1. /\ Len(todo) \in Nat \ {0} /\ DOMAIN todo = 1..Len(todo)
      /\ IsSeq(t) /\ Len(t) = Len(todo) - 1 /\ DOMAIN t = 1..Len(todo) - 1
      /\ \A j \in 1..Len(todo) - 1 : t[j] = todo[j + 1]
  BY TailIs DEF FormInv
<1> HIDE DEF t
<1>2. ASSUME NEW j \in DOMAIN t
      PROVE  /\ Simple(t[j])
             /\ InDirs(t[j]) => j = Len(t)
             /\ t[j].op = "phonopy" => \A l \in 1..j : t[l].op \notin {"for", "mkdir"}
  <2>1. j + 1 \in DOMAIN todo /\ t[j] = todo[j + 1]
    BY <1>1
  <2>2. /\ Simple(todo[j + 1])
        /\ InDirs(todo[j + 1]) => j + 1 = Len(todo)
        /\ todo[j + 1].op = "phonopy" => \A l \in 1..j + 1 : todo[l].op \notin {"for", "mkdir"}
    BY <2>1 DEF FormA, Simple
  <2>3. ASSUME NEW l \in 1..j PROVE t[l] = todo[l + 1] /\ l + 1 \in 1..j + 1
    BY <1>1
  <2> QED
    BY <1>1, <2>1, <2>2, <2>3
<1>3. \A c : Simple(c) => (ScriptCommand(c) \/ LoopCommand(c))'
  BY SharedForm DEF Simple
<1>4. todo' = t
  BY DEF t
<1>5. FormA'
  BY <1>1, <1>2, <1>3, <1>4 DEF FormA
<1> QED
  BY <1>1, <1>4, <1>5 DEF IsSeq

(* ... and in a loop over directories too. *)
LEMMA FormTailB ==
  ASSUME FormInv, FormB, todo # <<>>, todo' = Tail(todo), calc' = calc, count' = count
  PROVE  IsSeq(todo)' /\ FormB'
<1> DEFINE t == Tail(todo)
           Fits(s, j) ==
             /\ IsCommand(s[j]) /\ s[j].item \in Items
             /\ \/ CdTo(s[j], "item") /\ j < Len(s) /\ DirProgram(s[j + 1]) /\ s[j + 1].item = s[j].item
                \/ DirProgram(s[j]) /\ j < Len(s) /\ CdTo(s[j + 1], "up")
                \/ CdTo(s[j], "up") /\ (j < Len(s) => CdTo(s[j + 1], "item"))
<1>1. /\ Len(todo) \in Nat \ {0} /\ DOMAIN todo = 1..Len(todo)
      /\ IsSeq(t) /\ Len(t) = Len(todo) - 1 /\ DOMAIN t = 1..Len(todo) - 1
      /\ \A j \in 1..Len(todo) - 1 : t[j] = todo[j + 1]
  BY TailIs DEF FormInv
<1> HIDE DEF t
<1>2. ASSUME NEW j \in DOMAIN t PROVE Fits(t, j)
  <2>1. j + 1 \in DOMAIN todo /\ t[j] = todo[j + 1]
    BY <1>1
  <2>2. Fits(todo, j + 1)
    BY <2>1 DEF FormB
  <2>3. j < Len(t) <=> j + 1 < Len(todo)
    BY <1>1
  <2>4. j < Len(t) => t[j + 1] = todo[j + 1 + 1]
    BY <1>1
  <2> QED
    BY <2>1, <2>2, <2>3, <2>4
<1>3. \A c : (DirProgram(c)' <=> DirProgram(c)) /\ (c.item \in Items <=> c.item \in Items')
  BY DEF DirProgram, Appends, Items
<1> QED
  BY <1>1, <1>2, <1>3 DEF FormB, t

(* The items are supercells of this calculation, or * itself. *)
LEMMA ItemsFound ==
  ASSUME FormInv, cwd = Work, NEW I, Matched(I)
  PROVE  I \subseteq Items
<1>1. Found \subseteq Items
  <2>1. CASE todo[1].writes.name = "run-supercell"
    BY <2>1 DEF FormInv, Found, Matches
  <2>2. CASE todo[1].writes.name # "run-supercell"
    <3>1. ASSUME NEW i \in Found PROVE i \in Items
      <4>1. i \in Structures \cup {Star} /\ <<cwd, todo[1].writes.name, i>> \in DOMAIN files
        BY <2>2 DEF Found, Matches, Exists
      <4> DEFINE f == <<cwd, todo[1].writes.name, i>>
      <4>2. f[3] = i
        OBVIOUS
      <4>3. FileIs(f)
        BY <4>1 DEF FormInv, FilesInv
      <4> HIDE DEF f
      <4>4. i \in {0} \cup Items
        BY <4>2, <4>3 DEF FileIs
      <4>5. i # 0
        BY <4>1, NumbersAre
      <4> QED
        BY <4>4, <4>5
    <3> QED
      BY <3>1
  <2> QED
    BY <2>1, <2>2
<1>2. Star \in Items
  BY DEF Items
<1> QED
  BY <1>1, <1>2 DEF Matched

(* A loop over files becomes its commands. *)
LoopOverFiles(e, u, I) ==
    /\ IsSeq(e) /\ IsSeq(u) /\ todo' = e \o u
    /\ Len(e) \in Nat /\ Len(u) \in Nat
    /\ DOMAIN e = 1..Len(e) /\ DOMAIN u = 1..Len(u) /\ DOMAIN todo' = 1..Len(e) + Len(u)
    /\ Len(todo') = Len(e) + Len(u) /\ IsSeq(todo')
    /\ \A j \in 1..Len(e) : todo'[j] = e[j]
    /\ \A j \in 1..Len(u) : todo'[Len(e) + j] = u[j]
    /\ \A j \in DOMAIN e : \E k \in DOMAIN todo[1].body, i \in I :
           /\ e[j] = Of(todo[1].body[k], i)
           /\ \A l \in 1..k - 1 : \E h \in 1..j - 1 : e[h] = Of(todo[1].body[l], i)
    /\ \A k \in DOMAIN todo[1].body, i \in I : \E j \in DOMAIN e : e[j] = Of(todo[1].body[k], i)

(* The rest of the script after a loop over files: the loop's commands, then the tail. *)
LEMMA LoopUnrolled ==
  ASSUME IsSeq(todo), todo # <<>>, NEW m \in Nat, DOMAIN todo[1].body = 1..m, Loop
  PROVE  \E items, e :
             /\ items \in Seq(1..Star) /\ Matched(Range(items)) /\ e = Expand(todo[1], items)
             /\ LoopOverFiles(e, Tail(todo), Range(items))
<1> DEFINE c == todo[1]
           S == {Of(c.body[k], i) : k \in 1..m, i \in 1..Star}
           u == Tail(todo)
<1>1. PICK items \in Seq(1..Star) : Matched(Range(items)) /\ todo' = Expand(c, items) \o u
  BY LoopItems
<1> DEFINE e == Expand(c, items)
<1>2. \A k \in 1..m, i \in 1..Star : Of(c.body[k], i) \in S
  OBVIOUS
<1> HIDE DEF S, c
<1>3. DOMAIN c.body = 1..m
  BY DEF c
<1>4. e \in Seq(S) /\ Unrolled(c, items, e)
  BY <1>2, <1>3, ExpandIs
<1>5. IsSeq(e)
  BY <1>4 DEF IsSeq
<1>6. IsSeq(u) /\ Len(u) \in Nat /\ DOMAIN u = 1..Len(u)
  BY TailIs, SeqIs
<1>7. Len(e) \in Nat /\ DOMAIN e = 1..Len(e)
  BY <1>5, SeqIs
<1> DEFINE t == todo'
<1>8. t = e \o u
  BY <1>1
<1> HIDE DEF e, u, t
<1>9. /\ IsSeq(t) /\ Len(t) = Len(e) + Len(u) /\ DOMAIN t = 1..Len(e) + Len(u)
      /\ \A j \in 1..Len(e) : t[j] = e[j]
      /\ \A j \in 1..Len(u) : t[Len(e) + j] = u[j]
  <2> DEFINE v == e \o u
  <2>1. v = e \o u /\ t = v
    BY <1>8
  <2> HIDE DEF v
  <2>2. /\ IsSeq(v) /\ Len(v) = Len(e) + Len(u) /\ DOMAIN v = 1..Len(e) + Len(u)
        /\ \A j \in 1..Len(e) : v[j] = e[j]
        /\ \A j \in 1..Len(u) : v[Len(e) + j] = u[j]
    <3>1. Joined(v, e, u)
      BY <1>5, <1>6, <2>1, ConcatOfSeqs
    <3> QED
      BY <3>1 DEF Joined
  <2> QED
    BY <2>1, <2>2
<1>10. LoopOverFiles(e, u, Range(items))
  BY <1>4, <1>5, <1>6, <1>7, <1>8, <1>9 DEF LoopOverFiles, Unrolled, t, c
<1> QED
  BY <1>1, <1>10 DEF e, u, c

(* A loop over files keeps the form. *)
LEMMA FormLoopA ==
  ASSUME FormInv, FormA, todo # <<>>, FileLoop(todo[1], Appends, Pattern(calc)), Loop
  PROVE  IsSeq(todo)' /\ FormA'
<1> DEFINE c == todo[1]
           m == Len(c.body)
           u == Tail(todo)
<1>1. m \in Nat \ {0} /\ DOMAIN c.body = 1..m /\ c.op = "for"
      /\ \A k \in DOMAIN c.body : InLoop(c.body[k], Appends)
  BY DEF FileLoop
<1>2. IsSeq(todo) /\ cwd = Work
  BY DEF FormInv, FormA
<1>3. PICK items, e : Matched(Range(items)) /\ LoopOverFiles(e, u, Range(items))
  <2> HIDE DEF m
  <2> QED
    BY <1>1, <1>2, LoopUnrolled
<1>4. Range(items) \subseteq Items
  BY <1>2, <1>3, ItemsFound
<1>5. \A j \in DOMAIN e : LoopCommand(e[j]) /\ e[j].op \notin {"for", "phonopy"}
  <2>1. ASSUME NEW b, InLoop(b, Appends), NEW i \in Items
        PROVE  LoopCommand(Of(b, i)) /\ Of(b, i).op \notin {"for", "phonopy"}
    <3>1. IsCommand(b) /\ b.item = 0 /\ b.op \notin {"for", "phonopy"}
      BY <2>1 DEF InLoop
    <3> QED
      BY <2>1, <3>1, OfIs, OfSame DEF LoopCommand
  <2> HIDE DEF c
  <2>2. ASSUME NEW j \in DOMAIN e PROVE LoopCommand(e[j]) /\ e[j].op \notin {"for", "phonopy"}
    <3>1. PICK k \in DOMAIN c.body, i \in Range(items) : e[j] = Of(c.body[k], i)
      BY <1>3 DEF LoopOverFiles, c
    <3>2. i \in Items /\ InLoop(c.body[k], Appends)
      BY <1>1, <1>4
    <3> QED
      BY <2>1, <3>1, <3>2
  <2> QED
    BY <2>2
<1>6. calc' = calc /\ count' = count /\ cwd' = cwd
  BY DEF Loop, Next1
<1>7. /\ Len(todo) \in Nat \ {0} /\ DOMAIN todo = 1..Len(todo)
      /\ Len(u) = Len(todo) - 1
      /\ \A j \in 1..Len(u) : u[j] = todo[j + 1]
  BY <1>2, TailIs
<1> HIDE DEF u
<1>8. \A j \in DOMAIN u :
         /\ Simple(u[j])
         /\ InDirs(u[j]) => j = Len(u)
         /\ u[j].op # "phonopy"
  <2>1. ASSUME NEW j \in 1..Len(u)
        PROVE /\ Simple(u[j])
              /\ InDirs(u[j]) => j = Len(u)
              /\ u[j].op # "phonopy"
    <3>1. j + 1 \in DOMAIN todo /\ 1 \in 1..j + 1 /\ u[j] = todo[j + 1]
      BY <1>7
    <3>2. /\ Simple(todo[j + 1])
          /\ InDirs(todo[j + 1]) => j + 1 = Len(todo)
          /\ todo[j + 1].op # "phonopy"
      BY <1>1, <3>1 DEF FormA, Simple
    <3> QED
      BY <1>7, <3>1, <3>2
  <2> QED
    BY <1>3, <2>1 DEF LoopOverFiles
<1> DEFINE t == todo'
           n == Len(e)
<1>9. ASSUME NEW j \in DOMAIN t
      PROVE  /\ Simple(t[j])
             /\ InDirs(t[j]) => j = Len(t)
             /\ t[j].op # "phonopy"
  <2>1. /\ n \in Nat /\ Len(u) \in Nat /\ DOMAIN t = 1..n + Len(u) /\ Len(t) = n + Len(u)
        /\ DOMAIN e = 1..n /\ DOMAIN u = 1..Len(u)
        /\ \A k \in 1..n : t[k] = e[k]
        /\ \A k \in 1..Len(u) : t[n + k] = u[k]
    BY <1>3 DEF LoopOverFiles
  <2> HIDE DEF t, n
  <2>2. CASE j \in 1..n
    BY <1>5, <2>1, <2>2 DEF Simple, InDirs
  <2>3. CASE j \notin 1..n
    <3> DEFINE k == j - n
    <3>1. k \in 1..Len(u) /\ j = n + k
      BY <2>1, <2>3
    <3>3. k = Len(u) => j = Len(t)
      BY <2>1, <3>1
    <3> HIDE DEF k
    <3>2. t[n + k] = u[k] /\ k \in DOMAIN u
      BY <2>1, <3>1
    <3>4. /\ Simple(u[k])
          /\ InDirs(u[k]) => k = Len(u)
          /\ u[k].op # "phonopy"
      BY <1>8, <3>2
    <3>5. t[j] = u[k]
      BY <3>1, <3>2
    <3> QED
      BY <3>3, <3>4, <3>5
  <2> QED
    BY <2>2, <2>3
<1>10. \A d : Simple(d) => (ScriptCommand(d) \/ LoopCommand(d))'
  BY <1>6, SharedForm DEF Simple
<1>11. IsSeq(t)
  BY <1>3 DEF LoopOverFiles
<1> QED
  BY <1>2, <1>6, <1>9, <1>10, <1>11 DEF FormA, IsSeq

(* A loop over directories is the last command, and becomes blocks of      *)
(* three.                                                                  *)
Blocks(p, I) ==
    /\ IsSeq(todo') /\ DOMAIN todo' = 1..Len(todo')
    /\ Triples(Cd("item"), p, Cd("up"), I, todo')
    /\ todo' # <<>> => \E i \in I : todo'[1] = Of(Cd("item"), i)
    /\ \A i \in I : \E j \in DOMAIN todo' : todo'[j] = Of(p, i)

(* The rest of the script after a loop over directories. *)
LEMMA DirLoopUnrolled ==
  ASSUME IsSeq(todo), todo # <<>>, Len(todo) = 1, DirLoop(todo[1], Appends), Loop
  PROVE  \E I : Matched(I) /\ Blocks(todo[1].body[2], I)
<1> DEFINE c == todo[1]
           m == 3
           a == Cd("item")
           p == c.body[2]
           z == Cd("up")
           S == {Of(c.body[k], i) : k \in 1..m, i \in 1..Star}
           u == Tail(todo)
<1>1. DOMAIN c.body = 1..m /\ m \in Nat
  BY DEF DirLoop
<1>2. PICK items, e :
         /\ items \in Seq(1..Star) /\ Matched(Range(items)) /\ e = Expand(c, items)
         /\ LoopOverFiles(e, u, Range(items))
  <2> HIDE DEF m
  <2> QED
    BY <1>1, LoopUnrolled
<1>3. Len(u) = 0
  BY TailIs
<1>4. \A k \in 1..m, i \in 1..Star : Of(c.body[k], i) \in S
  OBVIOUS
<1>5. DOMAIN c.body = 1..3 /\ c.body[1] = a /\ c.body[2] = p /\ c.body[3] = z
  BY DEF DirLoop
<1> HIDE DEF S, u
<1>6. Triples(a, p, z, Range(items), e) /\ (e # <<>> => \E i \in Range(items) : e[1] = Of(a, i))
  <2> HIDE DEF a, p, z, c
  <2>1. \A k \in 1..3, i \in 1..Star : Of(c.body[k], i) \in S
    BY <1>4
  <2> QED
    BY <1>2, <1>5, <2>1, TriplesIs
<1>7. /\ IsSeq(e) /\ Len(e) \in Nat /\ DOMAIN e = 1..Len(e) /\ IsSeq(todo')
      /\ Len(todo') = Len(e) /\ DOMAIN todo' = 1..Len(e)
      /\ \A j \in 1..Len(e) : todo'[j] = e[j]
      /\ \A i \in Range(items) : \E j \in DOMAIN e : e[j] = Of(p, i)
  <2>1. 2 \in DOMAIN c.body
    BY <1>5
  <2> HIDE DEF c
  <2>2. /\ IsSeq(e) /\ Len(e) \in Nat /\ DOMAIN e = 1..Len(e) /\ IsSeq(todo')
        /\ Len(todo') = Len(e) + Len(u) /\ DOMAIN todo' = 1..Len(e) + Len(u)
        /\ \A j \in 1..Len(e) : todo'[j] = e[j]
    BY <1>2 DEF LoopOverFiles
  <2>3. \A k \in DOMAIN c.body, i \in Range(items) : \E j \in DOMAIN e : e[j] = Of(c.body[k], i)
    BY <1>2 DEF LoopOverFiles, c
  <2>4. Len(e) + Len(u) = Len(e)
    BY <1>3, <2>2
  <2> QED
    BY <2>1, <2>2, <2>3, <2>4
<1> DEFINE t == todo'
<1>8. /\ IsSeq(t) /\ DOMAIN t = 1..Len(t) /\ Len(t) = Len(e) /\ DOMAIN e = DOMAIN t
      /\ \A j \in DOMAIN t : t[j] = e[j]
  BY <1>7
<1> HIDE DEF t, a, p, z, c
<1>9. Triples(a, p, z, Range(items), t)
  <2>1. ASSUME NEW j \in DOMAIN t PROVE j \in DOMAIN e /\ t[j] = e[j] /\ (j < Len(t) => t[j + 1] = e[j + 1])
    <3>1. j \in DOMAIN e /\ t[j] = e[j]
      BY <1>8
    <3>2. ASSUME j < Len(t) PROVE j + 1 \in DOMAIN t
      BY <1>7, <1>8, <3>2
    <3> QED
      BY <1>8, <3>1, <3>2
  <2> QED
    BY <1>6, <1>8, <2>1 DEF Triples
<1>10. t # <<>> => \E i \in Range(items) : t[1] = Of(a, i)
  <2>1. ASSUME t # <<>> PROVE e # <<>> /\ 1 \in DOMAIN t
    <3>1. PICK T : t \in Seq(T)
      BY <1>8 DEF IsSeq
    <3>2. Len(t) # 0
      BY <2>1, <3>1
    <3>3. PICK R : e \in Seq(R)
      BY <1>7 DEF IsSeq
    <3>4. e # <<>>
      BY <1>8, <3>2, <3>3
    <3>5. 1 \in 1..Len(t)
      BY <3>1, <3>2
    <3> QED
      BY <1>8, <3>4, <3>5
  <2> QED
    BY <1>6, <1>8, <2>1
<1>11. \A i \in Range(items) : \E j \in DOMAIN t : t[j] = Of(p, i)
  BY <1>7, <1>8
<1>12. Blocks(p, Range(items))
  BY <1>8, <1>9, <1>10, <1>11 DEF Blocks, t, a, z
<1> QED
  BY <1>2, <1>12 DEF p, c

(* The three commands of its body for an item. *)
LEMMA DirCommands ==
  ASSUME NEW c, DirLoop(c, Appends), NEW i \in Items
  PROVE  LET a == Of(Cd("item"), i)
             p == Of(c.body[2], i)
             z == Of(Cd("up"), i)
         IN  /\ IsCommand(a) /\ a.item = i /\ CdTo(a, "item")
             /\ IsCommand(p) /\ p.item = i /\ DirProgram(p) /\ p.op = "program"
             /\ IsCommand(z) /\ z.item = i /\ CdTo(z, "up")
             /\ p.writes = c.body[2].writes /\ p.reads = c.body[2].reads
<1> DEFINE b == c.body[2]
<1>1. /\ IsProgram(b, Appends) /\ \E p \in b.reads : p.name \in Main
  BY DEF DirLoop
<1>2. /\ IsCommand(b) /\ b.item = 0 /\ b.op = "program"
  BY <1>1 DEF IsProgram
<1> HIDE DEF b
<1>3. /\ IsCommand(Of(b, i)) /\ Of(b, i).item = i /\ Of(b, i).op = "program"
      /\ Of(b, i).writes = b.writes /\ Of(b, i).reads = b.reads
      /\ Of(Of(b, i), 0) = b
  BY <1>2, OfIs, OfSame
<1>4. DirProgram(Of(b, i))
  BY <1>1, <1>3 DEF DirProgram
<1>5. ASSUME NEW to
      PROVE  IsCommand(Of(Cd(to), i)) /\ Of(Cd(to), i).item = i /\ CdTo(Of(Cd(to), i), to)
  <2>1. IsCommand(Cd(to)) /\ Cd(to).op = "cd" /\ Cd(to).mode = to
    BY CommandIs DEF Cd
  <2> HIDE DEF b
  <2> QED
    BY <2>1, OfIs DEF CdTo
<1> QED
  BY <1>3, <1>4, <1>5 DEF b

(* A loop over directories begins the second form. *)
LEMMA FormLoopB ==
  ASSUME FormInv, FormA, todo # <<>>, DirLoop(todo[1], Appends), Loop
  PROVE  IsSeq(todo)' /\ FormB'
<1> DEFINE c == todo[1]
           p == c.body[2]
           t == todo'
<1>1. IsSeq(todo) /\ cwd = Work /\ Len(todo) = 1
  <2>1. IsSeq(todo) /\ cwd = Work
    BY DEF FormInv, FormA
  <2>2. 1 \in DOMAIN todo
    BY <2>1, TailIs
  <2> QED
    BY <2>1, <2>2 DEF FormA, DirLoop
<1>2. PICK I : Matched(I) /\ Blocks(p, I)
  BY <1>1, DirLoopUnrolled
<1>3. I \subseteq Items
  BY <1>1, <1>2, ItemsFound
<1>4. calc' = calc /\ count' = count
  BY DEF Loop, Next1
<1>5. \A d : (DirProgram(d)' <=> DirProgram(d)) /\ (d.item \in Items <=> d.item \in Items')
  BY <1>4 DEF DirProgram, Appends, Items
<1>6. \A i \in I :
         LET a == Of(Cd("item"), i)
             q == Of(p, i)
             z == Of(Cd("up"), i)
         IN  /\ IsCommand(a) /\ a.item = i /\ CdTo(a, "item")
             /\ IsCommand(q) /\ q.item = i /\ DirProgram(q)
             /\ IsCommand(z) /\ z.item = i /\ CdTo(z, "up")
  BY <1>3, DirCommands
<1>7. IsSeq(t) /\ Triples(Cd("item"), p, Cd("up"), I, t)
  BY <1>2 DEF Blocks
<1> HIDE DEF t, p, c
<1>8. ASSUME NEW j \in DOMAIN t
      PROVE  /\ IsCommand(t[j]) /\ t[j].item \in Items
             /\ \/ CdTo(t[j], "item") /\ j < Len(t) /\ DirProgram(t[j + 1]) /\ t[j + 1].item = t[j].item
                \/ DirProgram(t[j]) /\ j < Len(t) /\ CdTo(t[j + 1], "up")
                \/ CdTo(t[j], "up") /\ (j < Len(t) => CdTo(t[j + 1], "item"))
  <2>1. PICK i \in I :
          \/ t[j] = Of(Cd("item"), i) /\ j < Len(t) /\ t[j + 1] = Of(p, i)
          \/ t[j] = Of(p, i) /\ j < Len(t) /\ t[j + 1] = Of(Cd("up"), i)
          \/ t[j] = Of(Cd("up"), i) /\ (j < Len(t) => \E h \in I : t[j + 1] = Of(Cd("item"), h))
    BY <1>7 DEF Triples
  <2>2. CASE t[j] = Of(Cd("item"), i) /\ j < Len(t) /\ t[j + 1] = Of(p, i)
    BY <1>3, <1>6, <2>2
  <2>3. CASE t[j] = Of(p, i) /\ j < Len(t) /\ t[j + 1] = Of(Cd("up"), i)
    BY <1>3, <1>6, <2>3
  <2>4. CASE t[j] = Of(Cd("up"), i) /\ (j < Len(t) => \E h \in I : t[j + 1] = Of(Cd("item"), h))
    BY <1>3, <1>6, <2>4
  <2> QED
    BY <2>1, <2>2, <2>3, <2>4
<1>9. FormB'
  BY <1>5, <1>8 DEF FormB, t
<1> QED
  BY <1>7, <1>9 DEF t, IsSeq

(* What each action is about. *)
LEMMA OpOf ==
  ASSUME Execute
  PROVE  /\ todo # <<>> /\ calc' = calc /\ count' = count /\ pass' = pass
         /\ ChangeDirectory => todo[1].op = "cd"
         /\ HereDocument => todo[1].op = "doc"
         /\ FetchExternal => todo[1].op = "fetch"
         /\ MakeDirectory => todo[1].op = "mkdir"
         /\ Concatenate => todo[1].op = "cat"
         /\ Copy => todo[1].op = "cp"
         /\ Displace => todo[1].op = "phonopy"
         /\ RunProgram => todo[1].op = "program"
         /\ Loop => todo[1].op = "for"
         /\ ~ Loop => todo' = Tail(todo)
  BY DEF Execute, ChangeDirectory, HereDocument, FetchExternal, MakeDirectory, Concatenate, Copy,
         Displace, RunProgram, Loop, Next1, Pops

(* In the loop over directories there is nothing but cd and a program; a   *)
(* cd before it goes to the working directory.                             *)
LEMMA FirstB ==
  ASSUME FormB, IsSeq(todo), todo # <<>>
  PROVE  LET c == todo[1]
         IN  /\ IsCommand(c) /\ c.item \in Items
             /\ \/ CdTo(c, "item") /\ c.op = "cd"
                \/ DirProgram(c) /\ c.op = "program"
                \/ CdTo(c, "up") /\ c.op = "cd"
<1>1. 1 \in DOMAIN todo
  BY TailIs
<1>2. DirProgram(todo[1]) /\ IsCommand(todo[1]) => todo[1].op = "program"
  BY ProgramPath DEF DirProgram
<1> QED
  BY <1>1, <1>2 DEF FormB, CdTo

(* The next command of the first form. *)
LEMMA FirstA ==
  ASSUME FormA, IsSeq(todo), todo # <<>>, count \in Structures
  PROVE  LET c == todo[1]
         IN  /\ Simple(c) /\ cwd = Work
             /\ c.op = "cd" => c.mode = "work"
             /\ c.op = "mkdir" => LoopCommand(c) /\ c.item \in Items
             /\ c.op = "for" => FileLoop(c, Appends, Pattern(calc)) \/ DirLoop(c, Appends)
<1> DEFINE c == todo[1]
<1>1. Simple(c) /\ cwd = Work
  <2>1. 1 \in DOMAIN todo
    BY TailIs
  <2> QED
    BY <2>1 DEF FormA, Simple
<1>2. CASE LoopCommand(c)
  <2>1. c.op \in {"mkdir", "cat", "cp", "doc", "program"}
    BY <1>2, CountIs, LoopPath DEF LoopCommand, ItemsAre
  <2> QED
    BY <1>1, <1>2, <2>1 DEF LoopCommand
<1>3. CASE ScriptCommand(c)
  BY <1>1, <1>3 DEF ScriptCommand, Listed, IsProgram, DirLoop, FileLoop, InDirs
<1> QED
  BY <1>1, <1>2, <1>3 DEF Simple

(* Every command keeps the form, in the working directory ... *)
LEMMA FormStepA ==
  ASSUME FormInv, FormA, Execute
  PROVE  IsSeq(todo)' /\ (FormA' \/ FormB') /\ cwd' = Work /\ dirs' \subseteq Items' /\ FilesInv'
<1> DEFINE c == todo[1]
<1>1. /\ todo # <<>> /\ calc' = calc /\ count' = count /\ pass' = pass
      /\ IsSeq(todo) /\ count \in Structures /\ FilesInv /\ dirs \subseteq Items /\ pass \in Nat \ {0}
      /\ Items' = Items
  BY OpOf DEF FormInv, Items
<1>2. /\ Simple(c) /\ cwd = Work
      /\ c.op = "cd" => c.mode = "work"
      /\ c.op = "mkdir" => LoopCommand(c) /\ c.item \in Items
      /\ c.op = "for" => FileLoop(c, Appends, Pattern(calc)) \/ DirLoop(c, Appends)
  BY <1>1, FirstA
<1> HIDE DEF c
<1>3. CASE Loop
  <2>1. cwd' = cwd /\ dirs' = dirs /\ files' = files
    BY <1>3 DEF Loop
  <2>2. FilesInv' /\ dirs' \subseteq Items'
    BY <1>1, <2>1, FilesSame
  <2>3. c.op = "for"
    BY <1>3, OpOf DEF c
  <2>4. CASE FileLoop(c, Appends, Pattern(calc))
    BY <1>1, <1>2, <1>3, <2>1, <2>2, <2>4, FormLoopA DEF c
  <2>5. CASE DirLoop(c, Appends)
    BY <1>1, <1>2, <1>3, <2>1, <2>2, <2>5, FormLoopB DEF c
  <2> QED
    BY <1>2, <2>3, <2>4, <2>5
<1>4. CASE ~ Loop
  <2>1. todo' = Tail(todo)
    BY <1>4, OpOf
  <2>2. cwd' = Work /\ dirs' \subseteq Items' /\ FilesInv'
    <3>1. CASE ChangeDirectory
      <4>1. c.mode = "work"
        BY <1>2, <3>1, OpOf DEF c
      <4>2. cwd' = Work /\ dirs' = dirs /\ files' = files
        BY <3>1, <4>1 DEF ChangeDirectory, c
      <4> QED
        BY <1>1, <4>2, FilesSame
    <3>2. CASE MakeDirectory
      <4>1. c.item \in Items
        BY <1>2, <3>2, OpOf DEF c
      <4>2. cwd' = cwd /\ files' = files /\ dirs' \in {dirs, dirs \cup {c.item}}
        BY <3>2 DEF MakeDirectory, c
      <4> QED
        BY <1>1, <1>2, <4>1, <4>2, FilesSame
    <3>3. CASE Displace
      <4>1. cwd' = cwd /\ dirs' = dirs
        BY <3>3 DEF Displace, Fails
      <4> QED
        BY <1>1, <1>2, <3>3, <4>1, FilesDisplace DEF c
    <3>4. CASE HereDocument \/ FetchExternal \/ Concatenate \/ Copy \/ RunProgram
      <4>1. cwd' = cwd /\ dirs' = dirs
        BY <3>4 DEF HereDocument, FetchExternal, Concatenate, Copy, RunProgram, Fails
      <4> QED
        BY <1>1, <1>2, <3>4, <4>1, FilesStepA DEF c
    <3> QED
      BY <1>4, <3>1, <3>2, <3>3, <3>4 DEF Execute
  <2> QED
    BY <1>1, <2>1, <2>2, FormTailA
<1> QED
  BY <1>3, <1>4

(* ... and in the loop over the directories. *)
LEMMA FormStepB ==
  ASSUME FormInv, FormB, Execute
  PROVE  /\ IsSeq(todo)' /\ FormB' /\ dirs' \subseteq Items' /\ FilesInv'
         /\ dirs' = dirs /\ todo' = Tail(todo) /\ (ChangeDirectory \/ RunProgram)
         /\ cwd' \in {Above, Work} \cup dirs'
<1> DEFINE c == todo[1]
<1>1. /\ todo # <<>> /\ calc' = calc /\ count' = count /\ pass' = pass
      /\ IsSeq(todo) /\ count \in Structures /\ FilesInv /\ dirs \subseteq Items /\ pass \in Nat \ {0}
      /\ Items' = Items
  BY OpOf DEF FormInv, Items
<1>2. /\ IsCommand(c) /\ c.item \in Items
      /\ \/ CdTo(c, "item") /\ c.op = "cd"
         \/ DirProgram(c) /\ c.op = "program"
         \/ CdTo(c, "up") /\ c.op = "cd"
  BY <1>1, FirstB
<1> HIDE DEF c
<1>3. ChangeDirectory \/ RunProgram
  BY <1>2, OpOf DEF Execute, c
<1>4. todo' = Tail(todo)
  BY <1>3 DEF ChangeDirectory, RunProgram, Pops
<1>5. dirs' = dirs
  BY <1>3 DEF ChangeDirectory, RunProgram, Fails
<1>6. FilesInv'
  <2>1. CASE ChangeDirectory
    <3>1. files' = files
      BY <2>1 DEF ChangeDirectory, Fails
    <3> QED
      BY <1>1, <1>5, <3>1, FilesSame
  <2>2. CASE RunProgram
    <3>1. DirProgram(c)
      BY <1>2, <2>2, OpOf DEF c
    <3> QED
      BY <1>1, <1>2, <2>2, <3>1, FilesStepB DEF c
  <2> QED
    BY <1>3, <2>1, <2>2
<1>7. IsSeq(todo)' /\ FormB'
  BY <1>1, <1>4, FormTailB
<1>8. cwd' \in {Above, Work} \cup dirs'
  <2>1. cwd \in {Above, Work} \cup dirs
    BY DEF FormInv
  <2>2. CASE ChangeDirectory
    BY <1>5, <2>1, <2>2 DEF ChangeDirectory, Fails
  <2>3. CASE RunProgram
    BY <1>5, <2>1, <2>3 DEF RunProgram, Fails
  <2> QED
    BY <1>3, <2>2, <2>3
<1> QED
  BY <1>1, <1>3, <1>4, <1>5, <1>6, <1>7, <1>8

(* The form of the initial states ... *)
LEMMA FormInit ==
  ASSUME Init
  PROVE  FormInv /\ FormA
<1>1. /\ calc \in DOMAIN Steps /\ count \in Structures /\ pass = 1 /\ dirs = {} /\ cwd = Work
      /\ todo = Steps[calc] /\ files = <<>>
  BY CalculatorAssumption DEF Init
<1>2. IsSeq(todo) /\ FormA
  <2> DEFINE s == Steps[calc]
  <2>1. /\ IsSeq(s)
        /\ \A j \in DOMAIN s :
              /\ ScriptCommand(s[j])
              /\ InDirs(s[j]) => j = Len(s)
              /\ s[j].op = "phonopy" => \A l \in 1..j : s[l].op \notin {"for", "mkdir"}
    BY <1>1, ScriptForm
  <2> HIDE DEF s
  <2>2. todo = s
    BY <1>1 DEF s
  <2> QED
    BY <1>1, <2>1, <2>2 DEF FormA
<1>3. FilesInv
  BY <1>1 DEF FilesInv
<1> QED
  BY <1>1, <1>2, <1>3 DEF FormInv

(* ... when the script is executed again ... *)
LEMMA FormAgain ==
  ASSUME FormInv, Again
  PROVE  FormInv' /\ FormA'
<1>1. /\ calc' = calc /\ count' = count /\ pass' = pass + 1 /\ dirs' = dirs /\ files' = files /\ cwd' = Work
      /\ calc \in DOMAIN Steps /\ count \in Structures /\ pass \in Nat \ {0} /\ FilesInv /\ dirs \subseteq Items
  BY DEF Again, FormInv
<1>2. IsSeq(todo)' /\ FormA'
  <2> DEFINE s == Steps[calc]
  <2>1. /\ IsSeq(s)
        /\ \A j \in DOMAIN s :
              /\ ScriptCommand(s[j])
              /\ InDirs(s[j]) => j = Len(s)
              /\ s[j].op = "phonopy" => \A l \in 1..j : s[l].op \notin {"for", "mkdir"}
    BY <1>1, ScriptForm
  <2>2. todo' = s
    BY DEF Again
  <2>3. \A c : ScriptCommand(c) => (ScriptCommand(c) \/ LoopCommand(c))'
    BY <1>1, SharedForm DEF Simple, ScriptCommand, IsPhonopy, Appends
  <2> HIDE DEF s
  <2>4. FormA'
    BY <1>1, <2>1, <2>2, <2>3 DEF FormA
  <2>5. IsSeq(todo)'
    BY <2>1, <2>2 DEF IsSeq
  <2> QED
    BY <2>4, <2>5
<1>3. FilesInv'
  BY <1>1, FilesSame
<1>4. pass' \in Nat \ {0} /\ dirs' \subseteq Items'
  BY <1>1 DEF Items
<1> QED
  BY <1>1, <1>2, <1>3, <1>4 DEF FormInv

(* ... and after every step. *)
LEMMA FormNext ==
  ASSUME FormInv, [Next]_vars
  PROVE  FormInv'
<1>1. CASE Again
  BY <1>1, FormAgain
<1>2. CASE Execute
  <2>1. /\ calc' = calc /\ count' = count /\ pass' = pass
        /\ calc \in DOMAIN Steps /\ count \in Structures /\ pass \in Nat \ {0}
    BY <1>2, OpOf DEF FormInv
  <2>2. IsSeq(todo)' /\ (FormA' \/ FormB') /\ cwd' \in {Above, Work} \cup dirs' /\ dirs' \subseteq Items' /\ FilesInv'
    BY <1>2, FormStepA, FormStepB DEF FormInv
  <2> QED
    BY <2>1, <2>2 DEF FormInv
<1>3. CASE UNCHANGED vars
  BY <1>3 DEF vars, FormInv, FormA, FormB, FilesInv, FileIs, MadeFor, Items, ScriptCommand, LoopCommand,
              IsPhonopy, Appends, DirProgram, IsSeq
<1> QED
  BY <1>1, <1>2, <1>3 DEF Next

(* What is still to be executed is always the rest of a script of this     *)
(* program, and what was made for one supercell is never in another's file. *)
THEOREM FormHolds == Spec => []FormInv
<1>1. Init => FormInv
  BY FormInit
<1>2. FormInv /\ [Next]_vars => FormInv'
  BY FormNext
<1> QED
  BY <1>1, <1>2, PTL DEF Spec

-----------------------------------------------------------------------------
(* The current directory. *)
LEMMA DomainA ==
  ASSUME FormInv, FormA, Execute
  PROVE  /\ AnyDisplaced => AnyDisplaced'
         /\ ~ Displace /\ AnyDisplaced' => AnyDisplaced
<1> DEFINE c == todo[1]
           f == At(Work, c.writes, c.item)
<1>1. /\ Simple(c) /\ cwd = Work /\ count \in Structures
  BY OpOf, FirstA DEF FormInv
<1>2. CASE Displace
  <2>1. DOMAIN files \subseteq DOMAIN files'
    BY <1>2 DEF Displace, Fails
  <2> QED
    BY <1>2, <2>1 DEF AnyDisplaced
<1>3. CASE HereDocument \/ FetchExternal \/ Concatenate \/ Copy \/ RunProgram
  <2>1. c.op \in Filing
    BY <1>3, OpOf DEF Filing
  <2>2. f[2] \notin Displaced
    BY <1>1, <2>1, TargetA
  <2>3. Resolve(c.writes, c.item) = f
    BY <1>1, ResolveIs
  <2> HIDE DEF f
  <2>4. files' = files \/ \E C : files' = Put(f, C)
    BY <1>3, <2>3 DEF HereDocument, FetchExternal, Concatenate, Copy, RunProgram, Fails
  <2>5. DOMAIN files' = DOMAIN files \/ DOMAIN files' = DOMAIN files \cup {f}
    BY <2>4 DEF Put
  <2> QED
    BY <1>3, <2>2, <2>5 DEF AnyDisplaced
<1>4. CASE ChangeDirectory \/ MakeDirectory \/ Loop
  <2>1. files' = files
    BY <1>4 DEF ChangeDirectory, MakeDirectory, Loop, Fails
  <2> QED
    BY <2>1 DEF AnyDisplaced
<1> QED
  BY <1>2, <1>3, <1>4 DEF Execute

(* In a loop over directories: what comes after a command. *)
LEMMA NextB ==
  ASSUME FormB, IsSeq(todo), todo # <<>>
  PROVE  LET c == todo[1]
             t == Tail(todo)
         IN  /\ CdTo(c, "item") => t # <<>> /\ DirProgram(t[1]) /\ t[1].item = c.item /\ t[1].op = "program"
             /\ DirProgram(c) => t # <<>> /\ CdTo(t[1], "up")
             /\ CdTo(c, "up") => t = <<>> \/ CdTo(t[1], "item")
<1> DEFINE c == todo[1]
           t == Tail(todo)
<1>1. /\ Len(todo) \in Nat \ {0} /\ DOMAIN todo = 1..Len(todo)
      /\ IsSeq(t) /\ Len(t) = Len(todo) - 1 /\ DOMAIN t = 1..Len(todo) - 1
      /\ \A j \in 1..Len(todo) - 1 : t[j] = todo[j + 1]
  BY TailIs
<1>2. IsCommand(c) /\ DirProgram(c) => c.op = "program"
  BY ProgramPath DEF DirProgram
<1>3. /\ IsCommand(c)
      /\ \/ CdTo(c, "item") /\ 1 < Len(todo) /\ DirProgram(todo[2]) /\ todo[2].item = c.item
         \/ DirProgram(c) /\ 1 < Len(todo) /\ CdTo(todo[2], "up")
         \/ CdTo(c, "up") /\ (1 < Len(todo) => CdTo(todo[2], "item"))
  <2>1. 1 \in DOMAIN todo /\ 1 + 1 = 2
    BY <1>1
  <2> QED
    BY <2>1 DEF FormB
<1>4. 1 < Len(todo) => t # <<>> /\ t[1] = todo[2]
  <2>1. ASSUME 1 < Len(todo) PROVE 1 \in 1..Len(todo) - 1 /\ 1 + 1 = 2
    BY <1>1, <2>1
  <2>2. 1 < Len(todo) => t[1] = todo[2] /\ 1 \in DOMAIN t
    BY <1>1, <2>1
  <2> HIDE DEF t
  <2>3. 1 \in DOMAIN t => t # <<>>
    OBVIOUS
  <2> QED
    BY <2>2, <2>3
<1>5. ~ (1 < Len(todo)) => t = <<>>
  <2>1. PICK S : t \in Seq(S)
    BY <1>1 DEF IsSeq
  <2>2. ASSUME ~ (1 < Len(todo)) PROVE Len(t) = 0
    BY <1>1, <2>2
  <2> HIDE DEF t
  <2> QED
    BY <2>1, <2>2
<1>6. ASSUME NEW d, IsCommand(d), DirProgram(d) PROVE d.op = "program"
  BY <1>6, ProgramPath DEF DirProgram
<1>7. 1 < Len(todo) => IsCommand(todo[2])
  <2>1. ASSUME 1 < Len(todo) PROVE 2 \in DOMAIN todo
    BY <1>1, <2>1
  <2> QED
    BY <2>1 DEF FormB
<1> HIDE DEF t
<1> QED
  BY <1>2, <1>3, <1>4, <1>5, <1>6, <1>7 DEF CdTo, t

(* A step in the loop over directories goes up only from one that it entered. *)
LEMMA LeaveStepB ==
  ASSUME FormInv, FormB, LeaveB, dirs = {Star} \/ Star \notin dirs, Execute
  PROVE  LeaveInv'
<1> DEFINE c == todo[1]
           t == Tail(todo)
<1>1. /\ IsSeq(todo) /\ todo # <<>> /\ FormB' /\ dirs' = dirs /\ todo' = t
      /\ ChangeDirectory \/ RunProgram
  BY FormStepB, OpOf DEF FormInv
<1>2. /\ CdTo(c, "item") => t # <<>> /\ t[1].op = "program"
      /\ DirProgram(c) => t # <<>> /\ CdTo(t[1], "up")
      /\ CdTo(c, "up") => t = <<>> \/ CdTo(t[1], "item")
  BY <1>1, NextB
<1>3. \/ CdTo(c, "item") /\ c.op = "cd"
      \/ DirProgram(c) /\ c.op = "program"
      \/ CdTo(c, "up") /\ c.op = "cd"
  BY <1>1, FirstB
<1>4. \A j \in DOMAIN t : CdTo(t[j], "item") => t[j].item \in dirs /\ (t[j].item = Star => dirs = {Star})
  <2>1. \A j \in DOMAIN t : j + 1 \in DOMAIN todo /\ t[j] = todo[j + 1]
    BY <1>1, TailIs
  <2> HIDE DEF t
  <2> QED
    BY <2>1 DEF LeaveB
<1>5. /\ CdTo(c, "item") => cwd = Work /\ c.item \in dirs /\ (c.item = Star => dirs = {Star})
      /\ DirProgram(c) \/ CdTo(c, "up") => CdTo(c, "item") \/ cwd \in dirs
  <2>1. 1 \in DOMAIN todo
    BY <1>1, TailIs
  <2> QED
    BY <1>1, <2>1 DEF LeaveB
<1> HIDE DEF t
<1>6. IF t = <<>> \/ CdTo(t[1], "item") THEN cwd' = Work ELSE cwd' \in dirs
  <2>1. CASE CdTo(c, "item") /\ c.op = "cd"
    <3>1. ChangeDirectory
      BY <1>1, <2>1, OpOf DEF Execute
    <3>2. cwd' = c.item
      BY <1>5, <2>1, <3>1 DEF ChangeDirectory, CdTo
    <3> QED
      BY <1>2, <1>5, <2>1, <3>2 DEF CdTo
  <2>2. CASE DirProgram(c) /\ c.op = "program"
    <3>1. RunProgram
      BY <1>1, <2>2, OpOf DEF Execute
    <3>2. cwd' = cwd
      BY <3>1 DEF RunProgram, Fails
    <3>3. ~ CdTo(c, "item")
      BY <2>2 DEF CdTo
    <3> QED
      BY <1>2, <1>5, <2>2, <3>2, <3>3 DEF CdTo
  <2>3. CASE CdTo(c, "up") /\ c.op = "cd"
    <3>1. ChangeDirectory
      BY <1>1, <2>3, OpOf DEF Execute
    <3>2. ~ CdTo(c, "item")
      BY <2>3 DEF CdTo
    <3>3. cwd' = Work
      BY <1>5, <2>3, <3>1, <3>2 DEF ChangeDirectory, CdTo
    <3> QED
      BY <1>2, <2>3, <3>3
  <2> QED
    BY <1>3, <2>1, <2>2, <2>3
<1>7. LeaveB'
  BY <1>1, <1>4, <1>6 DEF LeaveB, CdTo
<1> QED
  BY <1>1, <1>7 DEF LeaveInv

(* What the commands of this phase do to the directories. *)
LEMMA DirsA ==
  ASSUME FormInv, FormA, Execute
  PROVE  /\ cwd = Work /\ dirs \subseteq dirs'
         /\ ~ MakeDirectory => dirs' = dirs
         /\ MakeDirectory => /\ todo[1].op = "mkdir" /\ todo[1].item \in Items
                             /\ dirs' = IF ~(todo[1].item = Star /\ dirs # {}) THEN dirs \cup {todo[1].item} ELSE dirs
<1>1. cwd = Work /\ (todo[1].op = "mkdir" => todo[1].item \in Items)
  BY OpOf, FirstA DEF FormInv
<1>2. MakeDirectory => /\ todo[1].op = "mkdir"
                       /\ dirs' = IF ~(todo[1].item = Star /\ dirs # {}) THEN dirs \cup {todo[1].item} ELSE dirs
  BY <1>1, OpOf DEF MakeDirectory
<1>3. ~ MakeDirectory => dirs' = dirs
  BY DEF Execute, ChangeDirectory, HereDocument, FetchExternal, Concatenate, Copy, Displace, RunProgram, Loop, Fails
<1> QED
  BY <1>1, <1>2, <1>3

(* A command that is not a loop leaves the tail of the script. *)
LEMMA FormSimpleA ==
  ASSUME FormInv, FormA, Execute, ~ Loop
  PROVE  FormA' /\ cwd' = Work /\ todo' = Tail(todo)
<1> DEFINE c == todo[1]
<1>1. /\ IsSeq(todo) /\ todo # <<>> /\ todo' = Tail(todo) /\ calc' = calc /\ count' = count
  BY OpOf DEF FormInv
<1>2. Simple(c) /\ cwd = Work /\ (c.op = "cd" => c.mode = "work")
  BY <1>1, FirstA DEF FormInv
<1>3. cwd' = Work
  <2>1. CASE ChangeDirectory
    <3>1. c.mode = "work"
      BY <1>2, <2>1, OpOf
    <3> QED
      BY <2>1, <3>1 DEF ChangeDirectory
  <2>2. CASE ~ ChangeDirectory
    BY <1>2, <2>2 DEF Execute, HereDocument, FetchExternal, MakeDirectory, Concatenate, Copy, Displace, RunProgram, Fails
  <2> QED
    BY <2>1, <2>2
<1> QED
  BY <1>1, <1>3, FormTailA

(* Such a command keeps what is known of the directories ... *)
LEMMA LeaveSimpleA ==
  ASSUME FormInv, FormA, LeaveA, dirs = {Star} \/ Star \notin dirs, ~ Inside, Execute, ~ Loop
  PROVE  LeaveInv'
<1> DEFINE c == todo[1]
           t == Tail(todo)
<1>1. /\ IsSeq(todo) /\ todo # <<>> /\ pass' = pass /\ todo' = t /\ pass \in Nat \ {0} /\ Star \in Items
      /\ FormA'
  BY OpOf, FormSimpleA DEF FormInv, Items
<1>2. /\ dirs \subseteq dirs'
      /\ ~ MakeDirectory => dirs' = dirs
      /\ MakeDirectory => /\ c.op = "mkdir"
                          /\ dirs' = IF ~(c.item = Star /\ dirs # {}) THEN dirs \cup {c.item} ELSE dirs
  BY DirsA
<1>3. /\ 1 \in DOMAIN todo
      /\ \A j \in DOMAIN t : j + 1 \in DOMAIN todo /\ t[j] = todo[j + 1]
      /\ \A j \in DOMAIN t : \A l \in 1..j + 1 : l = 1 \/ (l - 1 \in 1..j /\ (l - 1 \in 1..j - 1 => t[l - 1] = todo[l]))
  <2>1. /\ Len(todo) \in Nat \ {0} /\ DOMAIN todo = 1..Len(todo)
        /\ DOMAIN t = 1..Len(todo) - 1
        /\ \A j \in 1..Len(todo) - 1 : t[j] = todo[j + 1]
    BY <1>1, TailIs
  <2> HIDE DEF t
  <2>2. ASSUME NEW j \in DOMAIN t, NEW l \in 1..j + 1, l # 1
        PROVE  l - 1 \in 1..j /\ (l - 1 \in 1..j - 1 => t[l - 1] = todo[l])
    <3>1. l - 1 \in 1..j /\ l - 1 \in DOMAIN t /\ l - 1 + 1 = l
      BY <2>1, <2>2
    <3> QED
      BY <2>1, <3>1
  <2> QED
    BY <2>1, <2>2
<1> HIDE DEF t
<1>4. ASSUME NEW j \in DOMAIN t, InDirs(t[j])
      PROVE  dirs' # {} \/ \E l \in 1..j - 1 : Makes(t[l])
  <2>1. dirs # {} \/ \E l \in 1..j : Makes(todo[l])
    <3>1. j + 1 \in DOMAIN todo /\ InDirs(todo[j + 1])
      BY <1>3, <1>4
    <3>2. dirs # {} \/ \E l \in 1..(j + 1) - 1 : Makes(todo[l])
      BY <3>1 DEF LeaveA
    <3>3. (j + 1) - 1 = j
      BY <3>1, <1>1, SeqIs
    <3> QED
      BY <3>2, <3>3
  <2>2. CASE dirs # {}
    BY <1>2, <2>2
  <2>3. CASE \E l \in 1..j : Makes(todo[l])
    <3>1. PICK l \in 1..j : Makes(todo[l])
      BY <2>3
    <3>2. j \in Nat
      <4>1. j + 1 \in DOMAIN todo /\ DOMAIN t = 1..Len(todo) - 1 /\ Len(todo) \in Nat
        BY <1>1, <1>3, TailIs DEF t
      <4> QED
        BY <4>1
    <3>3. CASE l = 1
      <4>1. c.op # "for"
        BY OpOf DEF Execute
      <4>2. c.op = "mkdir"
        BY <3>1, <3>3, <4>1 DEF Makes
      <4>3. MakeDirectory
        BY <4>2, OpOf DEF Execute
      <4> QED
        BY <1>2, <4>3
    <3>4. CASE l # 1
      <4>1. l - 1 \in 1..j - 1 /\ l \in 1..j + 1
        BY <3>2, <3>4
      <4>2. t[l - 1] = todo[l]
        BY <1>3, <3>4, <4>1
      <4> QED
        BY <3>1, <4>1, <4>2
    <3> QED
      BY <3>3, <3>4
  <2> QED
    BY <2>1, <2>2, <2>3
<1>5. ASSUME pass = 1, Star \in dirs' \/ (\E j \in DOMAIN t : t[j].op = "mkdir" /\ t[j].item = Star)
      PROVE  ~ AnyDisplaced' /\ \A j \in DOMAIN t : t[j].op # "phonopy"
  <2>1. Star \in dirs \/ (\E j \in DOMAIN todo : todo[j].op = "mkdir" /\ todo[j].item = Star)
    <3>1. CASE Star \in dirs'
      BY <1>2, <1>3, <3>1
    <3>2. CASE \E j \in DOMAIN t : t[j].op = "mkdir" /\ t[j].item = Star
      BY <1>3, <3>2
    <3> QED
      BY <1>5, <3>1, <3>2
  <2>2. ~ AnyDisplaced /\ \A j \in DOMAIN todo : todo[j].op # "phonopy"
    BY <1>5, <2>1 DEF LeaveA
  <2>3. ~ Displace
    BY <1>3, <2>2, OpOf
  <2> QED
    BY <1>3, <2>2, <2>3, DomainA
<1>6. ASSUME pass = 1, NEW j \in DOMAIN t, t[j].op = "mkdir", t[j].item # Star
      PROVE  AnyDisplaced'
  BY <1>3, <1>6, DomainA DEF LeaveA
<1>7. LeaveA'
  BY <1>1, <1>4, <1>5, <1>6 DEF LeaveA
<1>8. Inside' \/ dirs' = {Star} \/ Star \notin dirs'
  <2>1. CASE ~ MakeDirectory
    BY <1>2, <2>1
  <2>2. CASE MakeDirectory /\ c.item # Star
    <3>1. dirs' = dirs \cup {c.item} /\ c.op = "mkdir"
      BY <1>2, <2>2
    <3>2. Star \notin dirs
      <4>1. pass = 1 => AnyDisplaced
        BY <1>3, <2>2, <3>1 DEF LeaveA
      <4>2. pass = 1 /\ Star \in dirs => ~ AnyDisplaced
        BY DEF LeaveA
      <4> QED
        BY <1>1, <4>1, <4>2 DEF Inside
    <3> QED
      BY <2>2, <3>1, <3>2
  <2>3. CASE MakeDirectory /\ c.item = Star
    BY <1>2, <2>3
  <2> QED
    BY <2>1, <2>2, <2>3
<1> QED
  BY <1>1, <1>7, <1>8 DEF LeaveInv

(* ... and so does a loop over files, which makes them, for the supercells or the literal pattern ... *)
LEMMA LeaveFileLoop ==
  ASSUME FormInv, FormA, LeaveA, dirs = {Star} \/ Star \notin dirs, Loop,
         FileLoop(todo[1], Appends, Pattern(calc))
  PROVE  LeaveInv'
<1> DEFINE c == todo[1]
           m == Len(c.body)
           u == Tail(todo)
           t == todo'
<1>1. /\ IsSeq(todo) /\ todo # <<>> /\ pass' = pass /\ cwd = Work /\ files' = files /\ dirs' = dirs
      /\ c.op = "for" /\ FormA'
  <2>1. /\ IsSeq(todo) /\ todo # <<>> /\ pass' = pass /\ cwd = Work /\ files' = files /\ dirs' = dirs
        /\ c.op = "for"
    BY DEF FormInv, FormA, Loop, Next1
  <2> QED
    BY <2>1, FormLoopA
<1>2. m \in Nat \ {0} /\ DOMAIN c.body = 1..m
      /\ \A k \in DOMAIN c.body : c.body[k].op = "mkdir" => k = 1 /\ c.writes.name = Pattern(calc)
  BY DEF FileLoop
<1>3. PICK items, e : Matched(Range(items)) /\ LoopOverFiles(e, u, Range(items))
  <2> HIDE DEF m
  <2> QED
    BY <1>1, <1>2, LoopUnrolled
<1> DEFINE I == Range(items)
           n == Len(e)
<1>4. /\ Len(todo) \in Nat \ {0} /\ DOMAIN todo = 1..Len(todo)
      /\ Len(u) = Len(todo) - 1
      /\ \A j \in 1..Len(u) : u[j] = todo[j + 1]
  BY <1>1, TailIs
<1>5. /\ n \in Nat /\ Len(u) \in Nat /\ DOMAIN t = 1..n + Len(u) /\ Len(t) = n + Len(u)
      /\ DOMAIN e = 1..n
      /\ \A j \in 1..n : t[j] = e[j]
      /\ \A j \in 1..Len(u) : t[n + j] = u[j]
      /\ \A j \in 1..n : \E k \in DOMAIN c.body, i \in I : e[j] = Of(c.body[k], i)
      /\ \A k \in DOMAIN c.body, i \in I : \E j \in 1..n : e[j] = Of(c.body[k], i)
  BY <1>3 DEF LoopOverFiles
<1>6. \A k \in DOMAIN c.body : c.body[k].op \notin {"for", "phonopy"}
  BY DEF FileLoop, InLoop
<1>15. \A k \in DOMAIN c.body, i \in I : Of(c.body[k], i).op = c.body[k].op
  <2>1. \A k \in DOMAIN c.body : IsCommand(c.body[k])
    BY DEF FileLoop, InLoop
  <2> HIDE DEF c
  <2> QED
    BY <2>1, OfIs
<1>16. \A k \in DOMAIN c.body, i \in I : Of(c.body[k], i).item = i
  <2>1. \A k \in DOMAIN c.body : IsCommand(c.body[k])
    BY DEF FileLoop, InLoop
  <2> HIDE DEF c
  <2> QED
    BY <2>1, OfIs
<1>7. ASSUME \E k \in DOMAIN c.body : c.body[k].op = "mkdir"
      PROVE  /\ I # {} /\ (Star \in I => ~ AnyDisplaced)
             /\ (\E i \in I : i # Star) => AnyDisplaced
  <2>1. c.writes.name = Pattern(calc) /\ Pattern(calc) \in Displaced
    BY <1>2, <1>7, PatternIs
  <2>2. Found = {i \in Structures \cup {Star} : <<Work, Pattern(calc), i>> \in DOMAIN files}
    <3>1. Pattern(calc) # "run-supercell"
      BY <2>1, NamesDiffer
    <3> QED
      BY <1>1, <2>1, <3>1 DEF Found, Matches, Exists
  <2>3. ASSUME NEW f \in DOMAIN files, f[2] \in Displaced
        PROVE  f[3] \in Found /\ f[3] # Star
    <3>1. f = <<f[1], f[2], f[3]>> /\ f[1] = Work /\ f[2] = Pattern(calc) /\ f[3] \in 1..count
      BY <2>3 DEF FormInv, FilesInv, FileIs, Named
    <3>2. f[3] \in Structures /\ f[3] # Star
      BY <3>1, CountIs, NumbersAre DEF FormInv, ItemsAre
    <3>3. <<Work, Pattern(calc), f[3]>> = f
      BY <3>1
    <3> QED
      BY <2>2, <2>3, <3>2, <3>3
  <2>4. Star \notin Found
    <3>1. ASSUME Star \in Found PROVE FALSE
      <4> DEFINE f == <<Work, Pattern(calc), Star>>
      <4>1. f \in DOMAIN files /\ f[2] = Pattern(calc) /\ f[3] = Star
        BY <2>2, <3>1
      <4> QED
        BY <2>1, <2>3, <4>1
    <3> QED
      BY <3>1
  <2>5. Found # {} => AnyDisplaced
    <3>1. ASSUME NEW i \in Found PROVE AnyDisplaced
      <4> DEFINE f == <<Work, Pattern(calc), i>>
      <4>1. f \in DOMAIN files /\ f[2] = Pattern(calc)
        BY <2>2
      <4> HIDE DEF f
      <4> QED
        BY <2>1, <4>1 DEF AnyDisplaced
    <3> QED
      BY <3>1
  <2>6. AnyDisplaced => Found # {}
    BY <2>3 DEF AnyDisplaced
  <2>7. Found \subseteq Structures \cup {Star}
    BY <2>2
  <2> HIDE DEF I
  <2>8. I = (Structures \cap Found) \cup (IF Found = {} \/ Star \in Found THEN {Star} ELSE {})
    BY <1>3 DEF Matched, I
  <2> QED
    BY <2>4, <2>5, <2>6, <2>7, <2>8, NumbersAre
<1> HIDE DEF u, t, I, n, m, c
<1>8. ASSUME NEW j \in DOMAIN t
      PROVE  \/ j \in 1..n /\ \E k \in DOMAIN c.body, i \in I : t[j] = Of(c.body[k], i)
             \/ \E k \in 1..Len(u) : j = n + k /\ t[j] = todo[k + 1] /\ k + 1 \in DOMAIN todo
  <2>1. CASE j \in 1..n
    BY <1>5, <2>1
  <2>2. CASE j \notin 1..n
    <3> DEFINE k == j - n
    <3>1. k \in 1..Len(u) /\ j = n + k
      BY <1>5, <2>2
    <3> HIDE DEF k
    <3>2. t[n + k] = u[k] /\ u[k] = todo[k + 1] /\ k + 1 \in DOMAIN todo
      BY <1>4, <1>5, <3>1
    <3> QED
      BY <3>1, <3>2
  <2> QED
    BY <2>1, <2>2
<1>9. ASSUME NEW j \in DOMAIN t, InDirs(t[j])
      PROVE  dirs # {} \/ \E l \in 1..j - 1 : Makes(t[l])
  <2>1. PICK k \in 1..Len(u) : j = n + k /\ t[j] = todo[k + 1] /\ k + 1 \in DOMAIN todo
    BY <1>6, <1>8, <1>9, <1>15 DEF InDirs
  <2>2. dirs # {} \/ \E l \in 1..k : Makes(todo[l])
    <3>1. dirs # {} \/ \E l \in 1..(k + 1) - 1 : Makes(todo[l])
      BY <1>9, <2>1 DEF LeaveA
    <3>2. (k + 1) - 1 = k
      OBVIOUS
    <3> QED
      BY <3>1, <3>2
  <2>3. ASSUME NEW l \in 1..k, Makes(todo[l]) PROVE \E h \in 1..j - 1 : Makes(t[h])
    <3>1. CASE l = 1
      <4>1. c.body[1].op = "mkdir" /\ 1 \in DOMAIN c.body
        BY <1>1, <1>2, <2>3, <3>1 DEF Makes, c, m
      <4>2. PICK i : i \in I
        BY <1>7, <4>1
      <4>3. PICK h \in 1..n : e[h] = Of(c.body[1], i)
        BY <1>5, <4>1, <4>2
      <4>4. t[h] = e[h] /\ h \in 1..j - 1
        BY <1>5, <2>1
      <4>5. t[h].op = "mkdir"
        BY <1>15, <4>1, <4>2, <4>3, <4>4
      <4> QED
        BY <4>4, <4>5 DEF Makes
    <3>2. CASE l # 1
      <4> DEFINE h == l - 1
      <4>1. h \in 1..Len(u) /\ h + 1 = l /\ n + h \in 1..j - 1
        BY <1>5, <2>1, <3>2
      <4> HIDE DEF h
      <4>2. t[n + h] = todo[l]
        BY <1>4, <1>5, <4>1
      <4> QED
        BY <2>3, <4>1, <4>2
    <3> QED
      BY <3>1, <3>2
  <2> QED
    BY <2>2, <2>3
<1>10. \A j \in DOMAIN todo : todo[j].op # "phonopy"
  <2>1. ASSUME NEW j \in DOMAIN todo PROVE 1 \in 1..j
    BY <1>4
  <2> QED
    BY <1>1, <2>1 DEF FormA, c
<1>11. ASSUME pass = 1, Star \in dirs \/ (\E j \in DOMAIN t : t[j].op = "mkdir" /\ t[j].item = Star)
       PROVE  ~ AnyDisplaced /\ \A j \in DOMAIN t : t[j].op # "phonopy"
  <2>1. \A j \in DOMAIN t : t[j].op # "phonopy"
    BY <1>6, <1>8, <1>10, <1>15
  <2>2. ~ AnyDisplaced
    <3>1. CASE Star \in dirs
      BY <1>11, <3>1 DEF LeaveA
    <3>2. ASSUME NEW j \in DOMAIN t, t[j].op = "mkdir", t[j].item = Star PROVE ~ AnyDisplaced
      <4>1. CASE j \in 1..n /\ \E k \in DOMAIN c.body, i \in I : t[j] = Of(c.body[k], i)
        BY <1>7, <1>15, <1>16, <3>2, <4>1
      <4>2. CASE \E k \in 1..Len(u) : j = n + k /\ t[j] = todo[k + 1] /\ k + 1 \in DOMAIN todo
        BY <1>11, <3>2, <4>2 DEF LeaveA
      <4> QED
        BY <1>8, <4>1, <4>2
    <3> QED
      BY <1>11, <3>1, <3>2
  <2> QED
    BY <2>1, <2>2
<1>12. ASSUME pass = 1, NEW j \in DOMAIN t, t[j].op = "mkdir", t[j].item # Star
       PROVE  AnyDisplaced
  <2>1. CASE j \in 1..n /\ \E k \in DOMAIN c.body, i \in I : t[j] = Of(c.body[k], i)
    BY <1>7, <1>12, <1>15, <1>16, <2>1
  <2>2. CASE \E k \in 1..Len(u) : j = n + k /\ t[j] = todo[k + 1] /\ k + 1 \in DOMAIN todo
    BY <1>12, <2>2 DEF LeaveA
  <2> QED
    BY <1>8, <2>1, <2>2
<1>13. AnyDisplaced' <=> AnyDisplaced
  BY <1>1 DEF AnyDisplaced
<1>14. LeaveA'
  BY <1>1, <1>9, <1>11, <1>12, <1>13 DEF LeaveA, t
<1> QED
  BY <1>1, <1>14 DEF LeaveInv

(* ... and a loop that enters them. *)
LEMMA LeaveDirLoop ==
  ASSUME FormInv, FormA, LeaveA, dirs = {Star} \/ Star \notin dirs, Loop, DirLoop(todo[1], Appends)
  PROVE  LeaveInv'
<1> DEFINE c == todo[1]
           p == c.body[2]
           t == todo'
<1>1. /\ IsSeq(todo) /\ todo # <<>> /\ pass' = pass /\ cwd = Work /\ cwd' = cwd /\ dirs' = dirs
      /\ FormB' /\ dirs \subseteq Items
  <2>1. /\ IsSeq(todo) /\ todo # <<>> /\ pass' = pass /\ cwd = Work /\ cwd' = cwd /\ dirs' = dirs /\ dirs \subseteq Items
    BY DEF FormInv, FormA, Loop, Next1
  <2> QED
    BY <2>1, FormLoopB
<1>2. Len(todo) = 1 /\ dirs # {} /\ c.writes.name = "run-supercell"
  <2>1. 1 \in DOMAIN todo /\ InDirs(todo[1])
    BY <1>1, TailIs DEF DirLoop
  <2>2. dirs # {} \/ \E l \in 1..1 - 1 : Makes(todo[l])
    BY <2>1 DEF LeaveA
  <2>3. Len(todo) = 1
    BY <2>1 DEF FormA
  <2>4. ~ \E l \in 1..1 - 1 : Makes(todo[l])
    OBVIOUS
  <2>5. c.writes.name = "run-supercell"
    BY <2>1 DEF InDirs
  <2> QED
    BY <2>2, <2>3, <2>4, <2>5
<1>3. PICK I : Matched(I) /\ Blocks(p, I)
  BY <1>1, <1>2, DirLoopUnrolled
<1>4. I \subseteq dirs /\ I \subseteq Items
  <2>1. Found = dirs
    BY <1>1, <1>2 DEF Found, Matches
  <2> QED
    BY <1>1, <1>2, <2>1, <1>3, ItemsFound DEF Matched
<1>5. \A i \in I :
         LET a == Of(Cd("item"), i)
             q == Of(p, i)
             z == Of(Cd("up"), i)
         IN  /\ a.item = i /\ CdTo(a, "item")
             /\ q.item = i /\ q.op = "program"
             /\ z.item = i /\ CdTo(z, "up")
  BY <1>4, DirCommands
<1>6. /\ IsSeq(t) /\ Triples(Cd("item"), p, Cd("up"), I, t)
      /\ t # <<>> => \E i \in I : t[1] = Of(Cd("item"), i)
  BY <1>3 DEF Blocks
<1> HIDE DEF t, p
<1>7. t = <<>> \/ CdTo(t[1], "item")
  BY <1>5, <1>6
<1>8. ASSUME NEW j \in DOMAIN t PROVE t[j].item \in dirs
  BY <1>4, <1>5, <1>6 DEF Triples
<1>9. LeaveB'
  BY <1>1, <1>7, <1>8 DEF LeaveB, CdTo, t
<1> QED
  BY <1>1, <1>9 DEF LeaveInv

(* Directories are entered only after a loop that makes them. *)
LEMMA ScriptLeaves ==
  ASSUME calc \in DOMAIN Steps, count \in Structures
  PROVE  LET s == Steps[calc]
         IN  /\ \A j \in DOMAIN s : InDirs(s[j]) => \E l \in 1..j - 1 : Makes(s[l])
             /\ \A j \in DOMAIN s : s[j].op # "mkdir"
<1> DEFINE s == Steps[calc]
<1>1. Lawful(s, Appending(calc), Pattern(calc), count)
  BY ScriptsAreLawful
<1>2. \A j \in DOMAIN s : ScriptCommand(s[j])
  BY ScriptForm
<1> HIDE DEF s
<1>3. \A j \in DOMAIN s : s[j].op # "mkdir"
  BY <1>2 DEF ScriptCommand, Listed, IsProgram, DirLoop, FileLoop, InDirs
<1>4. \A j \in DOMAIN s : InDirs(s[j]) => \E l \in 1..j - 1 : Makes(s[l])
  BY <1>1 DEF Lawful, Ordered
<1> QED
  BY <1>3, <1>4 DEF s

(* LeaveInv in the initial states ... *)
LEMMA LeaveInit ==
  ASSUME Init
  PROVE  LeaveInv
<1>1. /\ calc \in DOMAIN Steps /\ count \in Structures /\ todo = Steps[calc] /\ dirs = {} /\ FormA
  BY FormInit DEF Init, FormInv
<1>2. /\ \A j \in DOMAIN todo : InDirs(todo[j]) => \E l \in 1..j - 1 : Makes(todo[l])
      /\ \A j \in DOMAIN todo : todo[j].op # "mkdir"
  BY <1>1, ScriptLeaves
<1>3. LeaveA
  BY <1>1, <1>2 DEF LeaveA
<1> QED
  BY <1>1, <1>3 DEF LeaveInv

(* ... when the script is executed again ... *)
LEMMA LeaveAgain ==
  ASSUME FormInv, Again
  PROVE  LeaveInv'
<1>1. /\ calc \in DOMAIN Steps /\ count \in Structures /\ todo' = Steps[calc] /\ dirs' = dirs /\ pass' = pass + 1
      /\ pass \in Nat \ {0} /\ FormA'
  BY FormAgain DEF Again, FormInv
<1>2. /\ \A j \in DOMAIN todo' : InDirs(todo'[j]) => \E l \in 1..j - 1 : Makes(todo'[l])
  BY <1>1, ScriptLeaves
<1>3. pass' > 1 /\ pass' # 1
  BY <1>1
<1>4. LeaveA'
  BY <1>1, <1>2, <1>3 DEF LeaveA
<1>5. Star \in dirs => Inside'
  BY <1>1, <1>3 DEF Inside
<1> QED
  BY <1>1, <1>4, <1>5 DEF LeaveInv

(* ... and after every step. *)
LEMMA LeaveNext ==
  ASSUME FormInv, LeaveInv, [Next]_vars
  PROVE  LeaveInv'
<1>1. CASE Again
  BY <1>1, LeaveAgain
<1>2. CASE Execute
  <2>1. CASE Inside
    <3>1. pass' = pass
      BY <1>2, OpOf
    <3>2. dirs \subseteq dirs'
      BY <1>2, DirsA, FormStepB DEF FormInv
    <3> QED
      BY <2>1, <3>1, <3>2 DEF Inside, LeaveInv
  <2>2. CASE ~ Inside /\ (dirs = {Star} \/ Star \notin dirs) /\ FormA /\ LeaveA
    <3>1. CASE ~ Loop
      BY <1>2, <2>2, <3>1, LeaveSimpleA
    <3>2. CASE Loop
      <4>1. todo[1].op = "for" => FileLoop(todo[1], Appends, Pattern(calc)) \/ DirLoop(todo[1], Appends)
        BY <1>2, <2>2, OpOf, FirstA DEF FormInv
      <4>2. todo[1].op = "for" /\ todo # <<>>
        BY <1>2, <3>2, OpOf
      <4> QED
        BY <2>2, <3>2, <4>1, <4>2, LeaveFileLoop, LeaveDirLoop
    <3> QED
      BY <3>1, <3>2
  <2>3. CASE (dirs = {Star} \/ Star \notin dirs) /\ FormB /\ LeaveB
    BY <1>2, <2>3, LeaveStepB
  <2> QED
    BY <2>1, <2>2, <2>3 DEF LeaveInv
<1>3. CASE UNCHANGED vars
  BY <1>3 DEF vars, LeaveInv, Inside, FormA, LeaveA, FormB, LeaveB, ScriptCommand, LoopCommand,
              IsPhonopy, Appends, DirProgram, AnyDisplaced, Items
<1> QED
  BY <1>1, <1>2, <1>3 DEF Next

(* LeaveInv has the property. *)
LEMMA LeaveIs ==
  ASSUME FormInv, LeaveInv
  PROVE  LeavesOnlyAfterFailedPhonopy
<1>1. Above # Work /\ Above \notin dirs
  <2>1. dirs \subseteq 1..Star /\ Star \in Nat
    BY CountIs, NumbersAre DEF FormInv, ItemsAre
  <2>2. Above \notin 1..Star /\ Above # Work
    BY NumbersAre DEF Above, Work
  <2> QED
    BY <2>1, <2>2
<1>2. ~ Inside => cwd = Work \/ cwd \in dirs
  BY DEF LeaveInv, FormA, LeaveB
<1> QED
  BY <1>1, <1>2 DEF Inside, LeavesOnlyAfterFailedPhonopy

(* The current directory is left only when an earlier execution had made   *)
(* the directory run-supercell-* for want of supercells: in a first        *)
(* execution, `cd ../` always follows a `cd` that succeeded.                *)
THEOREM LeavesOnlyAfterFailure == Spec => []LeavesOnlyAfterFailedPhonopy
<1>1. Init => FormInv /\ LeaveInv
  BY FormInit, LeaveInit
<1>2. FormInv /\ LeaveInv /\ [Next]_vars => FormInv' /\ LeaveInv'
  BY FormNext, LeaveNext
<1>3. FormInv /\ LeaveInv => LeavesOnlyAfterFailedPhonopy
  BY LeaveIs
<1> QED
  BY <1>1, <1>2, <1>3, PTL DEF Spec

-----------------------------------------------------------------------------
(* What a clean execution has. *)
LEMMA HaveIs ==
  ASSUME NEW x \in Have, x[2] # ""
  PROVE  x \in DOMAIN files /\ Fresh(x, files[x]) /\ x[1] # Star /\ x[3] # Star
<1>1. \A d : Directory(d)[2] = ""
  BY DEF Directory
<1> QED
  BY <1>1 DEF Have, Good

(* What is fresh stays fresh while nothing is written ... *)
LEMMA FreshSame ==
  ASSUME pass' = pass, calc' = calc
  PROVE  \A f, C : (Fresh(f, C)' <=> Fresh(f, C)) /\ Leaves(f)' = Leaves(f)
  BY DEF Fresh, Leaves, Appends, IsPhonopy, Supercell

(* A file is written, of * or as it should be. *)
LEMMA HaveWritten ==
  ASSUME pass' = pass, calc' = calc, count' = count, dirs \subseteq dirs',
         NEW f, NEW X, Writes(f, X), f[1] = Star \/ f[3] = Star \/ Fresh(f, X)
  PROVE  /\ Have \subseteq Have'
         /\ f[1] # Star /\ f[3] # Star => f \in Have'
<1>1. DOMAIN files' = DOMAIN files \cup {f} /\ files'[f] = X
      /\ \A g \in DOMAIN files : g # f => files'[g] = files[g]
  BY DEF Writes
<1>2. ASSUME f[1] # Star, f[3] # Star PROVE Good(f)'
  BY <1>1, <1>2, FreshSame DEF Good
<1>3. ASSUME NEW g \in DOMAIN files, Good(g) PROVE g \in DOMAIN files' /\ Good(g)'
  <2>1. CASE g = f
    <3>1. f[1] # Star /\ f[3] # Star
      BY <1>3, <2>1 DEF Good
    <3> QED
      BY <1>1, <1>2, <2>1, <3>1
  <2>2. CASE g # f
    <3>1. files'[g] = files[g] /\ g \in DOMAIN files'
      BY <1>1, <2>2
    <3> QED
      BY <1>3, <3>1, FreshSame DEF Good
  <2> QED
    BY <2>1, <2>2
<1> QED
  BY <1>1, <1>2, <1>3 DEF Have

(* ... and so does what the script has made. *)
LEMMA HaveSame ==
  ASSUME pass' = pass, calc' = calc, files' = files, dirs \subseteq dirs'
  PROVE  Have \subseteq Have' /\ (dirs' = dirs => Have' = Have)
<1>1. \A f : Good(f)' <=> Good(f)
  BY FreshSame DEF Good
<1> QED
  BY <1>1 DEF Have

(* The outputs after a file is written ... *)
LEMMA OutputsWritten ==
  ASSUME pass' = pass, calc' = calc, count' = count, OutputsInv,
         NEW f, NEW X, Writes(f, X),
         f[2] \in OutputNames /\ f[1] # Star /\ f[3] # Star =>
             Fresh(f, X) /\ (IsPhonopy => Supercell(f) \in 1..count)
  PROVE  OutputsInv'
<1>1. /\ DOMAIN files' = DOMAIN files \cup {f} /\ files'[f] = X
      /\ \A g \in DOMAIN files : g # f => files'[g] = files[g]
  BY DEF Writes
<1>2. ASSUME NEW g \in DOMAIN files', g[2] \in OutputNames, g[1] # Star, g[3] # Star, Leaves(g)' \in files'[g]
      PROVE  Good(g)' /\ (IsPhonopy' => (Supercell(g) \in 1..count)')
  <2>1. Leaves(g) \in files'[g]
    BY <1>2, FreshSame
  <2>2. IsPhonopy' = IsPhonopy /\ (Supercell(g) \in 1..count)' = (Supercell(g) \in 1..count)
    BY DEF IsPhonopy, Supercell
  <2>3. CASE g = f
    BY <1>1, <1>2, <2>2, <2>3, FreshSame DEF Good
  <2>4. CASE g # f
    <3>1. files'[g] = files[g] /\ g \in DOMAIN files
      BY <1>1, <2>4
    <3>2. Good(g) /\ (IsPhonopy => Supercell(g) \in 1..count)
      BY <1>2, <2>1, <3>1 DEF OutputsInv
    <3> QED
      BY <1>2, <2>2, <3>1, <3>2, FreshSame DEF Good
  <2> QED
    BY <2>3, <2>4
<1> QED
  BY <1>2 DEF OutputsInv

(* ... and when none is. *)
LEMMA OutputsSame ==
  ASSUME pass' = pass, calc' = calc, count' = count, OutputsInv, files' = files
  PROVE  OutputsInv'
<1>1. \A f : (Good(f)' <=> Good(f)) /\ Leaves(f)' = Leaves(f)
  BY FreshSame DEF Good
<1>2. IsPhonopy' = IsPhonopy /\ \A f : (Supercell(f) \in 1..count)' = (Supercell(f) \in 1..count)
  BY DEF IsPhonopy, Supercell
<1> QED
  BY <1>1, <1>2 DEF OutputsInv

(* A literal pattern stays one in its execution. *)
LEMMA LiteralKept ==
  ASSUME Execute
  PROVE  Literal => Literal'
<1>1. dirs \subseteq dirs'
  BY DEF Execute, ChangeDirectory, HereDocument, FetchExternal, MakeDirectory, Concatenate, Copy, Displace,
         RunProgram, Loop, Fails
<1>2. DOMAIN files \subseteq DOMAIN files'
  BY DEF Execute, ChangeDirectory, HereDocument, FetchExternal, MakeDirectory, Concatenate, Copy, Displace,
         RunProgram, Loop, Fails, Put
<1> QED
  BY <1>1, <1>2 DEF Literal

(* The first command of what is ready finds what it needs. *)
LEMMA FirstReady ==
  ASSUME NEW s, IsSeq(s), s # <<>>, NEW H, NEW n, ReadyTo(s, H, n)
  PROVE  Needs(s[1], n) \subseteq H
<1>1. 1 \in DOMAIN s
  BY TailIs
<1>2. UNION {Gives(s[l], n) : l \in 1..1 - 1} = {}
  OBVIOUS
<1>3. Needs(s[1], n) \subseteq H \cup UNION {Gives(s[l], n) : l \in 1..1 - 1}
  BY <1>1 DEF ReadyTo
<1> QED
  BY <1>2, <1>3

(* What is ready stays ready after the first command has given what it gives. *)
LEMMA ReadyTail ==
  ASSUME NEW s, IsSeq(s), s # <<>>, NEW H, NEW n, ReadyTo(s, H, n), NEW K, H \cup Gives(s[1], n) \subseteq K
  PROVE  /\ ReadyTo(Tail(s), K, n)
         /\ H \cup Given(s, n) \subseteq K \cup Given(Tail(s), n)
<1> DEFINE t == Tail(s)
<1>1. /\ Len(s) \in Nat \ {0} /\ DOMAIN s = 1..Len(s) /\ DOMAIN t = 1..Len(s) - 1
      /\ \A j \in 1..Len(s) - 1 : t[j] = s[j + 1]
  BY TailIs
<1> HIDE DEF t
<1>2. ASSUME NEW j \in DOMAIN t, NEW x \in Needs(t[j], n)
      PROVE  x \in K \cup UNION {Gives(t[l], n) : l \in 1..j - 1}
  <2>1. j + 1 \in DOMAIN s /\ t[j] = s[j + 1] /\ j \in Nat
    BY <1>1
  <2>2. x \in H \cup UNION {Gives(s[l], n) : l \in 1..(j + 1) - 1}
    BY <1>2, <2>1 DEF ReadyTo
  <2>3. CASE x \in H
    BY <2>3
  <2>4. CASE \E l \in 1..j : x \in Gives(s[l], n)
    <3>1. PICK l \in 1..j : x \in Gives(s[l], n)
      BY <2>4
    <3>2. CASE l = 1
      BY <3>1, <3>2
    <3>3. CASE l # 1
      <4> DEFINE k == l - 1
      <4>1. k \in 1..j - 1 /\ k \in 1..Len(s) - 1 /\ k + 1 = l
        BY <1>1, <2>1, <3>3
      <4> HIDE DEF k
      <4>2. t[k] = s[l]
        BY <1>1, <4>1
      <4> QED
        BY <3>1, <4>1, <4>2
    <3> QED
      BY <3>2, <3>3
  <2>5. (j + 1) - 1 = j
    BY <2>1
  <2> QED
    BY <2>2, <2>3, <2>4, <2>5
<1>3. ASSUME NEW x \in Given(s, n) PROVE x \in K \cup Given(t, n)
  <2>1. PICK j \in DOMAIN s : x \in Gives(s[j], n)
    BY <1>3 DEF Given
  <2>2. CASE j = 1
    BY <2>1, <2>2
  <2>3. CASE j # 1
    <3> DEFINE k == j - 1
    <3>1. k \in 1..Len(s) - 1 /\ k + 1 = j
      BY <1>1, <2>3
    <3> HIDE DEF k
    <3>2. t[k] = s[j] /\ k \in DOMAIN t
      BY <1>1, <3>1
    <3> QED
      BY <2>1, <3>2 DEF Given
  <2> QED
    BY <2>2, <2>3
<1> QED
  BY <1>2, <1>3 DEF ReadyTo, t

(* A script that can be executed from nothing can be executed from more. *)
LEMMA ReadyMore ==
  ASSUME NEW s, NEW n, NEW H, NEW K, H \subseteq K, ReadyTo(s, H, n)
  PROVE  ReadyTo(s, K, n)
BY DEF ReadyTo

(* An item other than the literal pattern is a supercell of this execution. *)
LEMMA ItemsOf ==
  ASSUME count \in Structures, NEW i \in Items, i # Star
  PROVE  i \in 1..count /\ i # 0
BY CountIs DEF Items, ItemsAre

(* A simple command has a path for every file it reads.                    *)
LEMMA SimpleReads ==
  ASSUME count \in Structures, NEW c, Simple(c), c.op # "for"
  PROVE  /\ \A p \in c.reads : /\ p.name \in InputNames \cup Displaced /\ p.name # "" /\ p.name \notin OutputNames
                               /\ At(Work, p, c.item)[2] = p.name
         /\ c.item = Star \/ {At(Work, p, c.item) : p \in c.reads} \subseteq Needs(c, count)
         /\ c.item \in {0} \cup Items
         /\ c.item = 0 => \A p \in c.reads : PlainRef(p)
         /\ c.item # 0 => LoopCommand(c)
         /\ c.op = "doc" => (c.item = 0 /\ c.mode = "new") \/ LoopCommand(c)
         /\ ~ InDirs(c)
<1>1. c.item = Star \/ {At(Work, p, c.item) : p \in c.reads} \subseteq Needs(c, count)
  BY DEF Needs, SimpleNeeds, InDirs
<1>2. \A p \in c.reads : (PlainRef(p) \/ NumberedRef(p)) /\ (c.item = 0 => PlainRef(p))
  <2>1. CASE LoopCommand(c)
    <3>1. IsCommand(c) /\ c.item \in Items /\ InLoop(Of(c, 0), Appends) /\ c.item # 0
      BY <2>1, CountIs DEF LoopCommand, ItemsAre
    <3> QED
      BY <3>1, LoopPath
  <2>2. CASE ScriptCommand(c)
    BY <2>2 DEF ScriptCommand, Listed, IsProgram, DirLoop, FileLoop, InDirs
  <2> QED
    BY <2>1, <2>2 DEF Simple
<1>3. \A p \in c.reads : p.name \in InputNames \cup Displaced
  BY <1>2, NamesDiffer DEF PlainRef, NumberedRef
<1>4. \A p \in c.reads : At(Work, p, c.item)[2] = p.name
  BY DEF At
<1>5. /\ c.item \in {0} \cup Items
      /\ c.item # 0 => LoopCommand(c)
      /\ c.op = "doc" => (c.item = 0 /\ c.mode = "new") \/ LoopCommand(c)
  BY DEF Simple, ScriptCommand, LoopCommand, Listed, IsProgram, DirLoop, FileLoop, InDirs
<1>6. ~ InDirs(c)
  BY DEF InDirs
<1> QED
  BY <1>1, <1>2, <1>3, <1>4, <1>5, <1>6, NamesDiffer

(* The files that a command of a clean execution reads.                    *)
LEMMA ReadsAreFresh ==
  ASSUME FormInv, cwd = Work, NEW c, Simple(c), c.op # "for", c.item # Star, Needs(c, count) \subseteq Have
  PROVE  \A p \in c.reads : LET f == At(Work, p, c.item)
                            IN  /\ f \in DOMAIN files /\ Fresh(f, files[f]) /\ f[2] = p.name
                                /\ \A d \in files[f] : d.pass = pass
<1>1. count \in Structures
  BY DEF FormInv
<1>2. ASSUME NEW p \in c.reads
      PROVE  LET f == At(Work, p, c.item)
             IN  /\ f \in DOMAIN files /\ Fresh(f, files[f]) /\ f[2] = p.name
                 /\ \A d \in files[f] : d.pass = pass
  <2> DEFINE f == At(Work, p, c.item)
  <2>1. f[2] = p.name /\ p.name # "" /\ p.name \notin OutputNames /\ f \in Have
    BY <1>1, SimpleReads
  <2> HIDE DEF f
  <2>2. f \in DOMAIN files /\ Fresh(f, files[f])
    BY <2>1, HaveIs
  <2>3. \A d \in files[f] : d.pass = pass
    BY <2>1, <2>2 DEF Fresh
  <2> QED
    BY <2>1, <2>2, <2>3 DEF f
<1> QED
  BY <1>2

Target(c) == At(Work, c.writes, c.item)
Origins(c) == {At(Work, p, c.item) : p \in c.reads}

(* What it makes of them is fresh.                                         *)
AreFresh(S, numbered) ==
    /\ \A d \in S : d.pass = pass
    /\ numbered => \E d \in S : d.tag \in Displaced

(* A command that finds what it needs reads files of this execution. *)
LEMMA SourcesFresh ==
  ASSUME FormInv, cwd = Work, NEW c, Simple(c), c.op # "for", c.item # Star, Needs(c, count) \subseteq Have
  PROVE  AreFresh(Sources(Origins(c)), c.item # 0 /\ \E p \in c.reads : NumberedRef(p))
<1> DEFINE P == {At(Work, p, c.item) : p \in c.reads}
<1>1. \A p \in c.reads : LET f == At(Work, p, c.item)
                         IN  /\ f \in DOMAIN files /\ Fresh(f, files[f]) /\ f[2] = p.name
                             /\ \A d \in files[f] : d.pass = pass
  BY ReadsAreFresh
<1>2. \A d \in Sources(P) : d.pass = pass
  <2>1. ASSUME NEW d \in Sources(P) PROVE d.pass = pass
    <3>1. PICK q \in P : d \in files[q]
      BY DEF Sources
    <3>2. PICK p \in c.reads : q = At(Work, p, c.item)
      BY <3>1
    <3> QED
      BY <1>1, <3>1, <3>2
  <2> QED
    BY <2>1
<1>3. ASSUME NEW p \in c.reads, NumberedRef(p), c.item # 0
      PROVE  \E d \in Sources(P) : d.tag \in Displaced
  <2> DEFINE f == At(Work, p, c.item)
  <2>1. f \in DOMAIN files /\ Fresh(f, files[f]) /\ f[2] = p.name /\ f \in P
    BY <1>1
  <2>2. Supercell(f) = c.item
    BY <1>3, NumberedPath
  <2>3. p.name \in Main
    BY <1>3 DEF NumberedRef, Main
  <2> HIDE DEF f
  <2>4. \E d \in files[f] : d.tag \in Displaced
    BY <1>3, <2>1, <2>2, <2>3 DEF Fresh
  <2> QED
    BY <2>1, <2>4 DEF Sources, Exists
<1> QED
  BY <1>2, <1>3 DEF AreFresh, Origins

(* What a command outside of loops gives. *)
LEMMA GivesOf ==
  ASSUME NEW c, NEW n, c.op # "for"
  PROVE  /\ c.item = Star \/ c.op = "cd" => Gives(c, n) = {}
         /\ c.item # Star /\ c.op \in Filing => Gives(c, n) = {At(Work, c.writes, c.item)}
         /\ c.item # Star /\ c.op = "mkdir" => Gives(c, n) = {Directory(c.item)}
         /\ c.item # Star /\ c.op = "phonopy" => Gives(c, n) = {<<Work, c.writes.name, i>> : i \in 1..n}
         /\ c.item # Star /\ c.op = "doc" /\ c.mode = "append" => At(Work, c.writes, c.item) \in Needs(c, n)
  BY DEF Gives, SimpleGives, InDirs, Filing, Needs, SimpleNeeds

(* What is known of the file that a command writes.                        *)
LEMMA TargetKind ==
  ASSUME FormInv, FormA, NEW c, Simple(c), c.op \in Filing
  PROVE  LET f == At(Work, c.writes, c.item)
         IN  /\ f[2] = c.writes.name
             /\ c.item = Star => f[1] = Star \/ f[3] = Star
             /\ c.item # Star => f[1] # Star /\ f[3] # Star
             /\ c.op = "program" <=> f[2] \in OutputNames
             /\ Supercell(f) = c.item
             /\ c.op \in {"cat", "cp"} => c.mode # "append" /\ (f[2] \in Main => \E p \in c.reads : NumberedRef(p))
             /\ c.op = "program" => /\ c.mode # "append" \/ Appends
                                    /\ IsPhonopy /\ c.item # Star => \E p \in c.reads : NumberedRef(p)
                                    /\ IsPhonopy => c.item # 0
             /\ c.op = "doc" => c.mode = "append" \/ c.item = 0
             /\ c.op \in {"doc", "fetch"} /\ c.item = 0 => c.mode # "append"
             /\ c.op = "fetch" => c.item = 0
             /\ f[2] \notin Displaced
<1> DEFINE f == At(Work, c.writes, c.item)
<1>0. count \in Structures /\ c.op \in {"doc", "fetch", "cat", "cp", "program"} /\ Star # 0 /\ Work # Star
  BY NumbersAre DEF FormInv, Filing, Work
<1>1. CASE LoopCommand(c)
  <2>1. IsCommand(c) /\ c.item \in Items /\ InLoop(Of(c, 0), Appends) /\ c.item # 0
    BY <1>0, <1>1, CountIs DEF LoopCommand, ItemsAre
  <2>2. /\ c.op \in {"mkdir", "cat", "cp", "doc", "program"}
        /\ c.op \in {"cat", "cp", "doc"} => c.writes.name \in InputNames
        /\ c.op \in {"cat", "cp"} => c.mode = "new" /\ (c.writes.name \in Main => \E p \in c.reads : NumberedRef(p))
        /\ c.op = "doc" => c.mode = "append" /\ c.reads = {}
        /\ c.op = "program" => /\ c.writes.name \in OutputNames /\ (c.mode = "new" \/ Appends)
                               /\ \E p \in c.reads : NumberedRef(p)
        /\ c.op # "mkdir" =>
               /\ f \in {<<c.item, c.writes.name, 0>>, <<Work, c.writes.name, c.item>>}
               /\ Supercell(f) = c.item /\ f[2] = c.writes.name /\ f[2] \notin Displaced
    BY <2>1, LoopPath
  <2> HIDE DEF f
  <2>3. /\ c.item = Star => f[1] = Star \/ f[3] = Star
        /\ c.item # Star => f[1] # Star /\ f[3] # Star
    BY <1>0, <2>2
  <2> QED
    BY <1>0, <2>1, <2>2, <2>3, NamesDiffer DEF f
<1>2. CASE ScriptCommand(c)
  <2>1. IsCommand(c) /\ c.item = 0
    BY <1>2 DEF ScriptCommand, Listed
  <2>2. \/ c.op \in {"doc", "fetch"} /\ c.mode = "new" /\ c.reads = {} /\ PlainRef(c.writes)
        \/ ~ IsPhonopy /\ IsProgram(c, Appends)
    BY <1>0, <1>2 DEF ScriptCommand, Listed, DirLoop, FileLoop, InDirs
  <2>3. CASE c.op \in {"doc", "fetch"} /\ c.mode = "new" /\ c.reads = {} /\ PlainRef(c.writes)
    <3>1. /\ Supercell(f) = 0 /\ f[1] = Work /\ f[2] = c.writes.name /\ f[3] = 0
      BY <2>3, PlainPath
    <3>2. c.writes.name \notin OutputNames /\ c.writes.name \notin Displaced
      BY <2>3, NamesDiffer DEF PlainRef
    <3> HIDE DEF f
    <3> QED
      BY <1>0, <2>1, <2>3, <3>1, <3>2 DEF f
  <2>4. CASE ~ IsPhonopy /\ IsProgram(c, Appends)
    <3>1. Of(c, 0) = c
      BY <2>1, OfSame
    <3>2. /\ f = <<Work, c.writes.name, 0>> /\ c.writes.name \in OutputNames
          /\ c.op = "program" /\ (c.mode = "new" \/ Appends)
      BY <2>1, <2>4, <3>1, ProgramPath
    <3> HIDE DEF f
    <3>3. f[1] = Work /\ f[2] = c.writes.name /\ f[3] = 0 /\ Supercell(f) = 0
      BY <3>2 DEF Supercell, Work
    <3> QED
      BY <1>0, <2>1, <2>4, <3>2, <3>3, NamesDiffer DEF f
  <2> QED
    BY <2>2, <2>3, <2>4
<1> QED
  BY <1>1, <1>2 DEF Simple

(* What a command of a clean execution writes is fresh.                    *)
MadeBy(c) ==
    IF c.op = "program" THEN Sources(Origins(c)) \cup {Leaves(Target(c))}
    ELSE IF c.op \in {"doc", "fetch"} THEN {Leaves(Target(c))} ELSE Sources(Origins(c))

(* What a command then writes is of this execution, and of its supercell. *)
LEMMA WrittenFresh ==
  ASSUME FormInv, FormA, todo # <<>>, Simple(todo[1]), todo[1].op \in Filing,
         Needs(todo[1], count) \subseteq Have, todo[1].item # Star,
         NEW X, Written(Target(todo[1]), MadeBy(todo[1]), X)
  PROVE  Fresh(Target(todo[1]), X)
<1> DEFINE c == todo[1]
           f == Target(c)
           P == Origins(c)
           C == MadeBy(c)
<1>0. /\ C \subseteq X /\ X \subseteq C \cup Before(f)
      /\ c.mode # "append" => X = C
      /\ c.mode = "append" => Before(f) \subseteq X
      /\ C = IF c.op = "program" THEN Sources(P) \cup {Leaves(f)}
             ELSE IF c.op \in {"doc", "fetch"} THEN {Leaves(f)} ELSE Sources(P)
      /\ cwd = Work /\ c.op # "for"
      /\ Simple(c) /\ c.op \in Filing /\ Needs(c, count) \subseteq Have /\ c.item # Star
  BY DEF Written, MadeBy, FormA, Filing
<1>1. /\ c.op = "program" <=> f[2] \in OutputNames
      /\ Supercell(f) = c.item
      /\ c.op \in {"cat", "cp"} => c.mode # "append" /\ (f[2] \in Main => \E p \in c.reads : NumberedRef(p))
      /\ c.op = "program" => /\ c.mode # "append" \/ Appends
                             /\ IsPhonopy => c.item # 0 /\ \E p \in c.reads : NumberedRef(p)
      /\ c.op = "doc" => c.mode = "append" \/ c.item = 0
      /\ c.op \in {"doc", "fetch"} /\ c.item = 0 => c.mode # "append"
      /\ c.op = "fetch" => c.item = 0
      /\ f[2] = c.writes.name
      /\ f[2] \notin Displaced
  <2> HIDE DEF c
  <2> QED
    BY <1>0, TargetKind DEF Target
<1>2. /\ \A d \in Sources(P) : d.pass = pass
      /\ (\E p \in c.reads : NumberedRef(p)) /\ c.item # 0 => \E d \in Sources(P) : d.tag \in Displaced
  <2> HIDE DEF c
  <2>2. AreFresh(Sources(P), c.item # 0 /\ \E p \in c.reads : NumberedRef(p))
    BY <1>0, SourcesFresh
  <2> QED
    BY <2>2 DEF AreFresh
<1> SUFFICES Fresh(f, X)
  OBVIOUS
<1> HIDE DEF c, f, P, C
<1>9. c.op \in {"doc", "fetch", "cat", "cp", "program"}
  BY <1>0 DEF Filing
<1>3. Leaves(f).pass = pass
  BY DEF Leaves
<1>4. OutputNames \cap Main = {}
  BY NamesDiffer
<1>5. CASE c.op = "program"
  <2>1. X = Sources(P) \cup {Leaves(f)} \/ Appends
    BY <1>0, <1>1, <1>5
  <2>2. Leaves(f) \in X /\ Sources(P) \subseteq X
    BY <1>0, <1>5
  <2> QED
    BY <1>1, <1>2, <1>3, <1>4, <1>5, <2>1, <2>2 DEF Fresh
<1>6. CASE c.op \in {"cat", "cp"}
  <2>1. X = Sources(P)
    BY <1>0, <1>1, <1>6
  <2> QED
    BY <1>1, <1>2, <1>6, <2>1 DEF Fresh
<1>7. CASE c.op \in {"doc", "fetch"} /\ c.item = 0
  <2>1. X = {Leaves(f)}
    BY <1>0, <1>1, <1>7
  <2> QED
    BY <1>1, <1>3, <1>7, <2>1 DEF Fresh
<1>8. CASE c.op = "doc" /\ c.item # 0
  <2>1. c.mode = "append"
    BY <1>1, <1>8
  <2>2. f \in Have
    BY <1>0, <1>8, <2>1, GivesOf DEF f, Target
  <2>3. f[2] # ""
    <3>1. LoopCommand(c)
      BY <1>0, <1>8, SimpleReads DEF FormInv
    <3>2. c.writes.name \in InputNames
      BY <1>8, <3>1, LoopPath DEF LoopCommand
    <3> QED
      BY <1>1, <3>2, NamesDiffer
  <2>4. f \in DOMAIN files /\ Fresh(f, files[f])
    BY <2>2, <2>3, HaveIs
  <2>5. X = files[f] \cup {Leaves(f)}
    BY <1>0, <1>8, <2>1, <2>4 DEF Before
  <2> QED
    BY <1>1, <1>3, <1>8, <2>4, <2>5 DEF Fresh
<1> QED
  BY <1>1, <1>5, <1>6, <1>7, <1>8, <1>9

(* A file is written by a clean command. *)
LEMMA HaveFiled ==
  ASSUME FormInv, FormA, OutputsInv, Execute, clean', Needs(todo[1], count) \subseteq Have,
         HereDocument \/ FetchExternal \/ Concatenate \/ Copy \/ RunProgram
  PROVE  Have \cup Gives(todo[1], count) \subseteq Have' /\ OutputsInv'
<1> DEFINE c == todo[1]
           f == Target(c)
           P == Origins(c)
           C == MadeBy(c)
<1>1. /\ todo # <<>> /\ calc' = calc /\ count' = count /\ pass' = pass
      /\ count \in Structures /\ IsSeq(todo)
  BY OpOf DEF FormInv
<1>2. Simple(c) /\ cwd = Work /\ c.op \in Filing
  BY <1>1, FirstA, OpOf DEF Filing
<1>3. dirs' = dirs
  BY DEF HereDocument, FetchExternal, Concatenate, Copy, RunProgram, Fails
<1>4. Resolve(c.writes, c.item) = f /\ {Resolve(p, c.item) : p \in c.reads} = P
  BY <1>2, ResolveIs DEF Target, Origins
<1> HIDE DEF f, P
<1>13. C = IF c.op = "program" THEN Sources(P) \cup {Leaves(f)}
           ELSE IF c.op \in {"doc", "fetch"} THEN {Leaves(f)} ELSE Sources(P)
  BY DEF MadeBy, f, P
<1> HIDE DEF C
<1>5. files' = Put(f, C)
  <2>1. CASE HereDocument
    <3>1. C = {Leaves(f)}
      BY <1>13, <2>1, OpOf
    <3> QED
      BY <1>4, <2>1, <3>1 DEF HereDocument, Fails
  <2>2. CASE FetchExternal
    <3>1. C = {Leaves(f)}
      BY <1>13, <2>2, OpOf
    <3> QED
      BY <1>4, <2>2, <3>1 DEF FetchExternal, Fails
  <2>3. CASE Concatenate
    <3>1. C = Sources(P)
      BY <1>13, <2>3, OpOf
    <3> QED
      BY <1>4, <2>3, <3>1 DEF Concatenate, Fails
  <2>4. CASE Copy
    <3>1. C = Sources(P)
      BY <1>13, <2>4, OpOf
    <3> QED
      BY <1>4, <2>4, <3>1 DEF Copy, Fails
  <2>5. CASE RunProgram
    <3>1. C = Sources(P) \cup {Leaves(f)}
      BY <1>13, <2>5, OpOf
    <3> QED
      BY <1>4, <2>5, <3>1 DEF RunProgram, Fails
  <2> QED
    BY <2>1, <2>2, <2>3, <2>4, <2>5
<1>6. PICK X : Written(f, C, X)
  BY <1>5, PutIs
<1>14. Writes(f, X)
  BY <1>6 DEF Written
<1>7. /\ f[2] = c.writes.name
      /\ c.item = Star => f[1] = Star \/ f[3] = Star
      /\ c.item # Star => f[1] # Star /\ f[3] # Star
      /\ c.op = "program" <=> f[2] \in OutputNames
      /\ Supercell(f) = c.item
      /\ c.op = "program" => (IsPhonopy => c.item # 0)
  <2> HIDE DEF c
  <2> QED
    BY <1>2, TargetKind DEF f, Target
<1>8. c.item # Star => Fresh(f, X)
  BY <1>1, <1>2, <1>6, WrittenFresh DEF f, C
<1>9. Have \subseteq Have' /\ (f[1] # Star /\ f[3] # Star => f \in Have')
  BY <1>1, <1>3, <1>14, <1>7, <1>8, HaveWritten
<1>10. c.item # 0 => c.item \in Items
  <2>1. c.op # "for"
    BY <1>2 DEF Filing
  <2> QED
    BY <1>1, <1>2, <2>1, SimpleReads
<1>11. OutputsInv'
  <2>1. ASSUME f[2] \in OutputNames, f[1] # Star, f[3] # Star
        PROVE  Fresh(f, X) /\ (IsPhonopy => Supercell(f) \in 1..count)
    <3>1. c.item # Star /\ c.op = "program"
      BY <1>7, <2>1
    <3>2. IsPhonopy => c.item \in 1..count
      BY <1>1, <1>7, <1>10, <3>1, ItemsOf
    <3> QED
      BY <1>7, <1>8, <3>1, <3>2
  <2> QED
    BY <1>1, <1>14, <2>1, OutputsWritten
<1>12. Gives(c, count) \subseteq {f} /\ (c.item = Star => Gives(c, count) = {})
  <2>1. c.op \in {"doc", "fetch", "cat", "cp", "program"}
    BY <1>2 DEF Filing
  <2> QED
    BY <1>2, <2>1, GivesOf DEF f, Target
<1> QED
  BY <1>7, <1>9, <1>11, <1>12

(* Phonopy gives the supercells. *)
LEMMA HaveDisplaced ==
  ASSUME FormInv, FormA, OutputsInv, Displace, Execute, clean', Needs(todo[1], count) \subseteq Have
  PROVE  Have \cup Gives(todo[1], count) \subseteq Have' /\ OutputsInv'
<1> DEFINE c == todo[1]
           made == {<<Work, c.writes.name, i>> : i \in 1..count}
<1>1. /\ todo # <<>> /\ calc' = calc /\ count' = count /\ pass' = pass
      /\ count \in Structures /\ IsSeq(todo)
  BY OpOf DEF FormInv
<1>2. Simple(c) /\ cwd = Work /\ c.op = "phonopy"
  BY <1>1, FirstA, OpOf
<1>3. c.writes.name = Pattern(calc) /\ c.item = 0
  <2>1. ~ LoopCommand(c)
    <3>1. LoopCommand(c) => c.op \in {"mkdir", "cat", "cp", "doc", "program"}
      BY <1>1, CountIs, LoopPath DEF LoopCommand, ItemsAre
    <3> QED
      BY <1>2, <3>1
  <2>2. c.writes = Here(Pattern(calc)) /\ c.item = 0
    BY <1>2, <2>1 DEF Simple, ScriptCommand, Listed, IsProgram, DirLoop, FileLoop, InDirs
  <2> QED
    BY <2>2, RefIs
<1>4. /\ files' = [f \in DOMAIN files \cup made |-> IF f \in made THEN {Leaves(f)} ELSE files[f]]
      /\ dirs' = dirs
  BY <1>2 DEF Displace, Fails
<1>5. Star # 0 /\ Work # Star /\ \A i \in 1..count : i # Star /\ i # 0
  BY <1>1, CountIs, NumbersAre DEF Work
<1>6. \A f \in made : f[1] = Work /\ f[2] = Pattern(calc) /\ f[3] \in 1..count /\ f[1] # Star /\ f[3] # Star
  BY <1>3, <1>5
<1>7. Pattern(calc) \in Displaced /\ Pattern(calc) \notin OutputNames
  BY PatternIs, NamesDiffer
<1> HIDE DEF made
<1>8. /\ DOMAIN files' = DOMAIN files \cup made
      /\ \A f \in made : files'[f] = {Leaves(f)}
      /\ \A f \in DOMAIN files : f \notin made => files'[f] = files[f]
  BY <1>4
<1>9. ASSUME NEW f \in made PROVE Good(f)'
  <2>1. Leaves(f).tag = Pattern(calc) /\ Leaves(f).pass = pass
    BY <1>6 DEF Leaves
  <2>2. Fresh(f, {Leaves(f)})
    BY <1>6, <1>7, <2>1 DEF Fresh
  <2>3. Fresh(f, files[f])'
    BY <1>1, <1>8, <2>2, FreshSame
  <2> QED
    BY <1>6, <1>8, <2>3 DEF Good
<1>10. ASSUME NEW f \in DOMAIN files, f \notin made
       PROVE  f \in DOMAIN files' /\ files'[f] = files[f] /\ (Good(f)' <=> Good(f))
  <2>1. f \in DOMAIN files' /\ files'[f] = files[f]
    <3>1. f \in DOMAIN files /\ f \notin made
      BY <1>10
    <3> QED
      BY <1>8, <3>1
  <2>2. Fresh(f, files[f])' <=> Fresh(f, files[f])
    BY <1>1, <2>1, FreshSame
  <2> QED
    BY <1>10, <2>1, <2>2 DEF Good
<1>11. Have \cup made \subseteq Have'
  BY <1>4, <1>8, <1>9, <1>10 DEF Have
<1>12. OutputsInv'
  <2>1. ASSUME NEW f \in DOMAIN files', f[2] \in OutputNames, f[1] # Star, f[3] # Star, Leaves(f)' \in files'[f]
        PROVE  Good(f)' /\ (IsPhonopy' => (Supercell(f) \in 1..count)')
    <3>1. f \in DOMAIN files /\ f \notin made
      BY <1>6, <1>7, <1>8, <2>1
    <3>2. Leaves(f) \in files[f]
      BY <1>1, <1>10, <2>1, <3>1, FreshSame
    <3>3. Good(f) /\ (IsPhonopy => Supercell(f) \in 1..count)
      BY <2>1, <3>1, <3>2 DEF OutputsInv
    <3>4. IsPhonopy' = IsPhonopy /\ (Supercell(f) \in 1..count)' = (Supercell(f) \in 1..count)
      BY <1>1 DEF IsPhonopy, Supercell
    <3> QED
      BY <1>10, <3>1, <3>3, <3>4
  <2> QED
    BY <2>1 DEF OutputsInv
<1>13. Gives(c, count) = made
  BY <1>2, <1>3, <1>5, GivesOf DEF made
<1> QED
  BY <1>11, <1>12, <1>13

(* Every other command gives the file or directory that it stands for. *)
LEMMA HaveStep ==
  ASSUME FormInv, FormA, OutputsInv, Execute, ~ Loop, clean', Needs(todo[1], count) \subseteq Have
  PROVE  Have \cup Gives(todo[1], count) \subseteq Have' /\ OutputsInv'
<1> DEFINE c == todo[1]
<1>1. /\ todo # <<>> /\ calc' = calc /\ count' = count /\ pass' = pass
      /\ count \in Structures /\ IsSeq(todo)
  BY OpOf DEF FormInv
<1>2. Simple(c) /\ cwd = Work /\ dirs \subseteq dirs'
  BY <1>1, FirstA, DirsA
<1>3. CASE ChangeDirectory
  <2>1. files' = files /\ c.op = "cd"
    BY <1>3, OpOf DEF ChangeDirectory, Fails
  <2>2. Gives(c, count) = {}
    BY <2>1, GivesOf
  <2> QED
    BY <1>1, <1>2, <2>1, <2>2, HaveSame, OutputsSame
<1>4. CASE MakeDirectory
  <2>1. files' = files /\ c.op = "mkdir"
    BY <1>4, OpOf DEF MakeDirectory
  <2>2. c.item # Star => dirs' = dirs \cup {c.item}
    BY <1>4, DirsA
  <2>3. Gives(c, count) = IF c.item = Star THEN {} ELSE {Directory(c.item)}
    BY <2>1, GivesOf
  <2>4. Gives(c, count) \subseteq Have'
    BY <2>2, <2>3 DEF Have
  <2> QED
    BY <1>1, <1>2, <2>1, <2>4, HaveSame, OutputsSame
<1>5. CASE Displace
  BY <1>5, HaveDisplaced
<1>6. CASE HereDocument \/ FetchExternal \/ Concatenate \/ Copy \/ RunProgram
  BY <1>6, HaveFiled
<1> QED
  BY <1>3, <1>4, <1>5, <1>6 DEF Execute

(* A clean command keeps the rest of the script ready. *)
LEMMA CleanSimpleA ==
  ASSUME FormInv, FormA, CleanA, StarInv, OutputsInv, Execute, ~ Loop, clean'
  PROVE  FormA' /\ CleanA' /\ StarInv' /\ OutputsInv'
<1> DEFINE t == Tail(todo)
           K == Have'
           given == Given(Steps[calc], count)
<1>1. /\ todo # <<>> /\ calc' = calc /\ count' = count /\ pass' = pass /\ IsSeq(todo)
  BY OpOf DEF FormInv
<1>2. FormA' /\ todo' = t
  BY FormSimpleA
<1>3. ReadyTo(todo, Have, count) /\ given \subseteq Have \cup Given(todo, count)
  BY DEF CleanA
<1>4. Needs(todo[1], count) \subseteq Have
  BY <1>1, <1>3, FirstReady
<1>5. Have \cup Gives(todo[1], count) \subseteq K /\ OutputsInv'
  BY <1>4, HaveStep
<1>6. \A j \in DOMAIN t : j + 1 \in DOMAIN todo /\ t[j] = todo[j + 1]
  BY <1>1, TailIs
<1> HIDE DEF K
<1>7. /\ ReadyTo(t, K, count)
      /\ Have \cup Given(todo, count) \subseteq K \cup Given(t, count)
  BY <1>1, <1>3, <1>5, ReadyTail
<1> HIDE DEF t, given
<1>8. CleanA'
  <2>1. given \subseteq K \cup Given(t, count)
    BY <1>3, <1>7
  <2>2. ReadyTo(todo', Have', count') /\ Given(Steps[calc'], count') \subseteq Have' \cup Given(todo', count')
    BY <1>1, <1>2, <1>7, <2>1 DEF K, given
  <2> QED
    BY <2>2 DEF CleanA
<1>9. StarInv'
  <2>1. ASSUME NEW j \in DOMAIN t, t[j].item = Star PROVE Literal'
    <3>1. Literal
      BY <1>6, <2>1 DEF StarInv
    <3> QED
      BY <3>1, LiteralKept
  <2> QED
    BY <1>2, <2>1 DEF StarInv
<1> QED
  BY <1>2, <1>5, <1>8, <1>9

(* The commands of a loop over files. *)
BodyOf(c, k, i, n) ==
    LET d == c.body[k]
        b == Of(d, i)
    IN  /\ b.item = i /\ b.op = d.op /\ b.reads = d.reads /\ b.writes = d.writes
        /\ b.op # "for"
        /\ Needs(b, n) = SimpleNeeds(b) /\ Gives(b, n) = SimpleGives(b, n)

(* A command of a loop's body: what it needs and gives is among that of the loop. *)
LEMMA LoopBody ==
  ASSUME NEW c, NEW a, NEW pattern, FileLoop(c, a, pattern), NEW k \in DOMAIN c.body, NEW i, NEW n
  PROVE  BodyOf(c, k, i, n)
<1> DEFINE d == c.body[k]
           b == Of(d, i)
<1>1. InLoop(d, a)
  BY DEF FileLoop
<1> HIDE DEF d
<1>2. IsCommand(d) /\ d.op # "for"
  BY <1>1 DEF InLoop
<1>3. b.item = i /\ b.op = d.op /\ b.reads = d.reads /\ b.writes = d.writes /\ b.op # "for"
  BY <1>2, OfIs
<1> HIDE DEF b
<1>4. Needs(b, n) = SimpleNeeds(b) /\ Gives(b, n) = SimpleGives(b, n)
  BY <1>3 DEF Needs, Gives, InDirs
<1> QED
  BY <1>3, <1>4 DEF BodyOf, b, d

(* What a loop over files needs and gives.                                 *)
LoopNeedsAre(c, n) ==
    /\ c.writes.name \notin {"", "run-supercell"}
    /\ \A i \in 1..n : <<Work, c.writes.name, i>> \in Needs(c, n)
    /\ \A i \in 1..n : \A k \in DOMAIN c.body : \A p \in c.body[k].reads : At(Work, p, i) \in Needs(c, n)
    /\ Gives(c, n) = UNION {UNION {SimpleGives(Of(c.body[k], i), n) : k \in DOMAIN c.body} : i \in 1..n}

(* What a loop over files needs and gives, over all of its items. *)
LEMMA LoopNeeds ==
  ASSUME NEW c, NEW a, NEW x, FileLoop(c, a, Pattern(x)), NEW n
  PROVE  LoopNeedsAre(c, n)
<1>1. c.op = "for" /\ c.writes.name \in Displaced \cup {"run-input"}
  BY PatternIs DEF FileLoop
<1>2. c.writes.name \notin {"", "run-supercell"}
  BY <1>1 DEF Displaced
<1>3. ~ InDirs(c)
  BY <1>2 DEF InDirs
<1>4. /\ Needs(c, n) = UNION {{<<Work, c.writes.name, i>>}
             \cup UNION {{At(Work, p, i) : p \in c.body[k].reads} : k \in DOMAIN c.body} : i \in 1..n}
      /\ Gives(c, n) = UNION {UNION {SimpleGives(Of(c.body[k], i), n) : k \in DOMAIN c.body} : i \in 1..n}
  BY <1>1, <1>3 DEF Needs, Gives
<1>5. ASSUME NEW i \in 1..n PROVE <<Work, c.writes.name, i>> \in Needs(c, n)
  BY <1>4
<1>6. ASSUME NEW i \in 1..n, NEW k \in DOMAIN c.body, NEW p \in c.body[k].reads
      PROVE  At(Work, p, i) \in Needs(c, n)
  <2> DEFINE q == At(Work, p, i)
  <2>1. q \in {At(Work, r, i) : r \in c.body[k].reads}
    OBVIOUS
  <2> HIDE DEF q
  <2>2. q \in Needs(c, n)
    BY <1>4, <2>1
  <2> QED
    BY <2>2 DEF q
<1> QED
  BY <1>2, <1>4, <1>5, <1>6 DEF LoopNeedsAre

(* Every supercell is an item of a loop that is ready, and * is one only   *)
(* when something literal is there.                                        *)
LEMMA ReadyItems ==
  ASSUME FormInv, cwd = Work, FileLoop(todo[1], Appends, Pattern(calc)), Needs(todo[1], count) \subseteq Have,
         NEW I, Matched(I)
  PROVE  1..count \subseteq I /\ (Star \in I => Literal)
<1> DEFINE name == todo[1].writes.name
<1>1. name \notin {"", "run-supercell"} /\ \A i \in 1..count : <<Work, name, i>> \in Have
  <2>1. LoopNeedsAre(todo[1], count)
    BY LoopNeeds
  <2> QED
    BY <2>1 DEF LoopNeedsAre
<1>2. count \in Structures /\ ItemsAre /\ count \in Nat \ {0}
  BY CountIs DEF FormInv
<1>3. Found = {i \in Structures \cup {Star} : <<Work, name, i>> \in DOMAIN files}
  BY <1>1 DEF Found, Matches, Exists
<1>4. ASSUME NEW i \in 1..count PROVE i \in Found /\ i \in I
  <2> DEFINE f == <<Work, name, i>>
  <2>1. f[2] = name /\ f \in Have
    BY <1>1
  <2> HIDE DEF f
  <2>2. f \in DOMAIN files
    BY <1>1, <2>1, HaveIs
  <2>3. i \in Structures
    BY <1>2 DEF ItemsAre
  <2> QED
    BY <1>3, <2>2, <2>3 DEF f, Matched
<1>5. ASSUME Star \in I PROVE Literal
  <2>1. 1 \in Found
    BY <1>2, <1>4
  <2>2. Star \in Found
    BY <1>5, <2>1, NumbersAre DEF Matched
  <2> DEFINE f == <<Work, name, Star>>
  <2>3. f \in DOMAIN files /\ f[3] = Star
    BY <1>3, <2>2
  <2> QED
    BY <2>3 DEF Literal
<1> QED
  BY <1>4, <1>5

(* A loop over files finds exactly the supercells and keeps the rest of the script ready. *)
LEMMA CleanFileLoop ==
  ASSUME FormInv, FormA, CleanA, StarInv, OutputsInv, Loop, todo # <<>>,
         FileLoop(todo[1], Appends, Pattern(calc))
  PROVE  FormA' /\ CleanA' /\ StarInv' /\ OutputsInv'
<1> DEFINE c == todo[1]
           m == Len(c.body)
           u == Tail(todo)
           t == todo'
           N == count
           H == Have
           given == Given(Steps[calc], count)
<1>1. /\ IsSeq(todo) /\ cwd = Work /\ calc' = calc /\ count' = count /\ pass' = pass
      /\ files' = files /\ dirs' = dirs /\ FormA' /\ count \in Structures
  BY FormLoopA DEF FormInv, FormA, Loop, Next1
<1>2. Have' = Have /\ OutputsInv' /\ (Literal => Literal')
  BY <1>1, HaveSame, OutputsSame DEF Literal
<1>3. m \in Nat \ {0} /\ DOMAIN c.body = 1..m
      /\ \A k \in DOMAIN c.body :
            c.body[k].op = "doc" =>
               \E l \in 1..k - 1 : c.body[l].op = "cat" /\ c.body[l].writes = c.body[k].writes
  BY DEF FileLoop
<1>4. PICK items, e : Matched(Range(items)) /\ LoopOverFiles(e, u, Range(items))
  <2> HIDE DEF m
  <2> QED
    BY <1>1, <1>3, LoopUnrolled
<1> DEFINE I == Range(items)
           n == Len(e)
<1>5. /\ ReadyTo(todo, H, N) /\ given \subseteq H \cup Given(todo, N)
      /\ Needs(c, N) \subseteq H
  <2>1. /\ ReadyTo(todo, Have, count) /\ given \subseteq Have \cup Given(todo, count)
    BY DEF CleanA
  <2>2. Needs(todo[1], count) \subseteq Have
    BY <1>1, <2>1, FirstReady
  <2> QED
    BY <2>1, <2>2
<1>6. I \subseteq Items /\ 1..N \subseteq I /\ (Star \in I => Literal)
  <2>1. I \subseteq Items
    BY <1>1, <1>4, ItemsFound
  <2>2. 1..count \subseteq I /\ (Star \in I => Literal)
    BY <1>1, <1>4, <1>5, ReadyItems
  <2> QED
    BY <2>1, <2>2
<1>7. /\ Len(todo) \in Nat \ {0} /\ DOMAIN todo = 1..Len(todo)
      /\ Len(u) = Len(todo) - 1
      /\ \A j \in 1..Len(u) : u[j] = todo[j + 1]
  BY <1>1, TailIs
<1>22. \A k \in 1..Len(u) : k + 1 \in DOMAIN todo /\ u[k] = todo[k + 1]
  <2> HIDE DEF u
  <2> QED
    BY <1>7
<1>8. /\ n \in Nat /\ Len(u) \in Nat /\ DOMAIN t = 1..n + Len(u)
      /\ DOMAIN e = 1..n
      /\ \A j \in 1..n : t[j] = e[j]
      /\ \A j \in 1..Len(u) : t[n + j] = u[j]
  BY <1>4 DEF LoopOverFiles
<1>9. \A j \in 1..n : \E k \in DOMAIN c.body, i \in I :
         /\ e[j] = Of(c.body[k], i)
         /\ \A l \in 1..k - 1 : \E h \in 1..j - 1 : e[h] = Of(c.body[l], i)
  BY <1>4 DEF LoopOverFiles
<1>10. \A k \in DOMAIN c.body, i \in I : \E j \in 1..n : e[j] = Of(c.body[k], i)
  BY <1>4 DEF LoopOverFiles
<1>11. \A k \in DOMAIN c.body : \A i \in I : BodyOf(c, k, i, N)
  BY LoopBody
<1>12. /\ \A i \in 1..N : \A k \in DOMAIN c.body : \A p \in c.body[k].reads : At(Work, p, i) \in H
       /\ Gives(c, N) = UNION {UNION {SimpleGives(Of(c.body[k], i), N) : k \in DOMAIN c.body} : i \in 1..N}
  <2>1. LoopNeedsAre(c, N)
    BY LoopNeeds
  <2> QED
    BY <1>5, <2>1 DEF LoopNeedsAre
<1>13. \A i \in I : i = Star \/ i \in 1..N
  BY <1>6 DEF Items
<1> HIDE DEF m, u, t, n, c, N, H, I, given
(* what a command of the loop needs *)
<1>14. ASSUME NEW j \in 1..n, NEW x \in Needs(t[j], N)
       PROVE  x \in H \cup UNION {Gives(t[l], N) : l \in 1..j - 1}
  <2>1. PICK k \in DOMAIN c.body, i \in I :
          /\ e[j] = Of(c.body[k], i)
          /\ \A l \in 1..k - 1 : \E h \in 1..j - 1 : e[h] = Of(c.body[l], i)
    BY <1>9
  <2> DEFINE d == c.body[k]
             b == Of(d, i)
  <2>2. t[j] = b
    BY <1>8, <2>1
  <2>3. b.item = i /\ b.op = d.op /\ b.reads = d.reads /\ b.writes = d.writes /\ Needs(b, N) = SimpleNeeds(b)
    BY <1>11 DEF BodyOf
  <2>4. d.op = "doc" => \E l \in 1..k - 1 : c.body[l].op = "cat" /\ c.body[l].writes = d.writes
    BY <1>3
  <2> HIDE DEF b, d
  <2>5. x \in SimpleNeeds(b)
    BY <1>14, <2>2, <2>3
  <2>6. i # Star
    BY <2>3, <2>5 DEF SimpleNeeds
  <2>7. i \in 1..N
    BY <1>13, <2>6
  <2>8. CASE \E p \in b.reads : x = At(Work, p, b.item)
    BY <1>12, <2>3, <2>7, <2>8 DEF d
  <2>9. CASE b.op = "doc" /\ x = At(Work, b.writes, b.item)
    <3>1. PICK l \in 1..k - 1 : c.body[l].op = "cat" /\ c.body[l].writes = d.writes
      BY <2>3, <2>4, <2>9
    <3>2. PICK h \in 1..j - 1 : e[h] = Of(c.body[l], i)
      BY <2>1, <3>1
    <3>3. l \in DOMAIN c.body /\ h \in 1..n
      BY <1>3, <1>8, <3>1, <3>2
    <3> DEFINE g == Of(c.body[l], i)
    <3>4. g.item = i /\ g.op = "cat" /\ g.writes = d.writes /\ Gives(g, N) = SimpleGives(g, N)
      BY <1>11, <3>1, <3>3 DEF BodyOf
    <3>5. t[h] = g
      BY <1>8, <3>2, <3>3
    <3> HIDE DEF g
    <3>6. x \in Gives(t[h], N)
      BY <2>3, <2>6, <2>9, <3>4, <3>5 DEF SimpleGives
    <3> QED
      BY <3>2, <3>6
  <2> QED
    BY <2>5, <2>6, <2>3, <2>8, <2>9 DEF SimpleNeeds
(* what the loop gives, its commands give *)
<1>15. ASSUME NEW x \in Gives(c, N) PROVE \E j \in 1..n : x \in Gives(t[j], N)
  <2>1. PICK i \in 1..N, k \in DOMAIN c.body : x \in SimpleGives(Of(c.body[k], i), N)
    BY <1>12
  <2>2. i \in I
    BY <1>6
  <2>3. PICK j \in 1..n : e[j] = Of(c.body[k], i)
    BY <1>10, <2>2
  <2>4. Gives(Of(c.body[k], i), N) = SimpleGives(Of(c.body[k], i), N)
    BY <1>11, <2>2 DEF BodyOf
  <2> QED
    BY <1>8, <2>1, <2>3, <2>4
(* and so do the commands after it *)
<1>16. ASSUME NEW l \in DOMAIN todo, NEW x \in Gives(todo[l], N)
       PROVE  \E j \in DOMAIN t : x \in Gives(t[j], N) /\ j <= n + l - 1
  <2>1. CASE l = 1
    <3>1. PICK j \in 1..n : x \in Gives(t[j], N)
      BY <1>15, <1>16, <2>1 DEF c
    <3> QED
      BY <1>8, <2>1, <3>1
  <2>2. CASE l # 1
    <3> DEFINE k == l - 1
    <3>1. k \in 1..Len(u) /\ k + 1 = l /\ n + k \in DOMAIN t /\ n + k <= n + l - 1
      <4>1. k \in 1..Len(u) /\ k + 1 = l
        BY <1>7, <2>2
      <4> HIDE DEF k
      <4> QED
        BY <1>8, <4>1
    <3> HIDE DEF k
    <3>2. t[n + k] = todo[l]
      <4>1. t[n + k] = u[k]
        BY <1>8, <3>1
      <4> QED
        BY <1>22, <3>1, <4>1
    <3> QED
      BY <1>16, <3>1, <3>2
  <2> QED
    BY <2>1, <2>2
<1>17. ASSUME NEW k \in 1..Len(u), NEW x \in Needs(t[n + k], N)
       PROVE  x \in H \cup UNION {Gives(t[l], N) : l \in 1..(n + k) - 1}
  <2>1. t[n + k] = todo[k + 1] /\ k + 1 \in DOMAIN todo
    <3>1. t[n + k] = u[k]
      BY <1>8
    <3> QED
      BY <1>22, <3>1
  <2>2. x \in H \cup UNION {Gives(todo[l], N) : l \in 1..(k + 1) - 1}
    BY <1>5, <1>17, <2>1 DEF ReadyTo
  <2>3. ASSUME NEW l \in 1..(k + 1) - 1, x \in Gives(todo[l], N)
        PROVE  \E h \in 1..(n + k) - 1 : x \in Gives(t[h], N)
    <3>1. l \in DOMAIN todo /\ l <= k
      BY <1>7
    <3>2. PICK h \in DOMAIN t : x \in Gives(t[h], N) /\ h <= n + l - 1
      BY <1>16, <2>3, <3>1
    <3>3. h \in 1..(n + k) - 1
      BY <1>7, <1>8, <3>1, <3>2
    <3> QED
      BY <3>2, <3>3
  <2> QED
    BY <2>2, <2>3
<1>18. ReadyTo(t, H, N)
  <2>1. ASSUME NEW j \in DOMAIN t, NEW x \in Needs(t[j], N)
        PROVE  x \in H \cup UNION {Gives(t[l], N) : l \in 1..j - 1}
    <3>1. CASE j \in 1..n
      BY <1>14, <2>1, <3>1
    <3>2. CASE j \notin 1..n
      <4> DEFINE k == j - n
      <4>1. k \in 1..Len(u) /\ n + k = j
        BY <1>8, <3>2
      <4> HIDE DEF k
      <4> QED
        BY <1>17, <2>1, <4>1
    <3> QED
      BY <3>1, <3>2
  <2> QED
    BY <2>1 DEF ReadyTo
<1>19. given \subseteq H \cup Given(t, N)
  <2>1. ASSUME NEW x \in Given(todo, N) PROVE x \in Given(t, N)
    <3>1. PICK l \in DOMAIN todo : x \in Gives(todo[l], N)
      BY <2>1 DEF Given
    <3>2. PICK j \in DOMAIN t : x \in Gives(t[j], N)
      BY <1>16, <3>1
    <3> QED
      BY <3>2 DEF Given
  <2> QED
    BY <1>5, <2>1
<1>20. CleanA'
  <2>1. ReadyTo(todo', Have', count') /\ Given(Steps[calc'], count') \subseteq Have' \cup Given(todo', count')
    BY <1>1, <1>2, <1>18, <1>19 DEF t, H, N, given
  <2> QED
    BY <2>1 DEF CleanA
<1>21. StarInv'
  <2>1. ASSUME NEW j \in DOMAIN t, t[j].item = Star PROVE Literal
    <3>1. CASE j \in 1..n
      <4>1. PICK k \in DOMAIN c.body, i \in I : e[j] = Of(c.body[k], i)
        BY <1>9, <3>1
      <4>2. Of(c.body[k], i).item = i
        BY <1>11 DEF BodyOf
      <4> QED
        BY <1>6, <1>8, <2>1, <3>1, <4>1, <4>2
    <3>2. CASE j \notin 1..n
      <4> DEFINE k == j - n
      <4>1. k \in 1..Len(u) /\ n + k = j
        BY <1>8, <3>2
      <4> HIDE DEF k
      <4>2. t[j] = todo[k + 1] /\ k + 1 \in DOMAIN todo
        <5>1. t[n + k] = u[k]
          BY <1>8, <4>1
        <5> QED
          BY <1>22, <4>1, <5>1
      <4> QED
        BY <2>1, <4>2 DEF StarInv
    <3> QED
      BY <3>1, <3>2
  <2> QED
    BY <1>2, <2>1 DEF StarInv, t
<1> QED
  BY <1>1, <1>2, <1>20, <1>21

(* A directory that the script has. *)
LEMMA DirectoryIs ==
  ASSUME FormInv, NEW i, Directory(i) \in Have
  PROVE  i \in dirs
<1>1. ASSUME NEW f \in DOMAIN files PROVE f[2] # ""
  <2>1. f[2] \in InputNames \cup OutputNames \cup Displaced
    BY DEF FormInv, FilesInv, FileIs, Named
  <2> QED
    BY <2>1, NamesDiffer DEF OutputNames, Displaced
<1>2. Directory(i)[2] = "" /\ Directory(i)[1] = i
  BY DEF Directory
<1>3. PICK d \in dirs : Directory(i) = Directory(d)
  BY <1>1, <1>2 DEF Have
<1>4. Directory(d)[1] = d
  BY DEF Directory
<1> QED
  BY <1>2, <1>3, <1>4

(* What a loop over directories needs and gives. *)
DirNeedsAre(c, n) ==
    /\ \A i \in 1..n : Directory(i) \in Needs(c, n)
    /\ \A i \in 1..n : \A p \in c.body[2].reads : <<i, p.name, 0>> \in Needs(c, n)
    /\ Gives(c, n) = {<<i, c.body[2].writes.name, 0>> : i \in 1..n}

(* What a loop over directories needs and gives. *)
LEMMA DirNeeds ==
  ASSUME NEW c, NEW a, DirLoop(c, a), NEW n
  PROVE  DirNeedsAre(c, n)
<1> DEFINE b == c.body[2]
<1>1. InDirs(c) /\ IsProgram(b, a)
  BY DEF DirLoop
<1>2. \A p \in b.reads : \A d, i : At(d, p, i) = <<d, p.name, 0>>
  <2> HIDE DEF b
  <2>1. Of(b, 0) = b /\ IsCommand(b)
    BY <1>1, OfSame DEF IsProgram
  <2> QED
    BY <1>1, <2>1, ProgramPath
<1>3. /\ Needs(c, n) = UNION {{Directory(i)} \cup {At(i, p, i) : p \in b.reads} : i \in 1..n}
      /\ Gives(c, n) = {<<i, b.writes.name, 0>> : i \in 1..n}
  BY <1>1 DEF Needs, Gives
<1>4. ASSUME NEW i \in 1..n PROVE Directory(i) \in Needs(c, n)
  BY <1>3
<1>5. ASSUME NEW i \in 1..n, NEW p \in b.reads
      PROVE  <<i, p.name, 0>> \in Needs(c, n)
  <2> DEFINE q == At(i, p, i)
  <2>1. q = <<i, p.name, 0>>
    BY <1>2
  <2>2. q \in {At(i, r, i) : r \in b.reads}
    OBVIOUS
  <2> HIDE DEF q, b
  <2>3. q \in Needs(c, n)
    BY <1>3, <2>2
  <2> QED
    BY <2>1, <2>3
<1> QED
  BY <1>3, <1>4, <1>5 DEF DirNeedsAre

(* A loop over directories finds the inputs in each of them. *)
LEMMA CleanDirLoop ==
  ASSUME FormInv, FormA, CleanA, StarInv, OutputsInv, Loop, todo # <<>>, DirLoop(todo[1], Appends)
  PROVE  FormB' /\ CleanB' /\ StarInv' /\ OutputsInv'
<1> DEFINE c == todo[1]
           p == c.body[2]
           t == todo'
           N == count
           H == Have
           given == Given(Steps[calc], count)
<1>1. /\ IsSeq(todo) /\ cwd = Work /\ calc' = calc /\ count' = count /\ pass' = pass /\ cwd' = cwd
      /\ files' = files /\ dirs' = dirs /\ FormB' /\ count \in Structures
  BY FormLoopB DEF FormInv, FormA, Loop, Next1
<1>2. Have' = Have /\ OutputsInv' /\ (Literal => Literal')
  BY <1>1, HaveSame, OutputsSame DEF Literal
<1>3. Len(todo) = 1 /\ c.writes.name = "run-supercell" /\ DOMAIN todo = {1}
  <2>1. InDirs(todo[1]) /\ 1 \in DOMAIN todo
    BY <1>1, TailIs DEF DirLoop
  <2>2. Len(todo) = 1 /\ DOMAIN todo = 1..Len(todo)
    BY <1>1, <2>1, TailIs DEF FormA
  <2> QED
    BY <2>1, <2>2 DEF InDirs
<1>4. PICK I : Matched(I) /\ Blocks(p, I)
  BY <1>1, <1>3, DirLoopUnrolled
<1>5. I \subseteq Items /\ Found = dirs
  BY <1>1, <1>3, <1>4, ItemsFound DEF Found, Matches
<1>6. /\ given \subseteq H \cup Given(todo, N)
      /\ Needs(c, N) \subseteq H
  <2>1. /\ ReadyTo(todo, Have, count) /\ given \subseteq Have \cup Given(todo, count)
    BY DEF CleanA
  <2>2. Needs(todo[1], count) \subseteq Have
    BY <1>1, <2>1, FirstReady
  <2> QED
    BY <2>1, <2>2
<1>7. DirNeedsAre(c, N)
  BY DirNeeds
<1>8. /\ \A i \in 1..N : Directory(i) \in H
      /\ \A i \in 1..N : \A q \in p.reads : <<i, q.name, 0>> \in H
      /\ Gives(c, N) = {<<i, p.writes.name, 0>> : i \in 1..N}
  BY <1>6, <1>7 DEF DirNeedsAre
<1>9. ItemsAre /\ N \in Nat \ {0}
  BY <1>1, CountIs
<1>10. \A i \in 1..N : i \in I
  <2>1. ASSUME NEW i \in 1..N PROVE i \in I
    <3>1. i \in dirs
      BY <1>8, DirectoryIs
    <3>2. i \in Structures
      BY <1>9 DEF ItemsAre
    <3> QED
      BY <1>4, <1>5, <3>1, <3>2 DEF Matched
  <2> QED
    BY <2>1
<1>11. Star \in I => Literal
  <2>1. 1 \in dirs
    BY <1>8, <1>9, DirectoryIs
  <2>2. Star \in I => Star \in dirs
    BY <1>4, <1>5, <2>1, NumbersAre DEF Matched
  <2> QED
    BY <2>2 DEF Literal
<1>12. \A i \in I : i = Star \/ i \in 1..N
  BY <1>5 DEF Items
<1>13. \A i \in I :
         LET a == Of(Cd("item"), i)
             q == Of(p, i)
             z == Of(Cd("up"), i)
         IN  /\ a.item = i /\ CdTo(a, "item")
             /\ q.item = i /\ q.op = "program" /\ q.reads = p.reads /\ q.writes = p.writes
             /\ z.item = i /\ CdTo(z, "up")
  BY <1>5, DirCommands
<1>14. /\ Triples(Cd("item"), p, Cd("up"), I, t)
       /\ t # <<>> => \E i \in I : t[1] = Of(Cd("item"), i)
       /\ \A i \in I : \E j \in DOMAIN t : t[j] = Of(p, i)
  BY <1>4 DEF Blocks
<1>15. \A x \in Given(todo, N) : x \in Gives(c, N)
  BY <1>3 DEF Given
<1> HIDE DEF t, p, c, N, H, given
<1>16. t # <<>> => CdTo(t[1], "item")
  BY <1>13, <1>14
<1>17. ASSUME NEW j \in DOMAIN t
       PROVE  /\ t[j].item \in I
              /\ t[j].op = "program" => t[j].reads = p.reads
  <2>1. PICK i \in I : t[j] \in {Of(Cd("item"), i), Of(p, i), Of(Cd("up"), i)}
    BY <1>14 DEF Triples
  <2> QED
    BY <1>13, <2>1 DEF CdTo
<1>18. ASSUME NEW j \in DOMAIN t, t[j].op = "program", t[j].item # Star, NEW q \in t[j].reads
       PROVE  <<t[j].item, q.name, 0>> \in H
  BY <1>8, <1>12, <1>17, <1>18
<1>19. ASSUME NEW x \in given
       PROVE  x \in H \/ \E j \in DOMAIN t : t[j].op = "program" /\ t[j].item # Star /\ x = DirTarget(t[j])
  <2>1. CASE x \in H
    BY <2>1
  <2>2. CASE x \notin H
    <3>1. PICK i \in 1..N : x = <<i, p.writes.name, 0>>
      BY <1>6, <1>8, <1>15, <1>19, <2>2
    <3>2. i \in I /\ i # Star
      BY <1>1, <1>10, CountIs DEF N
    <3>3. PICK j \in DOMAIN t : t[j] = Of(p, i)
      BY <1>14, <3>2
    <3>4. t[j].op = "program" /\ t[j].item = i /\ t[j].writes = p.writes
      BY <1>13, <3>2, <3>3
    <3> QED
      BY <3>1, <3>2, <3>4 DEF DirTarget
  <2> QED
    BY <2>1, <2>2
<1>20. CleanB'
  <2>1. /\ todo' = t /\ Have' = H /\ Given(Steps[calc'], count') = given /\ cwd' = Work
    BY <1>1, <1>2 DEF t, H, given
  <2>2. t # <<>> => t[1].op # "program" /\ ~ CdTo(t[1], "up")
    BY <1>16 DEF CdTo
  <2> QED
    BY <1>18, <1>19, <2>1, <2>2 DEF CleanB, CdTo, DirTarget
<1>21. StarInv'
  BY <1>2, <1>11, <1>17 DEF StarInv, t
<1> QED
  BY <1>1, <1>2, <1>20, <1>21

(* A program in the directory of a supercell reads what was put there, and *)
(* its output is fresh.                                                    *)
LEMMA DirProgramFresh ==
  ASSUME FormInv, FormB, CleanB, OutputsInv, Execute, RunProgram, clean'
  PROVE  /\ cwd' = cwd /\ cwd \in dirs
         /\ Have \subseteq Have' /\ OutputsInv'
         /\ todo[1].item # Star => DirTarget(todo[1]) \in Have'
<1> DEFINE c == todo[1]
           f == <<cwd, c.writes.name, 0>>
           P == {<<cwd, p.name, 0>> : p \in c.reads}
           C == Sources(P) \cup {Leaves(f)}
<1>1. /\ todo # <<>> /\ calc' = calc /\ count' = count /\ pass' = pass /\ IsSeq(todo)
      /\ count \in Structures /\ c.op = "program"
  BY OpOf DEF FormInv
<1>2. IsCommand(c) /\ c.item \in Items /\ DirProgram(c)
  BY <1>1, FirstB DEF CdTo
<1>3. cwd = c.item
  BY <1>1 DEF CleanB
<1>4. /\ c.mode = "append" => Appends
      /\ c.reads # {} /\ c.writes.name \in OutputNames
      /\ \A d, i : At(d, c.writes, i) = <<d, c.writes.name, 0>>
      /\ \A p \in c.reads : p.name \in InputNames /\ \A d, i : At(d, p, i) = <<d, p.name, 0>>
      /\ \E p \in c.reads : p.name \in Main
  BY <1>2, ProgramPath DEF DirProgram
<1>5. /\ Resolve(c.writes, c.item) = f
      /\ {Resolve(p, c.item) : p \in c.reads} = P
  <2>1. \A p, i : Resolve(p, i) = At(cwd, p, i)
    BY DEF Resolve, At
  <2> QED
    BY <1>4, <2>1
<1>6. /\ f[1] = cwd /\ f[2] = c.writes.name /\ f[3] = 0 /\ Supercell(f) = cwd
      /\ c.item # 0 /\ Star # 0 /\ 0 # Star /\ f = DirTarget(c)
  <2>1. f[1] = cwd /\ f[2] = c.writes.name /\ f[3] = 0
    OBVIOUS
  <2>2. c.item # 0 /\ Star # 0
    BY <1>1, <1>2, CountIs, NumbersAre DEF ItemsAre
  <2>3. f = DirTarget(c)
    BY <1>3 DEF DirTarget
  <2> HIDE DEF f
  <2> QED
    BY <2>1, <2>2, <2>3 DEF Supercell
<1>7. \A p \in c.reads : <<cwd, p.name, 0>> \in P
  OBVIOUS
<1>8. \A q \in P : \E p \in c.reads : q = <<cwd, p.name, 0>>
  OBVIOUS
<1> HIDE DEF f, P
<1>9. files' = Put(f, C) /\ (\A q \in P : q \in DOMAIN files) /\ cwd' = cwd /\ dirs' = dirs
  BY <1>5 DEF RunProgram, Fails, Exists
<1>10. cwd \in dirs
  <2>1. PICK p \in c.reads : TRUE
    BY <1>4
  <2> DEFINE g == <<cwd, p.name, 0>>
  <2>2. g \in DOMAIN files /\ g[1] = cwd
    BY <1>7, <1>9
  <2> HIDE DEF g
  <2>3. cwd \in {Work} \cup dirs
    BY <2>2 DEF FormInv, FilesInv, FileIs
  <2> QED
    BY <1>3, <1>6, <2>3 DEF Work
<1> HIDE DEF C
<1>11. PICK X : Written(f, C, X)
  BY <1>9, PutIs
<1>12. /\ Writes(f, X) /\ C \subseteq X
       /\ c.mode # "append" => X = C
  BY <1>11 DEF Written
<1>13. ASSUME c.item # Star, NEW p \in c.reads
       PROVE  LET g == <<cwd, p.name, 0>>
              IN  /\ g \in P /\ g \in DOMAIN files /\ Fresh(g, files[g])
                  /\ \A d \in files[g] : d.pass = pass
                  /\ p.name \in Main => \E d \in files[g] : d.tag \in Displaced
  <2> DEFINE g == <<cwd, p.name, 0>>
  <2>1. g \in Have
    <3>1. 1 \in DOMAIN todo
      BY <1>1, TailIs
    <3> QED
      BY <1>1, <1>3, <1>13, <3>1 DEF CleanB
  <2>2. g[1] = cwd /\ g[2] = p.name /\ g[3] = 0 /\ p.name # "" /\ p.name \notin OutputNames
    BY <1>4, NamesDiffer
  <2>3. g \in P
    BY <1>7
  <2> HIDE DEF g
  <2>4. g \in DOMAIN files /\ Fresh(g, files[g])
    BY <2>1, <2>2, HaveIs
  <2>5. Supercell(g) # 0
    BY <1>3, <1>6, <2>2 DEF Supercell
  <2> QED
    BY <2>2, <2>3, <2>4, <2>5 DEF Fresh, g
<1>14. ASSUME c.item # Star PROVE Fresh(f, X)
  <2>1. ASSUME NEW d \in Sources(P) PROVE d.pass = pass
    <3>1. PICK q \in P : d \in files[q]
      BY DEF Sources
    <3>2. PICK p \in c.reads : q = <<cwd, p.name, 0>>
      BY <1>8
    <3> QED
      BY <1>13, <1>14, <3>1, <3>2
  <2>2. \E d \in Sources(P) : d.tag \in Displaced
    <3>1. PICK p \in c.reads : p.name \in Main
      BY <1>4
    <3> DEFINE g == <<cwd, p.name, 0>>
    <3>2. g \in P /\ g \in DOMAIN files /\ \E d \in files[g] : d.tag \in Displaced
      BY <1>13, <1>14, <3>1
    <3> HIDE DEF g
    <3> QED
      BY <3>2 DEF Sources, Exists
  <2>3. Leaves(f).pass = pass
    BY DEF Leaves
  <2>4. f[2] \in OutputNames
    BY <1>4, <1>6
  <2>5. /\ Leaves(f) \in X /\ Sources(P) \subseteq X
        /\ X = Sources(P) \cup {Leaves(f)} \/ Appends
    BY <1>4, <1>12 DEF C
  <2> QED
    BY <2>1, <2>2, <2>3, <2>4, <2>5 DEF Fresh
<1>15. Have \subseteq Have' /\ (f[1] # Star /\ f[3] # Star => f \in Have')
  <2>1. f[1] = Star \/ f[3] = Star \/ Fresh(f, X)
    BY <1>3, <1>6, <1>14
  <2> QED
    BY <1>1, <1>9, <1>12, <2>1, HaveWritten
<1>16. OutputsInv'
  <2>1. ASSUME f[2] \in OutputNames, f[1] # Star, f[3] # Star
        PROVE  Fresh(f, X) /\ (IsPhonopy => Supercell(f) \in 1..count)
    <3>1. c.item # Star
      BY <1>3, <1>6, <2>1
    <3>2. c.item \in 1..count
      BY <1>1, <1>2, <3>1, ItemsOf
    <3> QED
      BY <1>3, <1>6, <1>14, <3>1, <3>2
  <2> QED
    BY <1>1, <1>12, <2>1, OutputsWritten
<1> QED
  BY <1>3, <1>6, <1>9, <1>10, <1>15, <1>16

(* A clean step of it finds the inputs and gives the output. *)
LEMMA CleanStepB ==
  ASSUME FormInv, FormB, CleanB, StarInv, OutputsInv, Execute, clean'
  PROVE  FormB' /\ CleanB' /\ StarInv' /\ OutputsInv'
<1> DEFINE c == todo[1]
           t == Tail(todo)
           given == Given(Steps[calc], count)
<1>1. /\ IsSeq(todo) /\ todo # <<>> /\ FormB' /\ dirs' = dirs /\ todo' = t
      /\ ChangeDirectory \/ RunProgram
      /\ calc' = calc /\ count' = count /\ pass' = pass
  BY FormStepB, OpOf DEF FormInv
<1>2. /\ CdTo(c, "item") => t # <<>> /\ t[1].op = "program" /\ t[1].item = c.item
      /\ DirProgram(c) => t # <<>> /\ CdTo(t[1], "up")
      /\ CdTo(c, "up") => t = <<>> \/ CdTo(t[1], "item")
  BY <1>1, NextB
<1>3. \/ CdTo(c, "item") /\ c.op = "cd"
      \/ DirProgram(c) /\ c.op = "program"
      \/ CdTo(c, "up") /\ c.op = "cd"
  BY <1>1, FirstB
<1>4. \A j \in DOMAIN t : j + 1 \in DOMAIN todo /\ t[j] = todo[j + 1]
  BY <1>1, TailIs
<1>5. \A j \in DOMAIN todo : j = 1 \/ \E k \in DOMAIN t : t[k] = todo[j]
  <2>1. /\ Len(todo) \in Nat \ {0} /\ DOMAIN todo = 1..Len(todo) /\ DOMAIN t = 1..Len(todo) - 1
    BY <1>1, TailIs
  <2> HIDE DEF t
  <2>2. ASSUME NEW j \in DOMAIN todo, j # 1 PROVE j - 1 \in DOMAIN t /\ (j - 1) + 1 = j
    BY <2>1, <2>2
  <2> QED
    BY <1>4, <2>2
<1> HIDE DEF t
<1>6. /\ Have \subseteq Have' /\ OutputsInv'
      /\ c.op = "program" /\ c.item # Star => DirTarget(c) \in Have'
      /\ CdTo(c, "item") => cwd' = c.item
      /\ CdTo(c, "up") => cwd' = Work
      /\ c.op = "program" => cwd' \in dirs'
  <2>1. CASE c.op = "cd"
    <3>1. ChangeDirectory
      BY <1>1, <2>1, OpOf
    <3>2. files' = files
      BY <3>1 DEF ChangeDirectory, Fails
    <3>3. Have' = Have /\ OutputsInv'
      BY <1>1, <3>2, HaveSame, OutputsSame
    <3>4. CdTo(c, "item") => cwd' = c.item
      BY <3>1 DEF ChangeDirectory, CdTo, Fails
    <3>5. ASSUME CdTo(c, "up") PROVE cwd' = Work
      <4>1. cwd \in dirs
        BY <1>1, <3>5 DEF CleanB
      <4> QED
        BY <3>1, <3>5, <4>1 DEF ChangeDirectory, CdTo
    <3> QED
      BY <2>1, <3>3, <3>4, <3>5
  <2>2. CASE c.op = "program"
    <3>1. RunProgram
      BY <1>1, <2>2, OpOf
    <3> QED
      BY <1>1, <2>2, <3>1, DirProgramFresh DEF CdTo
  <2> QED
    BY <1>3, <2>1, <2>2
<1>7. \A q \in given : q \in Have'
          \/ \E j \in DOMAIN t : t[j].op = "program" /\ t[j].item # Star /\ q = DirTarget(t[j])
  <2>1. ASSUME NEW q \in given
        PROVE  q \in Have' \/ \E j \in DOMAIN t : t[j].op = "program" /\ t[j].item # Star /\ q = DirTarget(t[j])
    <3>1. CASE q \in Have
      BY <1>6, <3>1
    <3>2. CASE \E j \in DOMAIN todo : todo[j].op = "program" /\ todo[j].item # Star /\ q = DirTarget(todo[j])
      <4>1. PICK j \in DOMAIN todo : todo[j].op = "program" /\ todo[j].item # Star /\ q = DirTarget(todo[j])
        BY <3>2
      <4>2. CASE j = 1
        BY <1>6, <4>1, <4>2
      <4>3. CASE j # 1
        <5>1. PICK k \in DOMAIN t : t[k] = todo[j]
          BY <1>5, <4>3
        <5> QED
          BY <4>1, <5>1
      <4> QED
        BY <4>2, <4>3
    <3> QED
      BY <2>1, <3>1, <3>2 DEF CleanB
  <2> QED
    BY <2>1
<1>8. ASSUME NEW j \in DOMAIN t, t[j].op = "program", t[j].item # Star, NEW p \in t[j].reads
      PROVE  <<t[j].item, p.name, 0>> \in Have'
  <2>1. <<t[j].item, p.name, 0>> \in Have
    BY <1>4, <1>8 DEF CleanB
  <2> QED
    BY <1>6, <2>1
<1>9. /\ t = <<>> \/ CdTo(t[1], "item") => cwd' = Work
      /\ t # <<>> /\ t[1].op = "program" => cwd' = t[1].item
      /\ t # <<>> /\ CdTo(t[1], "up") => cwd' \in dirs'
  <2>1. CASE CdTo(c, "item") /\ c.op = "cd"
    BY <1>2, <1>6, <2>1 DEF CdTo
  <2>2. CASE DirProgram(c) /\ c.op = "program"
    BY <1>2, <1>6, <2>2 DEF CdTo
  <2>3. CASE CdTo(c, "up") /\ c.op = "cd"
    BY <1>2, <1>6, <2>3 DEF CdTo
  <2> QED
    BY <1>3, <2>1, <2>2, <2>3
<1>10. CleanB'
  <2>1. todo' = t /\ Given(Steps[calc'], count') = given
    BY <1>1
  <2> HIDE DEF given
  <2> QED
    BY <1>7, <1>8, <1>9, <2>1 DEF CleanB, CdTo, DirTarget
<1>11. StarInv'
  <2>1. ASSUME NEW j \in DOMAIN t, t[j].item = Star PROVE Literal'
    <3>1. Literal
      BY <1>4, <2>1 DEF StarInv
    <3> QED
      BY <3>1, LiteralKept
  <2> QED
    BY <1>1, <2>1 DEF StarInv
<1> QED
  BY <1>1, <1>6, <1>10, <1>11

(* A script from its start. *)
LEMMA ScriptReady ==
  ASSUME calc \in DOMAIN Steps, count \in Structures
  PROVE  LET s == Steps[calc]
         IN  /\ ReadyTo(s, {}, count) /\ HasOutputs(s, count)
             /\ (PhonopyIn(s) <=> IsPhonopy)
             /\ \A j \in DOMAIN s : s[j].item = 0
<1> DEFINE s == Steps[calc]
<1>1. Lawful(s, Appending(calc), Pattern(calc), count)
  BY ScriptsAreLawful
<1>2. \A j \in DOMAIN s : ScriptCommand(s[j])
  BY ScriptForm
<1>3. PhonopyIn(s) <=> IsPhonopy
  BY DEF PhonopyIn, IsPhonopy
<1> HIDE DEF s
<1>4. ReadyTo(s, {}, count) /\ HasOutputs(s, count)
  BY <1>1 DEF Lawful
<1>5. \A j \in DOMAIN s : s[j].item = 0
  BY <1>2 DEF ScriptCommand, Listed
<1> QED
  BY <1>3, <1>4, <1>5 DEF s

(* CleanInv in the initial states ... *)
LEMMA CleanInit ==
  ASSUME Init
  PROVE  CleanInv
<1>1. /\ calc \in DOMAIN Steps /\ count \in Structures /\ todo = Steps[calc] /\ files = <<>> /\ FormA
  BY FormInit DEF Init, FormInv
<1>2. ReadyTo(todo, {}, count) /\ \A j \in DOMAIN todo : todo[j].item = 0
  BY <1>1, ScriptReady
<1>3. CleanA
  <2>1. ReadyTo(todo, Have, count)
    BY <1>2, ReadyMore
  <2> QED
    BY <1>1, <2>1 DEF CleanA
<1>4. StarInv
  BY <1>2, NumbersAre DEF StarInv
<1>5. OutputsInv
  BY <1>1 DEF OutputsInv
<1> QED
  BY <1>1, <1>3, <1>4, <1>5 DEF CleanInv

(* ... when the script is executed again ... *)
LEMMA CleanAgain ==
  ASSUME FormInv, Again
  PROVE  CleanInv'
<1>1. /\ calc \in DOMAIN Steps /\ count \in Structures /\ todo' = Steps[calc] /\ files' = files /\ pass' = pass + 1
      /\ pass \in Nat \ {0} /\ FormA' /\ calc' = calc /\ count' = count
  BY FormAgain DEF Again, FormInv
<1> DEFINE t == todo'
           K == Have'
<1>2. ReadyTo(t, {}, count) /\ \A j \in DOMAIN t : t[j].item = 0
  BY <1>1, ScriptReady
<1> HIDE DEF t, K
<1>3. CleanA'
  <2>1. ReadyTo(t, K, count)
    BY <1>2, ReadyMore
  <2>2. ReadyTo(todo', Have', count') /\ Given(Steps[calc'], count') = Given(todo', count')
    BY <1>1, <2>1 DEF t, K
  <2> QED
    BY <2>2 DEF CleanA
<1>4. StarInv'
  BY <1>2, NumbersAre DEF StarInv, t
<1>5. OutputsInv'
  <2>1. ASSUME NEW f \in DOMAIN files PROVE Leaves(f)' \notin files[f]
    <3>1. \A d \in files[f] : d.pass \in 1..pass
      BY DEF FormInv, FilesInv, MadeFor
    <3>2. Leaves(f)'.pass = pass + 1
      BY <1>1 DEF Leaves
    <3> QED
      BY <1>1, <3>1, <3>2
  <2> QED
    BY <1>1, <2>1 DEF OutputsInv
<1> QED
  BY <1>1, <1>3, <1>4, <1>5 DEF CleanInv

(* ... and after every step. *)
LEMMA CleanNext ==
  ASSUME FormInv, CleanInv, [Next]_vars
  PROVE  CleanInv'
<1>1. CASE Again
  BY <1>1, CleanAgain
<1>2. CASE Execute
  <2>1. ASSUME clean'
        PROVE  /\ (FormA /\ CleanA)' \/ (FormB /\ CleanB)'
               /\ StarInv' /\ OutputsInv'
    <3>1. clean
      BY <1>2, <2>1 DEF Execute, ChangeDirectory, HereDocument, FetchExternal, MakeDirectory, Concatenate, Copy,
                        Displace, RunProgram, Loop, Fails
    <3>2. /\ (FormA /\ CleanA) \/ (FormB /\ CleanB)
          /\ StarInv /\ OutputsInv
      BY <3>1 DEF CleanInv
    <3>3. CASE FormA /\ CleanA /\ ~ Loop
      BY <1>2, <2>1, <3>2, <3>3, CleanSimpleA
    <3>4. CASE FormA /\ CleanA /\ Loop
      <4>1. FileLoop(todo[1], Appends, Pattern(calc)) \/ DirLoop(todo[1], Appends)
        BY <1>2, <3>4, OpOf, FirstA DEF FormInv
      <4>2. todo # <<>>
        BY <1>2, OpOf
      <4> QED
        BY <3>2, <3>4, <4>1, <4>2, CleanFileLoop, CleanDirLoop
    <3>5. CASE FormB /\ CleanB
      BY <1>2, <2>1, <3>2, <3>5, CleanStepB
    <3> QED
      BY <3>2, <3>3, <3>4, <3>5
  <2> QED
    BY <2>1 DEF CleanInv
<1>3. CASE UNCHANGED vars
  <2>1. /\ calc' = calc /\ count' = count /\ todo' = todo /\ cwd' = cwd /\ dirs' = dirs /\ files' = files
        /\ pass' = pass /\ clean' = clean
    BY <1>3 DEF vars
  <2>2. Have' = Have
    BY <2>1, HaveSame
  <2>3. (FormA' <=> FormA) /\ (FormB' <=> FormB)
    BY <2>1 DEF FormA, FormB, ScriptCommand, LoopCommand, IsPhonopy, Appends, DirProgram, Items
  <2>4. (CleanA' <=> CleanA) /\ (CleanB' <=> CleanB)
    BY <2>1, <2>2 DEF CleanA, CleanB
  <2>5. (StarInv' <=> StarInv) /\ (OutputsInv => OutputsInv')
    BY <2>1, OutputsSame DEF StarInv, Literal
  <2> QED
    BY <2>1, <2>3, <2>4, <2>5 DEF CleanInv
<1> QED
  BY <1>1, <1>2, <1>3 DEF Next

(* CleanInv has the inputs of a program ... *)
LEMMA InputsIs ==
  ASSUME FormInv, CleanInv
  PROVE  InputsAreThere
<1> SUFFICES ASSUME clean, ~ Literal, todo # <<>>, todo[1].op \in {"program", "phonopy", "cat", "cp"},
                    NEW p \in todo[1].reads
             PROVE  Resolve(p, todo[1].item) \in DOMAIN files
  BY DEF InputsAreThere, Exists
<1> DEFINE c == todo[1]
<1>1. /\ (FormA /\ CleanA) \/ (FormB /\ CleanB)
      /\ StarInv /\ IsSeq(todo) /\ count \in Structures
  BY DEF CleanInv, FormInv
<1>2. 1 \in DOMAIN todo /\ c.op # "for"
  BY <1>1, TailIs
<1>3. c.item # Star
  BY <1>1, <1>2 DEF StarInv
<1>4. CASE FormA /\ CleanA
  <2>1. Simple(c) /\ cwd = Work
    BY <1>1, <1>4, FirstA
  <2>2. Needs(c, count) \subseteq Have
    BY <1>1, <1>4, FirstReady DEF CleanA
  <2> DEFINE f == At(Work, p, c.item)
  <2>3. f \in DOMAIN files
    BY <1>2, <1>3, <2>1, <2>2, ReadsAreFresh
  <2> QED
    BY <2>1, <2>3, ResolveIs
<1>5. CASE FormB /\ CleanB
  <2>1. IsCommand(c) /\ DirProgram(c) /\ c.op = "program"
    BY <1>1, <1>5, FirstB
  <2>2. p.name \in InputNames /\ \A d, i : At(d, p, i) = <<d, p.name, 0>>
    BY <2>1, ProgramPath DEF DirProgram
  <2>3. cwd = c.item /\ <<c.item, p.name, 0>> \in Have
    BY <1>2, <1>3, <1>5, <2>1 DEF CleanB
  <2> DEFINE g == <<c.item, p.name, 0>>
  <2>4. g[2] # ""
    BY <2>2, NamesDiffer
  <2> HIDE DEF g
  <2>5. g \in DOMAIN files
    BY <2>3, <2>4, HaveIs DEF g
  <2>6. Resolve(p, c.item) = At(cwd, p, c.item)
    BY DEF Resolve, At
  <2> QED
    BY <2>2, <2>3, <2>5, <2>6 DEF g
<1> QED
  BY <1>1, <1>4, <1>5

(* ... and the outputs at a clean end. *)
LEMMA EndIs ==
  ASSUME FormInv, CleanInv
  PROVE  CleanEnd
<1> SUFFICES ASSUME clean, todo = <<>>
             PROVE  CleanEnd
  BY DEF CleanEnd, CleanEndComputesAll, CleanEndIsOfThisPass
<1> DEFINE s == Steps[calc]
<1>1. /\ (FormA /\ CleanA) \/ (FormB /\ CleanB)
      /\ OutputsInv /\ count \in Structures /\ calc \in DOMAIN Steps /\ FilesInv
  BY DEF CleanInv, FormInv
<1>2. HasOutputs(s, count) /\ (PhonopyIn(s) <=> IsPhonopy)
  BY <1>1, ScriptReady
<1>3. ASSUME NEW q \in Given(s, count) PROVE q \in Have
  <2>1. DOMAIN todo = {}
    OBVIOUS
  <2>2. CASE CleanA
    BY <1>3, <2>1, <2>2 DEF CleanA, Given
  <2>3. CASE CleanB
    BY <1>3, <2>1, <2>3 DEF CleanB
  <2> QED
    BY <1>1, <2>2, <2>3
<1> HIDE DEF s
<1>4. \A x \in OutputNames : x # ""
  BY DEF OutputNames
<1>5. ASSUME NEW q \in Given(s, count), q[2] \in OutputNames
      PROVE  q \in Outputs /\ q[1] # Star /\ q[3] # Star
  <2>1. q \in DOMAIN files /\ Fresh(q, files[q]) /\ q[1] # Star /\ q[3] # Star
    BY <1>3, <1>4, <1>5, HaveIs
  <2> QED
    BY <1>5, <2>1 DEF Outputs, Fresh
<1>6. ASSUME NEW f \in Outputs, f[1] # Star, f[3] # Star
      PROVE  /\ IsPhonopy => Supercell(f) \in 1..count /\ Computed(f) = {Supercell(f)}
             /\ ~ Appends => \A d \in files[f] : d.pass = pass
  <2>1. f \in DOMAIN files /\ f[2] \in OutputNames /\ Leaves(f) \in files[f]
    BY DEF Outputs
  <2>2. Good(f) /\ (IsPhonopy => Supercell(f) \in 1..count)
    BY <1>1, <1>6, <2>1 DEF OutputsInv
  <2>3. Fresh(f, files[f])
    BY <2>2 DEF Good
  <2>4. ASSUME IsPhonopy PROVE Computed(f) = {Supercell(f)}
    <3>1. Supercell(f) # 0
      BY <1>1, <2>2, <2>4, CountIs
    <3>2. PICK d \in files[f] : d.tag \in Displaced
      BY <2>1, <2>3, <2>4, <3>1 DEF Fresh
    <3>3. \A c \in files[f] : c.tag \in Displaced => c.of = Supercell(f)
      BY <1>1, <2>1 DEF FilesInv, MadeFor
    <3> QED
      BY <3>2, <3>3 DEF Computed, Displaced
  <2>5. ~ Appends => \A d \in files[f] : d.pass = pass
    BY <2>3 DEF Fresh
  <2> QED
    BY <2>2, <2>4, <2>5
<1>7. CleanEndIsOfThisPass
  BY <1>6 DEF CleanEndIsOfThisPass
<1>8. CleanEndComputesAll
  <2>1. CASE IsPhonopy
    <3>1. ASSUME NEW f \in Outputs, f[1] # Star, f[3] # Star
          PROVE  \E i \in 1..count : Computed(f) = {i} /\ i \in {f[1], f[3]}
      <4>1. Supercell(f) \in 1..count /\ Computed(f) = {Supercell(f)}
        BY <1>6, <2>1, <3>1
      <4> QED
        BY <4>1 DEF Supercell
    <3>2. ASSUME NEW i \in 1..count PROVE \E f \in Outputs : Computed(f) = {i}
      <4>1. PICK q \in Given(s, count) : q[2] \in OutputNames /\ Supercell(q) = i
        BY <1>2, <2>1 DEF HasOutputs
      <4>2. q \in Outputs /\ q[1] # Star /\ q[3] # Star
        BY <1>5, <4>1
      <4>3. Computed(q) = {i}
        BY <1>6, <2>1, <4>1, <4>2
      <4> QED
        BY <4>2, <4>3
    <3> QED
      BY <2>1, <3>1, <3>2 DEF CleanEndComputesAll
  <2>2. CASE ~ IsPhonopy
    <3>1. PICK q \in Given(s, count) : q[2] \in OutputNames
      BY <1>2, <2>2 DEF HasOutputs
    <3>2. q \in Outputs
      BY <1>5, <3>1
    <3> QED
      BY <2>2, <3>2 DEF CleanEndComputesAll
  <2> QED
    BY <2>1, <2>2
<1> QED
  BY <1>7, <1>8 DEF CleanEnd

(* As long as nothing failed and nothing literal is left from an earlier   *)
(* execution, phonopy, every program, cat and cp find the files that were  *)
(* written for them.                                                       *)
THEOREM InputsFound == Spec => []InputsAreThere
<1>1. Init => FormInv /\ CleanInv
  BY FormInit, CleanInit
<1>2. FormInv /\ CleanInv /\ [Next]_vars => FormInv' /\ CleanInv'
  BY FormNext, CleanNext
<1>3. FormInv /\ CleanInv => InputsAreThere
  BY InputsIs
<1> QED
  BY <1>1, <1>2, <1>3, PTL DEF Spec

(* An execution that ends without a failure has computed every supercell,  *)
(* and what it leaves is its own, whatever earlier executions left.        *)
THEOREM CleanEndHolds == Spec => []CleanEnd
<1>1. Init => FormInv /\ CleanInv
  BY FormInit, CleanInit
<1>2. FormInv /\ CleanInv /\ [Next]_vars => FormInv' /\ CleanInv'
  BY FormNext, CleanNext
<1>3. FormInv /\ CleanInv => CleanEnd
  BY EndIs
<1> QED
  BY <1>1, <1>2, <1>3, PTL DEF Spec

=============================================================================
