----------------------------- MODULE Cp2kProofs -----------------------------
(***************************************************************************)
(* Proofs about Cp2kSections, for every class, structure file, k-path and  *)
(* every sequence of calls: set_param dereferences no section that is      *)
(* missing unless its path has none, what was set stays set, the structure *)
(* is the one read last, and the k-point sets are the segments of the      *)
(* k-path.  And about Cp2kCli: the same of every command, whose input has  *)
(* what --custom and --custom-file say.                                    *)
(***************************************************************************)
EXTENDS Cp2kCli, RecursionLemmas, SequenceTheorems, FiniteSetTheorems, TLAPS

(* Every section has parameters. *)
IsTree(tree) == \A n \in DOMAIN tree : "params" \in DOMAIN tree[n]

(* The section w[1] has the value v of the parameter w[2]. *)
Holds(tree, w, v) ==
    /\ w[1] \in DOMAIN tree
    /\ w[2] \in DOMAIN tree[w[1]].params
    /\ tree[w[1]].params[w[2]] = v

(* What is wanted of the sections in S is the same in both trees. *)
SameOn(S, tree, new) ==
    \A n \in S : n \in DOMAIN tree =>
        n \in DOMAIN new /\ new[n].params = tree[n].params

NoSection == <<Plain("")>>

-----------------------------------------------------------------------------
(* Paths. *)

\* Every section on the way to a section is on the way, itself included.
LEMMA OwnPrefix ==
    ASSUME NEW path \in Path, path # <<>>
    PROVE  /\ Names(path) \in OnTheWay(Names(path))
           /\ Len(Names(path)) = Len(path)
<1> DEFINE n == Len(path)
<1>1. n \in Nat /\ DOMAIN path = 1..n
  BY DEF Path
<1>2. n >= 1
  BY DEF Path
<1>3. \A i \in 1..n : path[i].name \in Name
  <2> DEFINE S == [name: Name, arg: STRING]
  <2>1. path \in Seq(S)
    BY DEF Path
  <2>2. \A i \in 1..n : path[i] \in S
    <3> HIDE DEF S
    <3> QED
      BY <2>1, ElementOfSeq
  <2> QED
    BY <2>2
<1>4. Names(path) = [i \in 1..n |-> path[i].name]
  BY <1>1 DEF Names
<1>5. Names(path) \in [1..n -> Name]
  BY <1>3, <1>4
<1>6. Names(path) \in Seq(Name) /\ Len(Names(path)) = n
  BY <1>1, <1>5, LenProperties, IsASeq
<1>7. SubSeq(Names(path), 1, Len(Names(path))) = Names(path)
  BY <1>6
<1>8. n \in 1..Len(Names(path))
  BY <1>1, <1>2, <1>6
<1> QED
  BY <1>6, <1>7, <1>8 DEF OnTheWay

\* A sequence of one element has one prefix.
LEMMA Single ==
    ASSUME NEW x
    PROVE  /\ Len(<<x>>) = 1
           /\ OnTheWay(<<x>>) = {<<x>>}
           /\ [i \in DOMAIN <<x>> |-> <<x>>[i]] = <<x>>
<1>1. <<x>> \in Seq({x}) /\ Len(<<x>>) = 1
  OBVIOUS
<1>2. SubSeq(<<x>>, 1, 1) = <<x>>
  BY <1>1, SubSeqFull
<1>3. 1..1 = {1}
  OBVIOUS
<1>4. OnTheWay(<<x>>) = {SubSeq(<<x>>, 1, i) : i \in 1..1}
  BY <1>1 DEF OnTheWay
<1>5. {SubSeq(<<x>>, 1, i) : i \in {1}} = {<<x>>}
  BY <1>2
<1>6. [i \in DOMAIN <<x>> |-> <<x>>[i]] = <<x>>
  OBVIOUS
<1> QED
  BY <1>1, <1>3, <1>4, <1>5, <1>6

\* The section of a path without one is the section with the empty name.
LEMMA EmptyPath ==
    /\ Names(SectionPath(<<>>)) = NoSection
    /\ OnTheWay(NoSection) = {NoSection}
<1> DEFINE x == Plain("")
<1>1. SectionPath(<<>>) = Steps(<<x>>)
  BY DEF SectionPath
<1>2. Names(Steps(<<x>>)) = [i \in DOMAIN <<x>> |-> <<x>>[i]]
  BY DEF Names, Steps
<1> HIDE DEF x
<1>3. Names(Steps(<<x>>)) = <<x>> /\ OnTheWay(<<x>>) = {<<x>>}
  BY <1>2, Single
<1> QED
  BY <1>1, <1>3 DEF x, NoSection

\* What is appended to a path is below it.
LEMMA BelowAppend ==
    ASSUME NEW T, NEW s \in Seq(T), NEW x \in T
    PROVE  Below(s, s) /\ Below(s, Append(s, x))
<1> DEFINE t == Append(s, x)
<1>1. /\ t \in Seq(T)
      /\ Len(t) = Len(s) + 1
      /\ Len(s) \in Nat
      /\ \A i \in 1..Len(s) : t[i] = s[i]
  BY AppendProperties
<1>2. SubSeq(s, 1, Len(s)) = s
  BY SubSeqFull
<1> HIDE DEF t
<1> DEFINE u == SubSeq(t, 1, Len(s))
<1>3. \A i \in 1..Len(s) : t[i] \in T
  BY <1>1, ElementOfSeq
<1>4. u \in Seq(T) /\ Len(u) = Len(s) /\ \A i \in 1..Len(s) : u[i] = t[i]
  BY <1>1, <1>3, SubSeqProperties
<1> HIDE DEF u
<1>5. u = s
  BY <1>1, <1>4, SeqEqual
<1> QED
  BY <1>1, <1>2, <1>5 DEF Below, t, u

\* The sections that set_subsys makes are below subsys; the section with
\* the empty name is not.
LEMMA SubsysParts ==
    /\ Below(Subsys, Subsys)
    /\ Below(Subsys, Cell)
    /\ Below(Subsys, Coord)
    /\ \A e : Below(Subsys, Kind(e))
    /\ ~ Below(Subsys, NoSection)
<1>1. ASSUME NEW x PROVE Below(Subsys, Subsys) /\ Below(Subsys, Append(Subsys, x))
  <2> DEFINE T == {Plain("force_eval"), Plain("subsys"), x}
  <2>1. Subsys \in Seq(T)
    BY DEF Subsys
  <2>2. x \in T
    OBVIOUS
  <2> HIDE DEF T
  <2> QED
    BY <2>1, <2>2, BelowAppend
<1>2. ~ Below(Subsys, NoSection)
  BY DEF Below, Subsys, NoSection
<1> QED
  BY <1>1, <1>2 DEF Cell, Coord, Kind

-----------------------------------------------------------------------------
(* What the operations on trees keep. *)

\* new_section keeps the sections that are there and makes those of the path.
LEMMA NewSectionKeeps ==
    ASSUME NEW tree, IsTree(tree), NEW path
    PROVE  /\ IsTree(NewSection(tree, path))
           /\ SameOn(DOMAIN tree, tree, NewSection(tree, path))
           /\ DOMAIN NewSection(tree, path) = DOMAIN tree \cup OnTheWay(Names(path))
<1> DEFINE D == DOMAIN tree \cup OnTheWay(Names(path))
           new == NewSection(tree, path)
<1>1. new = [n \in D |-> IF n \in DOMAIN tree THEN tree[n] ELSE NewNode(path[Len(n)].arg)]
  BY DEF NewSection
<1>2. DOMAIN new = D
  BY <1>1
<1>3. \A n \in D : new[n] = tree[n] \/ new[n] = NewNode(path[Len(n)].arg)
  BY <1>1
<1>4. \A n \in DOMAIN tree : new[n] = tree[n]
  BY <1>1
<1>5. \A a : "params" \in DOMAIN NewNode(a)
  BY DEF NewNode
<1>6. ASSUME NEW n \in D PROVE "params" \in DOMAIN new[n]
  BY <1>3, <1>4, <1>5, <1>1 DEF IsTree
<1> QED
  BY <1>2, <1>4, <1>6 DEF IsTree, SameOn

\* So does set_param before it goes down the path: it finds every section
\* of a path that has one, and the section "" exists if it has none.
LEMMA PreparedKeeps ==
    ASSUME NEW tree, IsTree(tree), NEW path
    PROVE  /\ IsTree(Prepared(tree, path))
           /\ SameOn(DOMAIN tree, tree, Prepared(tree, path))
           /\ DOMAIN tree \subseteq DOMAIN Prepared(tree, path)
           /\ OnTheWay(Names(SectionPath(path))) \subseteq DOMAIN Prepared(tree, path)
<1>1. CASE ExistsSection(tree, SectionPath(path))
  BY <1>1 DEF Prepared, ExistsSection, SameOn
<1>2. CASE ~ ExistsSection(tree, SectionPath(path))
  <2>1. Prepared(tree, path) = NewSection(tree, SectionPath(path))
    BY <1>2 DEF Prepared
  <2> QED
    BY <2>1, NewSectionKeeps
<1> QED
  BY <1>1, <1>2

\* An argument is no parameter.
LEMMA WithArgumentsKeeps ==
    ASSUME NEW tree, IsTree(tree), NEW path
    PROVE  /\ IsTree(WithArguments(tree, path))
           /\ DOMAIN WithArguments(tree, path) = DOMAIN tree
           /\ SameOn(DOMAIN tree, tree, WithArguments(tree, path))
<1> DEFINE new == WithArguments(tree, path)
<1>1. DOMAIN new = DOMAIN tree
  BY DEF WithArguments
<1>2. ASSUME NEW n \in DOMAIN tree
      PROVE  "params" \in DOMAIN new[n] /\ new[n].params = tree[n].params
  <2>1. new[n] = tree[n] \/ new[n] = [tree[n] EXCEPT !.arg = path[Len(n)].arg]
    BY DEF WithArguments
  <2>2. "params" \in DOMAIN tree[n]
    BY DEF IsTree
  <2> HIDE DEF new
  <2> QED
    BY <2>1, <2>2
<1> HIDE DEF new
<1>3. IsTree(new) /\ SameOn(DOMAIN tree, tree, new)
  BY <1>1, <1>2 DEF IsTree, SameOn
<1> QED
  BY <1>1, <1>3 DEF new

\* A parameter has its new value, the others have theirs.
LEMMA WithParamKeeps ==
    ASSUME NEW tree, IsTree(tree), NEW names \in DOMAIN tree, NEW key, NEW value
    PROVE  /\ IsTree(WithParam(tree, names, key, value))
           /\ DOMAIN WithParam(tree, names, key, value) = DOMAIN tree
           /\ Holds(WithParam(tree, names, key, value), <<names, key>>, value)
           /\ \A n, k, v : (Holds(tree, <<n, k>>, v) /\ <<n, k>> # <<names, key>>) =>
                  Holds(WithParam(tree, names, key, value), <<n, k>>, v)
<1> DEFINE new == WithParam(tree, names, key, value)
           params == Over(One(key, value), tree[names].params)
<1>1. "params" \in DOMAIN tree[names]
  BY DEF IsTree
<1>2. new = [tree EXCEPT ![names] = [tree[names] EXCEPT !.params = params]]
  BY DEF WithParam
<1>3. DOMAIN new = DOMAIN tree
  BY <1>2
<1>4. new[names] = [tree[names] EXCEPT !.params = params]
  BY <1>2
<1>5. DOMAIN new[names] = DOMAIN tree[names] /\ new[names].params = params
  BY <1>1, <1>4
<1>6. \A n \in DOMAIN tree : n # names => new[n] = tree[n]
  BY <1>2
<1>7. /\ DOMAIN params = {key} \cup DOMAIN tree[names].params
      /\ params[key] = value
      /\ \A k \in DOMAIN tree[names].params : k # key => params[k] = tree[names].params[k]
  BY DEF Over, One
<1> HIDE DEF new, params
<1>8. IsTree(new)
  BY <1>1, <1>3, <1>5, <1>6 DEF IsTree
<1>9. Holds(new, <<names, key>>, value)
  BY <1>3, <1>5, <1>7 DEF Holds
<1>10. ASSUME NEW n, NEW k, NEW v, Holds(tree, <<n, k>>, v), <<n, k>> # <<names, key>>
       PROVE  Holds(new, <<n, k>>, v)
  <2>1. n \in DOMAIN tree /\ k \in DOMAIN tree[n].params /\ tree[n].params[k] = v
    BY <1>10 DEF Holds
  <2>2. CASE n # names
    BY <2>1, <2>2, <1>3, <1>6 DEF Holds
  <2>3. CASE n = names /\ k # key
    BY <2>1, <2>3, <1>3, <1>5, <1>7 DEF Holds
  <2> QED
    BY <1>10, <2>2, <2>3
<1> QED
  BY <1>3, <1>8, <1>9, <1>10 DEF new

\* What set_kpoint_set and Neb::run write is all that they change.
LEMMA MergeKeeps ==
    ASSUME NEW tree, IsTree(tree), NEW new
    PROVE  /\ IsTree(Merge(tree, new))
           /\ DOMAIN tree \subseteq DOMAIN Merge(tree, new)
           /\ SameOn(DOMAIN tree \ DOMAIN new, tree, Merge(tree, new))
<1> DEFINE node(n) == IF n \in DOMAIN tree
                      THEN [tree[n] EXCEPT !.params = Over(new[n], tree[n].params)]
                      ELSE [arg |-> "", params |-> new[n]]
           written == [n \in DOMAIN new |-> node(n)]
           merged == Merge(tree, new)
<1>1. merged = Over(written, tree)
  BY DEF Merge
<1>2. /\ DOMAIN written = DOMAIN new
      /\ \A n \in DOMAIN new : written[n] = node(n)
  OBVIOUS
<1>3. ASSUME NEW n \in DOMAIN new
      PROVE  "params" \in DOMAIN node(n)
  <2>1. CASE n \in DOMAIN tree
    <3>1. "params" \in DOMAIN tree[n]
      BY <2>1 DEF IsTree
    <3>2. DOMAIN node(n) = DOMAIN tree[n]
      BY <2>1
    <3> QED
      BY <3>1, <3>2
  <2>2. CASE n \notin DOMAIN tree
    BY <2>2
  <2> QED
    BY <2>1, <2>2
<1> HIDE DEF node
<1>4. \A n \in DOMAIN new : "params" \in DOMAIN written[n]
  BY <1>2, <1>3
<1> HIDE DEF written
<1>5. /\ DOMAIN merged = DOMAIN new \cup DOMAIN tree
      /\ \A n \in DOMAIN new : merged[n] = written[n]
      /\ \A n \in DOMAIN tree \ DOMAIN new : merged[n] = tree[n]
  BY <1>1, <1>2 DEF Over
<1> HIDE DEF merged
<1>6. IsTree(merged)
  BY <1>4, <1>5 DEF IsTree
<1>7. SameOn(DOMAIN tree \ DOMAIN new, tree, merged)
  BY <1>5 DEF SameOn
<1> QED
  BY <1>5, <1>6, <1>7 DEF merged

\* get_xyz leaves alone what is not below subsys.
LEMMA WithSubsysKeeps ==
    ASSUME NEW tree, IsTree(tree), NEW file, NEW species
    PROVE  /\ IsTree(WithSubsys(tree, file, species))
           /\ Outside(tree, Subsys) \subseteq DOMAIN WithSubsys(tree, file, species)
           /\ SameOn(Outside(tree, Subsys), tree, WithSubsys(tree, file, species))
<1> DEFINE new == WithSubsys(tree, file, species)
           D == Outside(tree, Subsys) \cup {Subsys, Cell, Coord} \cup {Kind(e) : e \in species}
           kind(n) == KindNode(n[3][2][1])
           coord == [arg |-> "", params |-> One("atoms", file)]
<1>1. new = [n \in D |-> IF n \in Outside(tree, Subsys) THEN tree[n]
                         ELSE IF n = Coord THEN coord
                         ELSE IF n \in {Subsys, Cell} THEN NewNode("")
                         ELSE kind(n)]
  BY DEF WithSubsys
<1>2. "params" \in DOMAIN coord
  OBVIOUS
<1>3. \A n : "params" \in DOMAIN kind(n)
  BY DEF KindNode
<1>4. "params" \in DOMAIN NewNode("")
  BY DEF NewNode
<1>5. \A n \in Outside(tree, Subsys) : n \in DOMAIN tree /\ "params" \in DOMAIN tree[n]
  BY DEF Outside, IsTree
<1> HIDE DEF kind, coord, D
<1>6. DOMAIN new = D /\ \A n \in D : "params" \in DOMAIN new[n]
  BY <1>1, <1>2, <1>3, <1>4, <1>5
<1>7. Outside(tree, Subsys) \subseteq D
  BY DEF D
<1>8. \A n \in Outside(tree, Subsys) : new[n] = tree[n]
  BY <1>1, <1>7
<1> HIDE DEF new
<1>9. IsTree(new) /\ SameOn(Outside(tree, Subsys), tree, new)
  BY <1>6, <1>7, <1>8 DEF IsTree, SameOn
<1> QED
  BY <1>6, <1>7, <1>9 DEF new

-----------------------------------------------------------------------------
(* The inductive invariant: what is wanted is known by a section and a     *)
(* key, and the section has it.                                            *)
KeptInv ==
    /\ IsTree(sections)
    /\ \A w \in DOMAIN wanted : w = <<w[1], w[2]>> /\ Holds(sections, w, wanted[w])

CrashInv == kpaths \in Seq(Kpaths) /\ CrashNeedsCause

\* A call keeps the invariant that forgets what was wanted of the sections
\* it writes and leaves the other ones alone.
LEMMA ForgetKeeps ==
    ASSUME KeptInv, NEW S, IsTree(sections'), wanted' = WantedOutside(S),
           SameOn(DOMAIN sections \ S, sections, sections')
    PROVE  KeptInv'
<1>1. /\ DOMAIN wanted' = {w \in DOMAIN wanted : w[1] \notin S}
      /\ \A w \in DOMAIN wanted' : wanted'[w] = wanted[w]
  BY DEF WantedOutside
<1>2. ASSUME NEW w \in DOMAIN wanted'
      PROVE  w = <<w[1], w[2]>> /\ Holds(sections', w, wanted'[w])
  <2>1. w \in DOMAIN wanted /\ w[1] \notin S /\ wanted'[w] = wanted[w]
    BY <1>1
  <2>2. w = <<w[1], w[2]>> /\ Holds(sections, w, wanted[w])
    BY <2>1 DEF KeptInv
  <2>3. w[1] \in DOMAIN sections \ S /\ w[1] \in DOMAIN sections
    BY <2>1, <2>2 DEF Holds
  <2>4. w[1] \in DOMAIN sections' /\ sections'[w[1]].params = sections[w[1]].params
    BY <2>3 DEF SameOn
  <2> QED
    BY <2>1, <2>2, <2>4 DEF Holds
<1> QED
  BY <1>2 DEF KeptInv

LEMMA MakeSectionKeeps ==
    ASSUME KeptInv, NEW path, MakeSection(path)
    PROVE  KeptInv'
<1>1. sections' = NewSection(sections, path) /\ wanted' = wanted
  BY DEF MakeSection, history
<1>2. IsTree(sections') /\ SameOn(DOMAIN sections, sections, sections')
  BY <1>1, NewSectionKeeps DEF KeptInv
<1>3. ASSUME NEW w \in DOMAIN wanted
      PROVE  w = <<w[1], w[2]>> /\ Holds(sections', w, wanted[w])
  BY <1>2 DEF KeptInv, Holds, SameOn
<1> QED
  BY <1>1, <1>2, <1>3 DEF KeptInv

LEMMA SetParamKeeps ==
    ASSUME KeptInv, NEW path \in Path, NEW key, NEW value, SetParam(path, key, value)
    PROVE  KeptInv'
<1> DEFINE prepared == Prepared(sections, path)
           argued == WithArguments(prepared, path)
<1>1. /\ IsTree(prepared)
      /\ SameOn(DOMAIN sections, sections, prepared)
      /\ DOMAIN sections \subseteq DOMAIN prepared
      /\ OnTheWay(Names(SectionPath(path))) \subseteq DOMAIN prepared
  BY PreparedKeeps DEF KeptInv
<1>2. CASE sections' = prepared /\ wanted' = wanted
  <2>1. ASSUME NEW w \in DOMAIN wanted
        PROVE  w = <<w[1], w[2]>> /\ Holds(sections', w, wanted[w])
    <3> HIDE DEF prepared
    <3> QED
      BY <1>1, <1>2 DEF KeptInv, Holds, SameOn
  <2> QED
    BY <1>1, <1>2, <2>1 DEF KeptInv
<1>3. CASE /\ path # <<>>
           /\ sections' = SetParamAt(sections, path, key, value)
           /\ wanted' = Over(One(<<Names(path), key>>, value), wanted)
  <2> DEFINE names == Names(path)
  <2>1. IsTree(argued) /\ DOMAIN argued = DOMAIN prepared /\ SameOn(DOMAIN prepared, prepared, argued)
    BY <1>1, WithArgumentsKeeps
  <2>2. names \in DOMAIN prepared
    BY <1>1, <1>3, OwnPrefix DEF SectionPath
  <2>3. sections' = WithParam(argued, names, key, value)
    BY <1>3 DEF SetParamAt
  <2> HIDE DEF argued, prepared, names
  <2>4. /\ IsTree(sections')
        /\ Holds(sections', <<names, key>>, value)
        /\ \A n, k, v : (Holds(argued, <<n, k>>, v) /\ <<n, k>> # <<names, key>>) =>
               Holds(sections', <<n, k>>, v)
    BY <2>1, <2>2, <2>3, WithParamKeeps
  <2>5. /\ DOMAIN wanted' = {<<names, key>>} \cup DOMAIN wanted
        /\ wanted'[<<names, key>>] = value
        /\ \A w \in DOMAIN wanted : w # <<names, key>> => wanted'[w] = wanted[w]
    BY <1>3 DEF Over, One, names
  <2>6. ASSUME NEW w \in DOMAIN wanted, w # <<names, key>>
        PROVE  w = <<w[1], w[2]>> /\ Holds(sections', w, wanted'[w])
    <3>1. w = <<w[1], w[2]>> /\ Holds(sections, w, wanted[w])
      BY DEF KeptInv
    <3>2. Holds(argued, w, wanted[w])
      BY <3>1, <1>1, <2>1 DEF Holds, SameOn
    <3> QED
      BY <2>4, <2>5, <2>6, <3>1, <3>2
  <2>7. ASSUME NEW w \in DOMAIN wanted', w = <<names, key>>
        PROVE  w = <<w[1], w[2]>> /\ Holds(sections', w, wanted'[w])
    BY <2>4, <2>5, <2>7
  <2> QED
    BY <2>4, <2>5, <2>6, <2>7 DEF KeptInv
<1> QED
  BY <1>2, <1>3 DEF SetParam

LEMMA GetXyzKeeps ==
    ASSUME KeptInv, NEW file, GetXyz(file)
    PROVE  KeptInv'
<1> DEFINE S == {w[1] : w \in {w \in DOMAIN wanted : Below(Subsys, w[1])}}
<1>1. sections' = WithSubsys(sections, file, elements') /\ wanted' = WantedOutside(S)
  BY DEF GetXyz
<1>2. IsTree(sections') /\ SameOn(Outside(sections, Subsys), sections, sections')
  BY <1>1, WithSubsysKeeps DEF KeptInv
<1>3. ASSUME NEW w \in DOMAIN wanted'
      PROVE  w = <<w[1], w[2]>> /\ Holds(sections', w, wanted'[w])
  <2>1. w \in DOMAIN wanted /\ w[1] \notin S /\ wanted'[w] = wanted[w]
    <3> HIDE DEF S
    <3> QED
      BY <1>1 DEF WantedOutside
  <2>2. w = <<w[1], w[2]>> /\ Holds(sections, w, wanted[w])
    BY <2>1 DEF KeptInv
  <2>3. w[1] \in Outside(sections, Subsys)
    BY <2>1, <2>2 DEF Outside, Holds
  <2>4. w[1] \in DOMAIN sections' /\ sections'[w[1]].params = sections[w[1]].params
    BY <1>2, <2>3 DEF SameOn, Outside
  <2> QED
    BY <2>1, <2>2, <2>4 DEF Holds
<1> QED
  BY <1>2, <1>3 DEF KeptInv

\* What is made and then merged keeps all but the merged sections.
LEMMA NewMergeKeeps ==
    ASSUME KeptInv, NEW path, NEW new
    PROVE  /\ IsTree(Merge(NewSection(sections, path), new))
           /\ DOMAIN sections \subseteq DOMAIN Merge(NewSection(sections, path), new)
           /\ SameOn(DOMAIN sections \ DOMAIN new, sections, Merge(NewSection(sections, path), new))
<1> DEFINE made == NewSection(sections, path)
<1>1. /\ IsTree(made)
      /\ SameOn(DOMAIN sections, sections, made)
      /\ DOMAIN sections \subseteq DOMAIN made
  BY NewSectionKeeps DEF KeptInv
<1> HIDE DEF made
<1>2. /\ IsTree(Merge(made, new))
      /\ DOMAIN made \subseteq DOMAIN Merge(made, new)
      /\ SameOn(DOMAIN made \ DOMAIN new, made, Merge(made, new))
  BY <1>1, MergeKeeps
<1>3. SameOn(DOMAIN sections \ DOMAIN new, sections, Merge(made, new))
  BY <1>1, <1>2 DEF SameOn
<1> QED
  BY <1>1, <1>2, <1>3 DEF made

LEMMA SetKpointSetKeeps ==
    ASSUME KeptInv, NEW k, SetKpointSet(k)
    PROVE  KeptInv'
<1> DEFINE S == {KpointSet(Number(k, i)) : i \in Joined(k)}
           new == [names \in S |->
                      Segment(k, CHOOSE i \in Joined(k) : KpointSet(Number(k, i)) = names)]
<1>1. wanted' = WantedOutside(S) /\ sections' \in {sections, WithKpath(sections, k)}
  BY DEF SetKpointSet
<1>2. WithKpath(sections, k) = Merge(NewSection(sections, Steps(BandStructure)), new)
  BY DEF WithKpath
<1>3. DOMAIN new = S
  OBVIOUS
<1> HIDE DEF S, new
<1>4. CASE sections' = sections
  BY <1>1, <1>4, ForgetKeeps DEF KeptInv, SameOn
<1>5. CASE sections' = WithKpath(sections, k)
  <2>1. IsTree(sections') /\ SameOn(DOMAIN sections \ S, sections, sections')
    BY <1>2, <1>3, <1>5, NewMergeKeeps
  <2> QED
    BY <1>1, <2>1, ForgetKeeps
<1> QED
  BY <1>1, <1>4, <1>5

LEMMA RunKeeps ==
    ASSUME KeptInv, Run
    PROVE  KeptInv'
<1> DEFINE S == {Replica(i - 1) : i \in DOMAIN images}
           new == [names \in S |-> [coord_file_name |-> <<images[names[3][2][1] + 1]>>]]
<1>1. wanted' = WantedOutside(S) /\ sections' \in {sections, WithReplicas(sections, images)}
  BY DEF Run
<1>2. WithReplicas(sections, images) = Merge(NewSection(sections, Steps(Band)), new)
  BY DEF WithReplicas
<1>3. DOMAIN new = S
  OBVIOUS
<1> HIDE DEF S, new
<1>4. CASE sections' = sections
  BY <1>1, <1>4, ForgetKeeps DEF KeptInv, SameOn
<1>5. CASE sections' = WithReplicas(sections, images)
  <2>1. IsTree(sections') /\ SameOn(DOMAIN sections \ S, sections, sections')
    BY <1>2, <1>3, <1>5, NewMergeKeeps
  <2> QED
    BY <1>1, <2>1, ForgetKeeps
<1> QED
  BY <1>1, <1>4, <1>5

\* A constructor wants what it sets.
LEMMA KeptInit == Init => KeptInv
<1> SUFFICES ASSUME Init PROVE KeptInv
  OBVIOUS
<1> DEFINE set == Settings[class]
           keyed == {e \in set : e.key # ""}
           D == UNION {OnTheWay(Names(e.path)) : e \in set}
           given(names) == {e.path[Len(names)].arg : e \in {e \in set : names \in OnTheWay(Names(e.path))}} \ {""}
           params(names) == [k \in {e.key : e \in {e \in set : Names(e.path) = names /\ e.key # ""}} |->
                                <<"class">>]
           arg(names) == IF given(names) = {} THEN "" ELSE CHOOSE a \in given(names) : TRUE
<1>1. sections = [names \in D |-> [arg |-> arg(names), params |-> params(names)]]
  BY DEF Init, Constructed
<1>2. wanted = [w \in {<<Names(e.path), e.key>> : e \in keyed} |-> <<"class">>]
  BY DEF Init
<1>3. \A e \in set : e.path \in Path /\ e.path # <<>>
  BY Cp2kAssumption DEF Init
<1>4. \A e \in set : Names(e.path) \in D
  BY <1>3, OwnPrefix
<1>5. \A e \in keyed : e \in set /\ e.key \in DOMAIN params(Names(e.path))
  OBVIOUS
<1>6. \A names : \A k \in DOMAIN params(names) : params(names)[k] = <<"class">>
  OBVIOUS
<1> HIDE DEF set, arg, params, D, keyed
<1>7. DOMAIN sections = D /\ \A names \in D : sections[names] = [arg |-> arg(names), params |-> params(names)]
  BY <1>1
<1>8. IsTree(sections) /\ \A names \in D : sections[names].params = params(names)
  BY <1>7 DEF IsTree
<1>9. ASSUME NEW w \in DOMAIN wanted
      PROVE  w = <<w[1], w[2]>> /\ Holds(sections, w, wanted[w])
  <2>1. PICK e \in keyed : w = <<Names(e.path), e.key>>
    BY <1>2
  <2>2. wanted[w] = <<"class">>
    BY <1>2
  <2>3. w = <<w[1], w[2]>> /\ w[1] = Names(e.path) /\ w[2] = e.key
    BY <2>1
  <2> QED
    BY <1>4, <1>5, <1>6, <1>7, <1>8, <2>2, <2>3 DEF Holds
<1> QED
  BY <1>8, <1>9 DEF KeptInv

(* Any call, with a path that is one of paths: what the theorems say of a  *)
(* script and of a command follows from what such calls do.                *)
AnyCall(paths) ==
    \/ \E path \in paths : MakeSection(path)
    \/ \E path \in paths : \E key, value : SetParam(path, key, value)
    \/ \E file \in Structures : GetXyz(file)
    \/ \E k \in Kpaths : SetKpointSet(k)
    \/ \E files \in ImageLists : SetImages(files)
    \/ Run

\* The paths of Next are paths, and leave alone what they are said to.
LEMMA EntryPaths ==
    /\ <<>> \in Path /\ LeavesKpoints(<<>>) /\ LeavesStructure(<<>>)
    /\ \A path \in GivenPaths : path \in Path /\ path # <<>>
    /\ \A e \in Entries : e.path \in GivenPaths
    /\ \A c \in DOMAIN Settings : \A e \in Settings[c] : e.path \in GivenPaths
<1>1. \A S : <<>> \in Seq(S)
  BY EmptySeq
<1>2. <<>> \in Path /\ DOMAIN <<>> = {}
  BY <1>1 DEF Path
<1>3. LeavesKpoints(<<>>) /\ LeavesStructure(<<>>)
  BY <1>2 DEF LeavesKpoints, LeavesStructure
<1>4. ASSUME NEW path \in GivenPaths PROVE path \in Path /\ path # <<>>
  <2>1. CASE \E e \in Entries : path = e.path
    BY <2>1, Cp2kAssumption
  <2>2. CASE \E c \in DOMAIN Settings : \E e \in Settings[c] : path = e.path
    BY <2>2, Cp2kAssumption
  <2> QED
    BY <2>1, <2>2 DEF GivenPaths
<1>5. \A e \in Entries : e.path \in GivenPaths
  BY DEF GivenPaths
<1>6. ASSUME NEW c \in DOMAIN Settings, NEW e \in Settings[c] PROVE e.path \in GivenPaths
  <2>1. e.path \in {x.path : x \in Settings[c]}
    OBVIOUS
  <2> QED
    BY <2>1 DEF GivenPaths
<1> QED
  BY <1>2, <1>3, <1>4, <1>5, <1>6

LEMMA NextIsAnyCall == \A S : GivenPaths \cup {<<>>} \subseteq S => (Next => AnyCall(S))
<1> SUFFICES ASSUME NEW S, GivenPaths \cup {<<>>} \subseteq S, Next PROVE AnyCall(S)
  OBVIOUS
<1>1. CASE \E e \in Entries : MakeSection(e.path)
  BY <1>1, EntryPaths DEF AnyCall
<1>2. CASE \E e \in Entries, v \in Values : SetParam(e.path, e.key, v)
  BY <1>2, EntryPaths DEF AnyCall
<1>3. CASE \E k \in Shorts, v \in Values : SetParam(<<>>, k, v)
  BY <1>3 DEF AnyCall
<1> QED
  BY <1>1, <1>2, <1>3 DEF Next, AnyCall

LEMMA KeptNext == KeptInv /\ [AnyCall(Path)]_vars => KeptInv'
<1> SUFFICES ASSUME KeptInv, [AnyCall(Path)]_vars PROVE KeptInv'
  OBVIOUS
<1>1. CASE \E path \in Path : MakeSection(path)
  BY <1>1, MakeSectionKeeps
<1>2. CASE \E path \in Path : \E key, value : SetParam(path, key, value)
  BY <1>2, SetParamKeeps
<1>3. CASE \E file \in Structures : GetXyz(file)
  BY <1>3, GetXyzKeeps
<1>4. CASE \E k \in Kpaths : SetKpointSet(k)
  BY <1>4, SetKpointSetKeeps
<1>5. CASE \E files \in ImageLists : SetImages(files)
  BY <1>5 DEF SetImages, history, KeptInv
<1>6. CASE Run
  BY <1>6, RunKeeps
<1>7. CASE UNCHANGED vars
  BY <1>7 DEF vars, history, KeptInv
<1> QED
  BY <1>1, <1>2, <1>3, <1>4, <1>5, <1>6, <1>7 DEF AnyCall

-----------------------------------------------------------------------------
\* set_param finds every section of a path that has one.
LEMMA SetParamCrash ==
    ASSUME CrashInv, NEW path \in Path, NEW key, NEW value, SetParam(path, key, value),
           IsTree(sections)
    PROVE  CrashInv'
<1>1. kpaths' = kpaths
  BY DEF SetParam
<1>2. OnTheWay(Names(SectionPath(path))) \subseteq DOMAIN Prepared(sections, path)
  BY PreparedKeeps
<1>3. CASE path = <<>>
  <2>1. sections' = Prepared(sections, path)
    BY <1>3 DEF SetParam
  <2>2. NoSection \in DOMAIN sections'
    BY <1>2, <1>3, <2>1, EmptyPath
  <2> QED
    BY <1>1, <2>2 DEF CrashInv, CrashNeedsCause, NoSection
<1>4. CASE path # <<>>
  <2>1. Visited(path, key) \subseteq DOMAIN Prepared(sections, path)
    BY <1>2, <1>4 DEF Visited, SectionPath
  <2>2. crashed' = FALSE
    BY <2>1 DEF SetParam
  <2> QED
    BY <1>1, <2>2 DEF CrashInv, CrashNeedsCause
<1> QED
  BY <1>3, <1>4

\* set_kpoint_set leaves its k-path only when that is empty.
LEMMA SetKpointSetCrash ==
    ASSUME CrashInv, NEW k \in Kpaths, SetKpointSet(k)
    PROVE  CrashInv'
<1>1. kpaths' = Append(kpaths, k) /\ crashed' = (k = <<>>) /\ kpaths \in Seq(Kpaths)
  BY DEF SetKpointSet, CrashInv
<1>2. kpaths' \in Seq(Kpaths) /\ Len(kpaths') = Len(kpaths) + 1 /\ kpaths'[Len(kpaths) + 1] = k
  BY <1>1, AppendProperties
<1>3. Len(kpaths) + 1 \in DOMAIN kpaths'
  BY <1>1, <1>2
<1> QED
  BY <1>1, <1>2, <1>3 DEF CrashInv, CrashNeedsCause

LEMMA CrashNext == KeptInv /\ CrashInv /\ [AnyCall(Path)]_vars => CrashInv'
<1> SUFFICES ASSUME KeptInv, CrashInv, [AnyCall(Path)]_vars PROVE CrashInv'
  OBVIOUS
<1>0. ASSUME ~ crashed, crashed' = crashed, kpaths' = kpaths PROVE CrashInv'
  BY <1>0 DEF CrashInv, CrashNeedsCause
<1>1. CASE \E path \in Path : MakeSection(path)
  BY <1>0, <1>1 DEF MakeSection, Call, history
<1>2. CASE \E path \in Path : \E key, value : SetParam(path, key, value)
  BY <1>2, SetParamCrash DEF KeptInv
<1>3. CASE \E file \in Structures : GetXyz(file)
  BY <1>0, <1>3 DEF GetXyz, Call
<1>4. CASE \E k \in Kpaths : SetKpointSet(k)
  BY <1>4, SetKpointSetCrash
<1>5. CASE \E files \in ImageLists : SetImages(files)
  BY <1>0, <1>5 DEF SetImages, Call, history
<1>6. CASE Run
  BY <1>0, <1>6 DEF Run, Call
<1>7. CASE UNCHANGED vars
  BY <1>7 DEF vars, history, CrashInv, CrashNeedsCause
<1> QED
  BY <1>1, <1>2, <1>3, <1>4, <1>5, <1>6, <1>7 DEF AnyCall

-----------------------------------------------------------------------------
(* The k-point sets. *)

(* What a segment sets. *)
SegmentKeys == {"special_point_0", "special_point_1", "npoints"}

\* The numbers of a set in order, and how many come before each.
LEMMA NumbersInOrder ==
  ASSUME NEW m \in Nat, NEW J \in SUBSET (1..m)
  PROVE  LET points == Only([i \in 1..m |-> i], J)
         IN  /\ points \in Seq(Nat)
             /\ \A n \in 1..Len(points) : Cardinality({j \in J : j < points[n]}) = n - 1
             /\ {points[n] : n \in 1..Len(points)} = J
<1> DEFINE upTo(i) == [j \in 1..i |-> j]
           points(i) == Only(upTo(i), J)
           below(i) == {j \in J : j < i}
           I == {i \in 0..m : /\ Len(points(i)) = Cardinality(below(i + 1))
                              /\ \A n \in 1..Len(points(i)) :
                                     Cardinality(below(points(i)[n])) = n - 1}
<1>1. \A i \in 0..m : upTo(i) \in Seq(Nat)
  OBVIOUS
<1>2. upTo(0) = <<>> /\ \A i \in 1..m : upTo(i) = Append(upTo(i - 1), i)
  OBVIOUS
<1>3. IsFiniteSet(J)
  <2>1. IsFiniteSet(1..m)
    BY FS_Interval
  <2> QED
    BY <2>1, FS_Subset
<1>0. \A j \in J : j \in Nat /\ j >= 1
  OBVIOUS
<1>4. \A i : IsFiniteSet(below(i))
  BY <1>3, FS_Subset
<1> HIDE DEF upTo
<1>5. points(0) = <<>>
  BY <1>2, OnlyEmpty
<1>6. 0 \in I
  <2>1. below(0 + 1) = {}
    <3>1. \A j \in J : ~ (j < 0 + 1)
      BY <1>0
    <3> QED
      BY <3>1
  <2>2. Cardinality({}) = 0
    BY FS_EmptySet
  <2>3. Len(points(0)) = 0
    BY <1>5
  <2> HIDE DEF points, below
  <2>4. \A n \in 1..Len(points(0)) : FALSE
    BY <2>3
  <2>5. 0 \in 0..m
    OBVIOUS
  <2>6. Len(points(0)) = Cardinality(below(0 + 1))
    BY <2>1, <2>2, <2>3
  <2> QED
    BY <2>4, <2>5, <2>6
<1>7. ASSUME NEW i \in 1..m, i - 1 \in I PROVE i \in I
  <2> DEFINE p == points(i - 1)
  <2>1. /\ p \in Seq(Nat)
        /\ points(i) = IF i \in J THEN Append(p, i) ELSE p
    <3> DEFINE u == upTo(i - 1)
    <3>0. i - 1 \in 0..m /\ i \in Nat
      OBVIOUS
    <3>1. u \in Seq(Nat) /\ upTo(i) = Append(u, i)
      BY <3>0, <1>1, <1>2
    <3>2. /\ Only(u, J) \in Seq(Nat)
          /\ Only(Append(u, i), J) = IF i \in J THEN Append(Only(u, J), i) ELSE Only(u, J)
      <4> DEFINE N == Nat
      <4>1. u \in Seq(N) /\ i \in N
        BY <3>0, <3>1
      <4> HIDE DEF u, N, points, below, I
      <4>2. /\ Only(u, J) \in Seq(N)
            /\ Only(Append(u, i), J) = IF i \in J THEN Append(Only(u, J), i) ELSE Only(u, J)
        BY <4>1, OnlyAppend
      <4> QED
        BY <4>2 DEF N
    <3> HIDE DEF u
    <3> QED
      BY <3>1, <3>2 DEF u, points
  <2>2. /\ Len(p) = Cardinality(below(i))
        /\ \A n \in 1..Len(p) : Cardinality(below(p[n])) = n - 1
    BY <1>7
  <2>3. below(i + 1) = IF i \in J THEN below(i) \cup {i} ELSE below(i)
    <3>1. \A j \in J : j < i + 1 <=> j < i \/ j = i
      BY <1>0
    <3> QED
      BY <3>1
  <2>4. i \notin below(i)
    OBVIOUS
  <2> HIDE DEF points, below
  <2>5. CASE i \in J
    <3>1. Cardinality(below(i) \cup {i}) = Cardinality(below(i)) + 1
      BY <1>4, <2>4, FS_AddElement
    <3> DEFINE q == Append(p, i)
    <3> HIDE DEF p
    <3>2. /\ Len(q) = Len(p) + 1 /\ Len(p) \in Nat /\ q[Len(p) + 1] = i
          /\ \A n \in 1..Len(p) : q[n] = p[n]
      BY <2>1
    <3> HIDE DEF q
    <3>3. points(i) = q
      BY <2>1, <2>5 DEF q
    <3>4. Len(q) = Cardinality(below(i + 1))
      BY <2>2, <2>3, <2>5, <3>1, <3>2
    <3>5. \A n \in 1..Len(q) : n = Len(p) + 1 \/ n \in 1..Len(p)
      BY <3>2
    <3>6. ASSUME NEW n \in 1..Len(q) PROVE Cardinality(below(q[n])) = n - 1
      <4>1. CASE n = Len(p) + 1
        BY <2>2, <3>2, <4>1
      <4>2. CASE n \in 1..Len(p)
        BY <2>2, <3>2, <4>2
      <4> QED
        BY <3>5, <4>1, <4>2
    <3> QED
      BY <3>3, <3>4, <3>6
  <2>6. CASE i \notin J
    <3> HIDE DEF p
    <3>1. points(i) = p /\ below(i + 1) = below(i)
      BY <2>1, <2>3, <2>6
    <3> QED
      BY <2>2, <3>1
  <2> QED
    BY <2>5, <2>6
<1>8. m \in I
  <2> HIDE DEF I
  <2>1. m \in 0..m
    OBVIOUS
  <2> QED
    BY <1>6, <1>7, <2>1, InductionUpTo
<1>9. points(m) \in Seq(Nat)
  BY <1>1, OnlyTyped
<1>10. {points(m)[n] : n \in 1..Len(points(m))} = J
  <2> DEFINE u == upTo(m)
             p == points(m)
  <2>1. u \in Seq(Nat) /\ Range(u) = 1..m
    <3>1. Range(u) = 1..m
      BY DEF upTo, Range
    <3> QED
      BY <1>1, <3>1
  <2> HIDE DEF u
  <2>2. Range(Only(u, J)) = Range(u) \cap J
    BY <2>1, OnlyHas
  <2>3. Range(p) = J
    BY <2>1, <2>2 DEF u
  <2> HIDE DEF p
  <2>4. Range(p) = {p[n] : n \in 1..Len(p)}
    BY <1>9 DEF Range, p
  <2> QED
    BY <2>3, <2>4 DEF p
<1> QED
  BY <1>8, <1>9, <1>10 DEF upTo

\* The name of a k-point set tells its number.
LEMMA KpointSetIs ==
  ASSUME NEW n
  PROVE  /\ Len(KpointSet(n)) = 5
         /\ KpointSet(n)[2] = Plain("dft")
         /\ KpointSet(n)[5] = Indexed("kpoint_set", n)
  BY DEF KpointSet, BandStructure

LEMMA KpointSetsDiffer ==
  ASSUME NEW m, NEW n, KpointSet(m) = KpointSet(n)
  PROVE  m = n
<1>1. Indexed("kpoint_set", m) = Indexed("kpoint_set", n)
  BY KpointSetIs
<1> QED
  BY <1>1 DEF Indexed

\* A way to a k-point set names it.
LEMMA WayToKpoints ==
  ASSUME NEW T, NEW names \in Seq(T), NEW n, KpointSet(n) \in OnTheWay(names)
  PROVE  Len(names) >= 5 /\ names[5] = Indexed("kpoint_set", n)
<1>1. PICK i \in 1..Len(names) : KpointSet(n) = SubSeq(names, 1, i)
  BY DEF OnTheWay
<1>2. Len(SubSeq(names, 1, i)) = i /\ SubSeq(names, 1, i)[i] = names[i]
  OBVIOUS
<1> QED
  BY <1>1, <1>2, KpointSetIs

LEMMA NoWayToKpoints ==
  ASSUME NEW path \in Path, LeavesKpoints(path), NEW n
  PROVE  KpointSet(n) \notin OnTheWay(Names(path))
<1> DEFINE names == Names(path)
           S == [name: Name, arg: STRING]
<1>1. path \in Seq(S) /\ Len(path) \in Nat /\ DOMAIN path = 1..Len(path)
  BY DEF Path
<1>2. /\ names \in Seq(Name) /\ Len(names) = Len(path)
      /\ \A i \in 1..Len(path) : names[i] = path[i].name
  <2>1. \A i \in 1..Len(path) : path[i] \in S
    <3> HIDE DEF S
    <3> QED
      BY <1>1, ElementOfSeq
  <2>2. \A i \in 1..Len(path) : path[i].name \in Name
    BY <2>1
  <2>3. names = [i \in 1..Len(path) |-> path[i].name]
    BY <1>1 DEF Names
  <2>4. names \in [1..Len(path) -> Name]
    BY <2>2, <2>3
  <2> HIDE DEF S
  <2>5. names \in Seq(Name) /\ Len(names) = Len(path)
    BY <1>1, <2>4, LenProperties, IsASeq
  <2> QED
    BY <2>3, <2>5
<1> HIDE DEF names, S
<1>3. KpointSet(n) \in OnTheWay(names) => names[5][1] = "kpoint_set" /\ 5 \in 1..Len(path)
  <2>1. KpointSet(n) \in OnTheWay(names) => Len(names) >= 5 /\ names[5] = Indexed("kpoint_set", n)
    BY <1>2, WayToKpoints
  <2> QED
    BY <1>1, <1>2, <2>1 DEF Indexed
<1> QED
  BY <1>1, <1>2, <1>3 DEF LeavesKpoints, names

\* Nor is it one of the sections the class writes otherwise.
LEMMA OtherSections ==
  ASSUME NEW n
  PROVE  /\ KpointSet(n) \notin OnTheWay(NoSection)
         /\ KpointSet(n) \notin OnTheWay(Names(Steps(Band)))
         /\ KpointSet(n) \notin OnTheWay(Names(Steps(BandStructure)))
         /\ \A i : KpointSet(n) # Replica(i)
         /\ ~ Below(Subsys, KpointSet(n))
         /\ KpointSet(n) \notin {Subsys, Cell, Coord}
         /\ \A e : KpointSet(n) # Kind(e)
<1>1. KpointSet(n) \notin OnTheWay(NoSection)
  <2>1. Len(NoSection) = 1
    BY DEF NoSection
  <2> QED
    BY <2>1, EmptyPath, KpointSetIs
<1>2. ASSUME NEW p, p \in {Band, BandStructure}
      PROVE  KpointSet(n) \notin OnTheWay(Names(Steps(p)))
  <2> DEFINE T == {Plain("motion"), Plain("band"), Plain("force_eval"), Plain("dft"),
                   Plain("print"), Plain("band_structure")}
  <2>1. p \in Seq(T) /\ Len(p) < 5
    <3>1. CASE p = Band
      BY <3>1 DEF Band
    <3>2. CASE p = BandStructure
      BY <3>2 DEF BandStructure
    <3> QED
      BY <1>2, <3>1, <3>2
  <2> HIDE DEF T
  <2>2. Names(Steps(p)) = p
    BY <2>1 DEF Names, Steps
  <2>3. Len(p) \in Nat
    BY <2>1
  <2> QED
    BY <2>1, <2>2, <2>3, WayToKpoints
<1>3. \A i : Len(Replica(i)) = 3
  BY DEF Replica, Band
<1>4. \A e : Len(Kind(e)) = 3
  BY DEF Kind, Subsys
<1>5. Len(Subsys) = 2 /\ Len(Cell) = 3 /\ Len(Coord) = 3
  BY DEF Subsys, Cell, Coord
<1>6. ~ Below(Subsys, KpointSet(n))
  <2> DEFINE k == KpointSet(n)
             T == {Plain("force_eval"), Plain("dft"), Plain("print"), Plain("band_structure"),
                   Indexed("kpoint_set", n)}
  <2>1. k \in Seq(T) /\ Len(k) = 5 /\ k[2] = Plain("dft")
    BY DEF KpointSet, BandStructure
  <2> HIDE DEF k, T
  <2>2. SubSeq(k, 1, 2)[2] = k[2]
    BY <2>1
  <2>3. Len(Subsys) = 2 /\ Subsys[2] = Plain("subsys") /\ Plain("subsys") # Plain("dft")
    BY DEF Subsys, Plain
  <2> QED
    BY <2>1, <2>2, <2>3 DEF Below, k
<1> QED
  BY <1>1, <1>2, <1>3, <1>4, <1>5, <1>6, KpointSetIs

\* The segments are numbered from 0.
LEMMA SegmentsInOrder ==
  ASSUME NEW T, NEW k \in Seq(T)
  PROVE  \E points :
           /\ Segments(k) = [n \in DOMAIN points |-> Segment(k, points[n])]
           /\ DOMAIN points = 1..Len(Segments(k)) /\ Len(Segments(k)) \in Nat
           /\ \A n \in DOMAIN points : Number(k, points[n]) = n - 1
           /\ {points[n] : n \in DOMAIN points} = Joined(k)
<1> DEFINE m == IF Len(k) = 0 THEN 0 ELSE Len(k) - 1
           points == Only([i \in 1..(Len(k) - 1) |-> i], Joined(k))
<1>1. m \in Nat /\ 1..m = 1..(Len(k) - 1)
  OBVIOUS
<1>2. Joined(k) \in SUBSET (1..m)
  BY <1>1 DEF Joined
<1> HIDE DEF m
<1>3. points = Only([i \in 1..m |-> i], Joined(k))
  BY <1>1
<1>4. /\ points \in Seq(Nat)
      /\ \A n \in 1..Len(points) : Cardinality({j \in Joined(k) : j < points[n]}) = n - 1
      /\ {points[n] : n \in 1..Len(points)} = Joined(k)
  <2> DEFINE J == Joined(k)
             p == Only([i \in 1..m |-> i], J)
  <2> HIDE DEF J
  <2>1. /\ p \in Seq(Nat)
        /\ \A n \in 1..Len(p) : Cardinality({j \in J : j < p[n]}) = n - 1
        /\ {p[n] : n \in 1..Len(p)} = J
    BY <1>1, <1>2, NumbersInOrder DEF J
  <2> HIDE DEF points
  <2> QED
    BY <1>3, <2>1 DEF J
<1>5. Segments(k) = [n \in DOMAIN points |-> Segment(k, points[n])]
  BY DEF Segments
<1> HIDE DEF points
<1>6. DOMAIN points = 1..Len(points) /\ Len(points) \in Nat
  BY <1>4
<1>7. Len(Segments(k)) = Len(points)
  BY <1>5, <1>6
<1> QED
  BY <1>4, <1>5, <1>6, <1>7 DEF Number

\* What set_kpoint_set sets.
Written(k) ==
    [names \in {KpointSet(Number(k, i)) : i \in Joined(k)} |->
        Segment(k, CHOOSE i \in Joined(k) : KpointSet(Number(k, i)) = names)]

LEMMA SegmentsWritten ==
  ASSUME NEW T, NEW k \in Seq(T)
  PROVE  /\ DOMAIN Segments(k) = 1..Len(Segments(k)) /\ Len(Segments(k)) \in Nat
         /\ DOMAIN Written(k) = {KpointSet(n - 1) : n \in DOMAIN Segments(k)}
         /\ \A n \in DOMAIN Segments(k) :
                /\ Written(k)[KpointSet(n - 1)] = Segments(k)[n]
                /\ DOMAIN Segments(k)[n] = SegmentKeys
                /\ Segments(k)[n] = [key \in SegmentKeys |-> Segments(k)[n][key]]
<1> DEFINE all == Segments(k)
           J == Joined(k)
<1>1. PICK points :
           /\ all = [n \in DOMAIN points |-> Segment(k, points[n])]
           /\ DOMAIN points = 1..Len(all) /\ Len(all) \in Nat
           /\ \A n \in DOMAIN points : Number(k, points[n]) = n - 1
           /\ {points[n] : n \in DOMAIN points} = J
  BY SegmentsInOrder
<1> HIDE DEF all, J
<1>2. DOMAIN all = DOMAIN points
  BY <1>1
<1>3. {KpointSet(Number(k, i)) : i \in J} = {KpointSet(n - 1) : n \in DOMAIN all}
  <2>1. \A i \in J : \E n \in DOMAIN all : i = points[n] /\ Number(k, i) = n - 1
    BY <1>1, <1>2
  <2>2. \A n \in DOMAIN all : points[n] \in J /\ Number(k, points[n]) = n - 1
    BY <1>1, <1>2
  <2> QED
    BY <2>1, <2>2
<1>4. ASSUME NEW n \in DOMAIN all
      PROVE  Written(k)[KpointSet(n - 1)] = all[n]
  <2> DEFINE P(i) == KpointSet(Number(k, i)) = KpointSet(n - 1)
             c == CHOOSE i \in J : P(i)
  <2>1. points[n] \in J /\ P(points[n])
    BY <1>1, <1>2
  <2>2. c \in J /\ P(c)
    BY <2>1
  <2>3. Written(k)[KpointSet(n - 1)] = Segment(k, c)
    BY <1>3 DEF Written, J
  <2> HIDE DEF c
  <2>4. Number(k, c) = n - 1
    BY <2>2, KpointSetsDiffer
  <2>5. PICK l \in DOMAIN points : c = points[l]
    BY <1>1, <2>2
  <2>6. l - 1 = n - 1
    BY <1>1, <2>4, <2>5
  <2>7. l = n
    BY <1>1, <1>2, <2>6
  <2> QED
    BY <1>1, <1>2, <2>3, <2>5, <2>7
<1>5. ASSUME NEW n \in DOMAIN all
      PROVE  DOMAIN all[n] = SegmentKeys /\ all[n] = [key \in SegmentKeys |-> all[n][key]]
  BY <1>1, <1>2 DEF Segment, SegmentKeys
<1>6. DOMAIN Written(k) = {KpointSet(n - 1) : n \in DOMAIN all}
  BY <1>3 DEF Written, J
<1> QED
  BY <1>1, <1>2, <1>4, <1>5, <1>6 DEF all

\* New values of all parameters are what is there afterwards.
LEMMA OverAll ==
  ASSUME NEW new, NEW old, new = [x \in DOMAIN new |-> new[x]], DOMAIN old \subseteq DOMAIN new
  PROVE  Over(new, old) = new
<1>1. DOMAIN new \cup DOMAIN old = DOMAIN new
  OBVIOUS
<1> QED
  BY <1>1 DEF Over

-----------------------------------------------------------------------------
(* The inductive invariant: a k-point set that is there has no parameter   *)
(* but those of a segment, so that a new segment leaves nothing of the     *)
(* old one, and some k-path had as many segments; the first ones are the   *)
(* segments of the k-path given last.                                      *)
KpointsInv ==
    /\ \A n \in Nat : KpointSet(n) \in DOMAIN sections =>
           /\ DOMAIN sections[KpointSet(n)].params \subseteq SegmentKeys
           /\ \E m \in DOMAIN kpaths : n < Len(Segments(kpaths[m]))
    /\ (kpaths # <<>> /\ ~ crashed) =>
           \A n \in DOMAIN Segments(kpaths[Len(kpaths)]) :
               /\ KpointSet(n - 1) \in DOMAIN sections
               /\ sections[KpointSet(n - 1)].params = Segments(kpaths[Len(kpaths)])[n]

\* new has the k-point sets of tree.
SameKpoints(tree, new) ==
    \A n : /\ KpointSet(n) \in DOMAIN new <=> KpointSet(n) \in DOMAIN tree
           /\ KpointSet(n) \in DOMAIN tree =>
                  new[KpointSet(n)].params = tree[KpointSet(n)].params

LEMMA KpointsStay ==
    ASSUME KpointsInv, ~ crashed, kpaths' = kpaths, SameKpoints(sections, sections')
    PROVE  KpointsInv'
  BY DEF KpointsInv, SameKpoints

LEMMA NewSectionKpoints ==
    ASSUME NEW tree, IsTree(tree), NEW path,
           \A n : KpointSet(n) \notin OnTheWay(Names(path))
    PROVE  SameKpoints(tree, NewSection(tree, path))
  BY NewSectionKeeps DEF SameKpoints, SameOn

LEMMA MakeSectionKpoints ==
    ASSUME KpointsInv, IsTree(sections), NEW path \in Path, LeavesKpoints(path),
           MakeSection(path)
    PROVE  KpointsInv'
<1>1. SameKpoints(sections, sections')
  BY NewSectionKpoints, NoWayToKpoints DEF MakeSection
<1> QED
  BY <1>1, KpointsStay DEF MakeSection, Call, history

LEMMA SetParamKpoints ==
    ASSUME KpointsInv, IsTree(sections), NEW path \in Path, LeavesKpoints(path),
           NEW key, NEW value, SetParam(path, key, value)
    PROVE  KpointsInv'
<1> DEFINE prepared == Prepared(sections, path)
           argued == WithArguments(prepared, path)
<1>1. \A n : KpointSet(n) \notin OnTheWay(Names(SectionPath(path)))
  <2>1. CASE path = <<>>
    BY <2>1, EmptyPath, OtherSections
  <2>2. CASE path # <<>>
    BY <2>2, NoWayToKpoints DEF SectionPath
  <2> QED
    BY <2>1, <2>2
<1>2. IsTree(prepared) /\ SameKpoints(sections, prepared)
  <2>1. SameKpoints(sections, NewSection(sections, SectionPath(path)))
    BY <1>1, NewSectionKpoints
  <2>2. SameKpoints(sections, sections)
    BY DEF SameKpoints
  <2> QED
    BY <2>1, <2>2, PreparedKeeps DEF Prepared
<1> HIDE DEF prepared
<1>3. CASE sections' = prepared
  BY <1>2, <1>3, KpointsStay DEF SetParam, Call
<1>4. CASE path # <<>> /\ sections' = SetParamAt(sections, path, key, value)
  <2>1. IsTree(argued) /\ DOMAIN argued = DOMAIN prepared /\ SameOn(DOMAIN prepared, prepared, argued)
    BY <1>2, WithArgumentsKeeps
  <2> DEFINE names == Names(path)
  <2>2. sections' = [argued EXCEPT ![names].params = Over(One(key, value), @)]
    BY <1>4 DEF SetParamAt, WithParam, prepared
  <2>3. \A n : KpointSet(n) # names
    BY <1>4, OwnPrefix, NoWayToKpoints
  <2> HIDE DEF argued, names
  <2>4. DOMAIN sections' = DOMAIN argued /\ \A n : n \in DOMAIN argued /\ n # names => sections'[n] = argued[n]
    BY <2>2
  <2>5. SameKpoints(sections, sections')
    BY <1>2, <2>1, <2>3, <2>4 DEF SameKpoints, SameOn
  <2> QED
    BY <2>5, KpointsStay DEF SetParam, Call
<1> QED
  BY <1>3, <1>4 DEF SetParam, prepared

LEMMA GetXyzKpoints ==
    ASSUME KpointsInv, IsTree(sections), NEW file, GetXyz(file)
    PROVE  KpointsInv'
<1>1. sections' = WithSubsys(sections, file, elements')
  BY DEF GetXyz
<1> DEFINE species == elements'
           new == WithSubsys(sections, file, species)
<1>2. /\ Outside(sections, Subsys) \subseteq DOMAIN new
      /\ SameOn(Outside(sections, Subsys), sections, new)
  BY WithSubsysKeeps
<1>3. DOMAIN new = Outside(sections, Subsys) \cup {Subsys, Cell, Coord} \cup {Kind(e) : e \in species}
  BY DEF WithSubsys
<1>4. \A n : KpointSet(n) \in DOMAIN sections <=> KpointSet(n) \in Outside(sections, Subsys)
  BY OtherSections DEF Outside
<1> HIDE DEF new
<1>5. \A n : KpointSet(n) \in DOMAIN new <=> KpointSet(n) \in DOMAIN sections
  BY <1>3, <1>4, OtherSections
<1>6. SameKpoints(sections, new)
  BY <1>2, <1>4, <1>5 DEF SameKpoints, SameOn, Outside
<1> QED
  BY <1>1, <1>6, KpointsStay DEF GetXyz, Call, new

\* What is merged into a tree.
LEMMA MergeIs ==
    ASSUME NEW tree, IsTree(tree), NEW new
    PROVE  /\ DOMAIN Merge(tree, new) = DOMAIN new \cup DOMAIN tree
           /\ \A n \in DOMAIN new :
                  Merge(tree, new)[n].params =
                      IF n \in DOMAIN tree THEN Over(new[n], tree[n].params) ELSE new[n]
           /\ \A n \in DOMAIN tree \ DOMAIN new : Merge(tree, new)[n] = tree[n]
<1> DEFINE node(n) == IF n \in DOMAIN tree
                      THEN [tree[n] EXCEPT !.params = Over(new[n], tree[n].params)]
                      ELSE [arg |-> "", params |-> new[n]]
           written == [n \in DOMAIN new |-> node(n)]
           merged == Merge(tree, new)
<1>1. merged = Over(written, tree)
  BY DEF Merge
<1>2. DOMAIN written = DOMAIN new /\ \A n \in DOMAIN new : written[n] = node(n)
  OBVIOUS
<1>3. ASSUME NEW n \in DOMAIN new
      PROVE  node(n).params = IF n \in DOMAIN tree THEN Over(new[n], tree[n].params) ELSE new[n]
  BY DEF IsTree
<1> HIDE DEF node, written, merged
<1>4. /\ DOMAIN merged = DOMAIN new \cup DOMAIN tree
      /\ \A n \in DOMAIN new : merged[n] = written[n]
      /\ \A n \in DOMAIN tree \ DOMAIN new : merged[n] = tree[n]
  BY <1>1, <1>2 DEF Over
<1> QED
  BY <1>2, <1>3, <1>4 DEF merged

LEMMA RunKpoints ==
    ASSUME KpointsInv, IsTree(sections), Run
    PROVE  KpointsInv'
<1> DEFINE made == NewSection(sections, Steps(Band))
           new == [names \in {Replica(i - 1) : i \in DOMAIN images} |->
                      [coord_file_name |-> <<images[names[3][2][1] + 1]>>]]
<1>1. sections' \in {sections, Merge(made, new)}
  BY DEF Run, WithReplicas
<1>2. IsTree(made) /\ SameKpoints(sections, made)
  BY NewSectionKeeps, NewSectionKpoints, OtherSections
<1>3. \A n : KpointSet(n) \notin DOMAIN new
  BY OtherSections
<1> HIDE DEF made, new
<1>4. SameKpoints(sections, Merge(made, new))
  <2>1. /\ DOMAIN Merge(made, new) = DOMAIN new \cup DOMAIN made
        /\ \A n \in DOMAIN made \ DOMAIN new : Merge(made, new)[n] = made[n]
    BY <1>2, MergeIs
  <2> DEFINE merged == Merge(made, new)
  <2> HIDE DEF merged
  <2> QED
    BY <1>2, <1>3, <2>1 DEF SameKpoints, merged
<1>5. SameKpoints(sections, sections)
  BY DEF SameKpoints
<1> QED
  BY <1>1, <1>4, <1>5, KpointsStay DEF Run, Call

\* What set_kpoint_set makes of the sections, segment by segment.
LEMMA WithKpathIs ==
    ASSUME IsTree(sections), NEW T, NEW k \in Seq(T),
           \A n \in Nat : KpointSet(n) \in DOMAIN sections =>
               DOMAIN sections[KpointSet(n)].params \subseteq SegmentKeys,
           NEW new, new = WithKpath(sections, k)
    PROVE  /\ \A n \in DOMAIN Segments(k) :
                  KpointSet(n - 1) \in DOMAIN new /\ new[KpointSet(n - 1)].params = Segments(k)[n]
           /\ \A n \in Nat : KpointSet(n) \in DOMAIN new =>
                  \/ n < Len(Segments(k)) /\ DOMAIN new[KpointSet(n)].params = SegmentKeys
                  \/ /\ KpointSet(n) \in DOMAIN sections
                     /\ new[KpointSet(n)].params = sections[KpointSet(n)].params
<1> DEFINE made == NewSection(sections, Steps(BandStructure))
           all == Segments(k)
           written == Written(k)
<1>1. new = Merge(made, written)
  BY DEF WithKpath, Written
<1>2. IsTree(made) /\ SameKpoints(sections, made)
  BY NewSectionKeeps, NewSectionKpoints, OtherSections
<1>3. /\ DOMAIN all = 1..Len(all) /\ Len(all) \in Nat
      /\ DOMAIN written = {KpointSet(n - 1) : n \in DOMAIN all}
      /\ \A n \in DOMAIN all :
             /\ written[KpointSet(n - 1)] = all[n]
             /\ DOMAIN all[n] = SegmentKeys
             /\ all[n] = [key \in SegmentKeys |-> all[n][key]]
  BY SegmentsWritten
<1> HIDE DEF made, all, written
<1>4. /\ DOMAIN new = DOMAIN written \cup DOMAIN made
      /\ \A n \in DOMAIN written :
             new[n].params = IF n \in DOMAIN made THEN Over(written[n], made[n].params) ELSE written[n]
      /\ \A n \in DOMAIN made \ DOMAIN written : new[n] = made[n]
  <2>1. /\ DOMAIN Merge(made, written) = DOMAIN written \cup DOMAIN made
        /\ \A n \in DOMAIN written :
               Merge(made, written)[n].params =
                   IF n \in DOMAIN made THEN Over(written[n], made[n].params) ELSE written[n]
        /\ \A n \in DOMAIN made \ DOMAIN written : Merge(made, written)[n] = made[n]
    BY <1>2, MergeIs
  <2> QED
    BY <1>1, <2>1
<1>5. ASSUME NEW n \in DOMAIN all
      PROVE  KpointSet(n - 1) \in DOMAIN new /\ new[KpointSet(n - 1)].params = all[n]
  <2> DEFINE s == KpointSet(n - 1)
  <2>1. n - 1 \in Nat /\ s \in DOMAIN written /\ written[s] = all[n]
    BY <1>3
  <2>2. s \in DOMAIN made => DOMAIN made[s].params \subseteq SegmentKeys
    BY <1>2, <2>1 DEF SameKpoints
  <2> HIDE DEF s
  <2>3. s \in DOMAIN made => Over(all[n], made[s].params) = all[n]
    <3> DEFINE f == all[n]
               old == made[s].params
    <3>1. f = [x \in DOMAIN f |-> f[x]] /\ DOMAIN f = SegmentKeys
      BY <1>3
    <3>2. s \in DOMAIN made => DOMAIN old \subseteq DOMAIN f
      BY <2>2, <3>1
    <3> HIDE DEF f, old
    <3>3. s \in DOMAIN made => Over(f, old) = f
      BY <3>1, <3>2, OverAll
    <3> QED
      BY <3>3 DEF f, old
  <2>4. s \in DOMAIN new /\ new[s].params = all[n]
    BY <1>4, <2>1, <2>3
  <2> QED
    BY <2>4 DEF s
<1>6. ASSUME NEW n \in Nat, KpointSet(n) \in DOMAIN new
      PROVE  \/ n < Len(all) /\ DOMAIN new[KpointSet(n)].params = SegmentKeys
             \/ /\ KpointSet(n) \in DOMAIN sections
                /\ new[KpointSet(n)].params = sections[KpointSet(n)].params
  <2>1. CASE KpointSet(n) \in DOMAIN written
    <3>1. PICK l \in DOMAIN all : KpointSet(n) = KpointSet(l - 1)
      BY <1>3, <2>1
    <3>2. n = l - 1
      BY <3>1, KpointSetsDiffer
    <3>3. n < Len(all)
      BY <1>3, <3>2
    <3> QED
      BY <1>3, <1>5, <3>1, <3>3
  <2>2. CASE KpointSet(n) \notin DOMAIN written
    BY <1>2, <1>4, <1>6, <2>2 DEF SameKpoints
  <2> QED
    BY <2>1, <2>2
<1> QED
  BY <1>5, <1>6 DEF all

LEMMA SetKpointSetKpoints ==
    ASSUME KpointsInv, IsTree(sections), kpaths \in Seq(Kpaths), NEW k \in Kpaths,
           SetKpointSet(k)
    PROVE  KpointsInv'
<1> DEFINE all == Segments(k)
<1>1. /\ kpaths' = Append(kpaths, k)
      /\ crashed' = (k = <<>>)
      /\ sections' \in {sections, WithKpath(sections, k)}
      /\ ~ crashed' => sections' = WithKpath(sections, k)
  BY DEF SetKpointSet
<1>2. /\ Len(kpaths') = Len(kpaths) + 1 /\ Len(kpaths) \in Nat
      /\ kpaths'[Len(kpaths) + 1] = k
      /\ DOMAIN kpaths = 1..Len(kpaths) /\ DOMAIN kpaths' = 1..(Len(kpaths) + 1)
      /\ \A m \in DOMAIN kpaths : kpaths'[m] = kpaths[m]
  BY <1>1
<1>3. k \in Seq([label: STRING, link: Int])
  BY Cp2kAssumption
<1>4. \A n \in Nat : KpointSet(n) \in DOMAIN sections =>
          DOMAIN sections[KpointSet(n)].params \subseteq SegmentKeys
  BY DEF KpointsInv
<1>5. sections' = WithKpath(sections, k) =>
          /\ \A n \in DOMAIN all :
                 /\ KpointSet(n - 1) \in DOMAIN sections'
                 /\ sections'[KpointSet(n - 1)].params = all[n]
          /\ \A n \in Nat : KpointSet(n) \in DOMAIN sections' =>
                 \/ n < Len(all) /\ DOMAIN sections'[KpointSet(n)].params = SegmentKeys
                 \/ /\ KpointSet(n) \in DOMAIN sections
                    /\ sections'[KpointSet(n)].params = sections[KpointSet(n)].params
  BY <1>3, <1>4, WithKpathIs
<1> HIDE DEF all
<1>6. ASSUME NEW n \in Nat, KpointSet(n) \in DOMAIN sections'
      PROVE  /\ DOMAIN sections'[KpointSet(n)].params \subseteq SegmentKeys
             /\ \E m \in DOMAIN kpaths' : n < Len(Segments(kpaths'[m]))
  <2>1. ASSUME KpointSet(n) \in DOMAIN sections,
               sections'[KpointSet(n)].params = sections[KpointSet(n)].params
        PROVE  /\ DOMAIN sections'[KpointSet(n)].params \subseteq SegmentKeys
               /\ \E m \in DOMAIN kpaths' : n < Len(Segments(kpaths'[m]))
    <3>1. PICK m \in DOMAIN kpaths : n < Len(Segments(kpaths[m]))
      BY <2>1 DEF KpointsInv
    <3>2. m \in DOMAIN kpaths' /\ kpaths'[m] = kpaths[m]
      BY <1>2
    <3> QED
      BY <1>4, <2>1, <3>1, <3>2
  <2>2. ASSUME n < Len(all), DOMAIN sections'[KpointSet(n)].params = SegmentKeys
        PROVE  /\ DOMAIN sections'[KpointSet(n)].params \subseteq SegmentKeys
               /\ \E m \in DOMAIN kpaths' : n < Len(Segments(kpaths'[m]))
    <3>1. Len(kpaths) + 1 \in DOMAIN kpaths'
      BY <1>2
    <3> QED
      BY <1>2, <2>2, <3>1 DEF all
  <2> QED
    BY <1>1, <1>5, <1>6, <2>1, <2>2
<1>7. ~ crashed' =>
          \A n \in DOMAIN Segments(kpaths'[Len(kpaths')]) :
               /\ KpointSet(n - 1) \in DOMAIN sections'
               /\ sections'[KpointSet(n - 1)].params = Segments(kpaths'[Len(kpaths')])[n]
  BY <1>1, <1>2, <1>5 DEF all
<1> QED
  BY <1>6, <1>7 DEF KpointsInv

LEMMA KpointsInit == KpointsAreLeft /\ Init => KpointsInv
<1> SUFFICES ASSUME KpointsAreLeft, Init PROVE KpointsInv
  OBVIOUS
<1>1. DOMAIN sections = UNION {OnTheWay(Names(e.path)) : e \in Settings[class]}
  BY DEF Init, Constructed
<1>2. \A e \in Settings[class] : e.path \in Path /\ LeavesKpoints(e.path)
  <2>1. \A e \in Settings[class] : e.path \in GivenPaths
    BY EntryPaths DEF Init
  <2> QED  BY <2>1, EntryPaths DEF KpointsAreLeft
<1>3. \A n : KpointSet(n) \notin DOMAIN sections
  BY <1>1, <1>2, NoWayToKpoints
<1>4. kpaths = <<>>
  BY DEF Init
<1> QED
  BY <1>3, <1>4 DEF KpointsInv

KpointFree == {path \in Path : LeavesKpoints(path)}

LEMMA KpointsNext ==
    KeptInv /\ CrashInv /\ KpointsInv /\ [AnyCall(KpointFree)]_vars => KpointsInv'
<1> SUFFICES ASSUME KeptInv, CrashInv, KpointsInv, [AnyCall(KpointFree)]_vars
             PROVE  KpointsInv'
  OBVIOUS
<1>0. IsTree(sections) /\ kpaths \in Seq(Kpaths)
  BY DEF KeptInv, CrashInv
<1>1. CASE \E path \in KpointFree : MakeSection(path)
  BY <1>0, <1>1, MakeSectionKpoints DEF KpointFree
<1>2. CASE \E path \in KpointFree : \E key, value : SetParam(path, key, value)
  BY <1>0, <1>2, SetParamKpoints DEF KpointFree
<1>3. CASE \E file \in Structures : GetXyz(file)
  BY <1>0, <1>3, GetXyzKpoints
<1>4. CASE \E k \in Kpaths : SetKpointSet(k)
  BY <1>0, <1>4, SetKpointSetKpoints
<1>5. CASE \E files \in ImageLists : SetImages(files)
  BY <1>5 DEF SetImages, Call, history, KpointsInv
<1>6. CASE Run
  BY <1>0, <1>6, RunKpoints
<1>7. CASE UNCHANGED vars
  BY <1>7 DEF vars, history, KpointsInv
<1> QED
  BY <1>1, <1>2, <1>3, <1>4, <1>5, <1>6, <1>7 DEF AnyCall

-----------------------------------------------------------------------------
(* The structure. *)

IsKind(names) == Len(names) = 3 /\ Below(Subsys, names) /\ names[3][1] = "kind"

Pseudo == {"basis_set", "potential"}

HasArgs(tree) == \A n \in DOMAIN tree : "arg" \in DOMAIN tree[n]

\* new has the atoms and the kinds of tree; what it has besides names no
\* kind.
SameStructure(tree, new) ==
    /\ Coord \in DOMAIN tree => Coord \in DOMAIN new /\ new[Coord].params = tree[Coord].params
    /\ \A n \in DOMAIN tree : IsKind(n) =>
           /\ n \in DOMAIN new
           /\ new[n].arg = tree[n].arg
           /\ DOMAIN tree[n].params \subseteq DOMAIN new[n].params
    /\ \A n \in DOMAIN new : IsKind(n) /\ n \notin DOMAIN tree => new[n].arg = ""

LEMMA SameStructureTwice ==
    ASSUME NEW tree, NEW made, NEW new, SameStructure(tree, made), SameStructure(made, new)
    PROVE  SameStructure(tree, new)
  BY DEF SameStructure

\* The parts of the structure.
LEMMA StructureParts ==
    /\ \A e : IsKind(Kind(e)) /\ Kind(e)[3] = Indexed("kind", e)
    /\ \A e : Kind(e) \notin {Subsys, Cell, Coord}
    /\ \A n \in {Subsys, Cell, Coord} : ~ IsKind(n)
    /\ Coord \notin {Subsys, Cell} /\ Len(Coord) = 3 /\ Coord[3] = Plain("coord")
    /\ Coord[2] = Plain("subsys")
<1>1. \A e : Len(Kind(e)) = 3 /\ Kind(e)[3] = Indexed("kind", e)
  BY DEF Kind, Subsys
<1>2. Len(Subsys) = 2 /\ Len(Cell) = 3 /\ Len(Coord) = 3
  BY DEF Subsys, Cell, Coord
<1>3. Cell[3] = Plain("cell") /\ Coord[3] = Plain("coord") /\ Coord[2] = Plain("subsys")
  BY DEF Subsys, Cell, Coord
<1>4. \A e : Indexed("kind", e)[1] = "kind"
  BY DEF Indexed
<1>5. Plain("cell")[1] = "cell" /\ Plain("coord")[1] = "coord"
  BY DEF Plain
<1>6. \A e : Below(Subsys, Kind(e))
  BY SubsysParts
<1>7. \A e : IsKind(Kind(e))
  BY <1>1, <1>4, <1>6 DEF IsKind
<1>8. \A n \in {Subsys, Cell, Coord} : ~ IsKind(n)
  BY <1>2, <1>3, <1>5 DEF IsKind
<1>9. \A e : Kind(e) \notin {Subsys, Cell, Coord}
  BY <1>7, <1>8
<1>10. Coord \notin {Subsys, Cell}
  BY <1>2, <1>3, <1>5
<1> QED
  BY <1>1, <1>2, <1>3, <1>7, <1>8, <1>9, <1>10

\* The second name of what is below subsys.
LEMMA BelowSubsys ==
    ASSUME NEW names, Below(Subsys, names), Len(names) = 3
    PROVE  names[1] = Plain("force_eval") /\ names[2] = Plain("subsys")
<1>1. Len(Subsys) = 2 /\ Subsys[1] = Plain("force_eval") /\ Subsys[2] = Plain("subsys")
  BY DEF Subsys
<1>2. SubSeq(names, 1, 2) = Subsys
  BY <1>1 DEF Below
<1>3. SubSeq(names, 1, 2)[1] = names[1] /\ SubSeq(names, 1, 2)[2] = names[2]
  BY SubSeqProperties
<1> QED
  BY <1>1, <1>2, <1>3

\* What the class writes besides get_xyz is no part of the structure.
LEMMA NoPartOfStructure ==
    /\ \A n : ~ IsKind(KpointSet(n)) /\ KpointSet(n) # Coord
    /\ \A n : ~ IsKind(Replica(n)) /\ Replica(n) # Coord
    /\ \A p \in {Band, BandStructure} : \A n \in OnTheWay(Names(Steps(p))) : ~ IsKind(n) /\ n # Coord
    /\ ~ IsKind(NoSection) /\ NoSection # Coord
<1>1. \A n : ~ IsKind(KpointSet(n)) /\ KpointSet(n) # Coord
  BY KpointSetIs, StructureParts DEF IsKind
<1>2. \A n : Len(Replica(n)) = 3 /\ Replica(n)[2] = Plain("band")
  BY DEF Replica, Band
<1>3. Plain("band") # Plain("subsys") /\ Plain("dft") # Plain("subsys")
  BY DEF Plain
<1>4. \A n : ~ IsKind(Replica(n)) /\ Replica(n) # Coord
  BY <1>2, <1>3, BelowSubsys, StructureParts DEF IsKind
<1>5. ASSUME NEW p \in {Band, BandStructure}, NEW n \in OnTheWay(Names(Steps(p)))
      PROVE  ~ IsKind(n) /\ n # Coord
  <2> DEFINE T == {Plain("motion"), Plain("band"), Plain("force_eval"), Plain("dft"),
                   Plain("print"), Plain("band_structure")}
  <2>1. p \in Seq(T) /\ Len(p) >= 2 /\ p[2] \in {Plain("band"), Plain("dft")}
    <3>1. CASE p = Band
      BY <3>1 DEF Band
    <3>2. CASE p = BandStructure
      BY <3>2 DEF BandStructure
    <3> QED
      BY <1>5, <3>1, <3>2
  <2> HIDE DEF T
  <2>2. Names(Steps(p)) = p
    BY <2>1 DEF Names, Steps
  <2>3. PICK i \in 1..Len(p) : n = SubSeq(p, 1, i)
    BY <1>5, <2>2 DEF OnTheWay
  <2>4. Len(n) = i /\ \A j \in 1..i : n[j] = p[j]
    BY <2>1, <2>3
  <2>5. Len(n) = 3 => n[2] = p[2]
    BY <2>4
  <2> QED
    BY <2>1, <2>5, <1>3, BelowSubsys, StructureParts DEF IsKind
<1>6. ~ IsKind(NoSection) /\ NoSection # Coord
  <2>1. Len(NoSection) = 1
    BY DEF NoSection
  <2> QED
    BY <2>1, StructureParts DEF IsKind
<1> QED
  BY <1>1, <1>4, <1>5, <1>6

\* The last name of a section on a path is that of a step.
LEMMA StepOfSection ==
    ASSUME NEW path \in Path, NEW n \in OnTheWay(Names(path))
    PROVE  Len(n) \in DOMAIN path /\ n[Len(n)] = path[Len(n)].name
<1> DEFINE names == Names(path)
           S == [name: Name, arg: STRING]
<1>1. path \in Seq(S) /\ Len(path) \in Nat /\ DOMAIN path = 1..Len(path)
  BY DEF Path
<1>2. /\ names \in Seq(Name) /\ Len(names) = Len(path)
      /\ \A i \in 1..Len(path) : names[i] = path[i].name
  <2>1. \A i \in 1..Len(path) : path[i] \in S
    <3> HIDE DEF S
    <3> QED
      BY <1>1, ElementOfSeq
  <2>2. \A i \in 1..Len(path) : path[i].name \in Name
    BY <2>1
  <2>3. names = [i \in 1..Len(path) |-> path[i].name]
    BY <1>1 DEF Names
  <2>4. names \in [1..Len(path) -> Name]
    BY <2>2, <2>3
  <2> HIDE DEF S
  <2>5. names \in Seq(Name) /\ Len(names) = Len(path)
    BY <1>1, <2>4, LenProperties, IsASeq
  <2> QED
    BY <2>3, <2>5
<1>3. PICK i \in 1..Len(names) : n = SubSeq(names, 1, i)
  BY DEF OnTheWay
<1> HIDE DEF names, S
<1>4. Len(n) = i /\ n[i] = names[i]
  BY <1>2, <1>3
<1> QED
  BY <1>1, <1>2, <1>3, <1>4

\* A path that leaves the structure alone goes to no atoms, and gives its
\* kinds no name.
LEMMA LeavingPath ==
    ASSUME NEW path \in Path, LeavesStructure(path), NEW n \in OnTheWay(Names(path))
    PROVE  /\ n # Coord
           /\ IsKind(n) => path[Len(n)].arg = ""
           /\ \A i : n # Replica(i)
<1>1. Len(n) \in DOMAIN path /\ n[Len(n)] = path[Len(n)].name
  BY StepOfSection
<1>2. Len(Coord) = 3 /\ Coord[3][1] = "coord"
  BY StructureParts DEF Plain
<1>3. \A i : Len(Replica(i)) = 3 /\ Replica(i)[3] = Indexed("replica", i)
  BY DEF Replica, Band
<1>4. \A i : Replica(i)[3][1] = "replica"
  BY <1>3 DEF Indexed
<1> QED
  BY <1>1, <1>2, <1>3, <1>4 DEF LeavesStructure, IsKind

\* new_section
LEMMA NewSectionStructure ==
    ASSUME NEW tree, HasArgs(tree), NEW path,
           \A n \in OnTheWay(Names(path)) : n # Coord /\ (IsKind(n) => path[Len(n)].arg = "")
    PROVE  HasArgs(NewSection(tree, path)) /\ SameStructure(tree, NewSection(tree, path))
<1> DEFINE D == DOMAIN tree \cup OnTheWay(Names(path))
           new == NewSection(tree, path)
<1>1. new = [n \in D |-> IF n \in DOMAIN tree THEN tree[n] ELSE NewNode(path[Len(n)].arg)]
  BY DEF NewSection
<1>2. \A a : "arg" \in DOMAIN NewNode(a) /\ NewNode(a).arg = a
  BY DEF NewNode
<1>3. /\ DOMAIN new = D
      /\ \A n \in DOMAIN tree : new[n] = tree[n]
      /\ \A n \in D \ DOMAIN tree : new[n] = NewNode(path[Len(n)].arg)
  BY <1>1
<1>4. DOMAIN tree \subseteq D /\ \A n \in D \ DOMAIN tree : n \in OnTheWay(Names(path))
  OBVIOUS
<1> HIDE DEF new, D
<1>5. HasArgs(new)
  BY <1>2, <1>3, <1>4 DEF HasArgs
<1>6. \A n \in DOMAIN new : IsKind(n) /\ n \notin DOMAIN tree => new[n].arg = ""
  BY <1>2, <1>3, <1>4
<1>7. SameStructure(tree, new)
  BY <1>3, <1>4, <1>6 DEF SameStructure
<1> QED
  BY <1>5, <1>7 DEF new

\* set_param, before it goes down its path
LEMMA PreparedStructure ==
    ASSUME NEW tree, HasArgs(tree), NEW path \in Path, LeavesStructure(path)
    PROVE  HasArgs(Prepared(tree, path)) /\ SameStructure(tree, Prepared(tree, path))
<1>1. \A n \in OnTheWay(Names(SectionPath(path))) :
          n # Coord /\ (IsKind(n) => SectionPath(path)[Len(n)].arg = "")
  <2>1. CASE path = <<>>
    BY <2>1, EmptyPath, NoPartOfStructure
  <2>2. CASE path # <<>>
    BY <2>2, LeavingPath DEF SectionPath
  <2> QED
    BY <2>1, <2>2
<1>2. SameStructure(tree, tree)
  BY DEF SameStructure
<1>3. /\ HasArgs(NewSection(tree, SectionPath(path)))
      /\ SameStructure(tree, NewSection(tree, SectionPath(path)))
  BY <1>1, NewSectionStructure
<1> QED
  BY <1>2, <1>3 DEF Prepared

LEMMA WithArgumentsStructure ==
    ASSUME NEW tree, HasArgs(tree), IsTree(tree), NEW path \in Path, LeavesStructure(path)
    PROVE  /\ HasArgs(WithArguments(tree, path))
           /\ SameStructure(tree, WithArguments(tree, path))
<1> DEFINE new == WithArguments(tree, path)
<1>1. DOMAIN new = DOMAIN tree /\ SameOn(DOMAIN tree, tree, new)
  BY WithArgumentsKeeps
<1>2. \A n \in DOMAIN tree : IsKind(n) => new[n] = tree[n]
  BY LeavingPath DEF WithArguments
<1>3. \A n \in DOMAIN tree : new[n] = tree[n] \/ new[n] = [tree[n] EXCEPT !.arg = path[Len(n)].arg]
  BY DEF WithArguments
<1> HIDE DEF new
<1>4. \A n \in DOMAIN tree : DOMAIN new[n] = DOMAIN tree[n]
  BY <1>3
<1>5. HasArgs(new)
  BY <1>1, <1>4 DEF HasArgs
<1>6. SameStructure(tree, new)
  BY <1>1, <1>2 DEF SameStructure, SameOn
<1> QED
  BY <1>5, <1>6 DEF new

LEMMA WithParamStructure ==
    ASSUME NEW tree, HasArgs(tree), IsTree(tree), NEW names \in DOMAIN tree, names # Coord,
           NEW key, NEW value
    PROVE  /\ HasArgs(WithParam(tree, names, key, value))
           /\ SameStructure(tree, WithParam(tree, names, key, value))
<1> DEFINE new == WithParam(tree, names, key, value)
           params == Over(One(key, value), tree[names].params)
<1>1. "params" \in DOMAIN tree[names] /\ "arg" \in DOMAIN tree[names]
  BY DEF IsTree, HasArgs
<1>2. new = [tree EXCEPT ![names] = [tree[names] EXCEPT !.params = params]]
  BY DEF WithParam
<1>3. DOMAIN tree[names].params \subseteq DOMAIN params
  BY DEF Over
<1> HIDE DEF params
<1>4. /\ DOMAIN new = DOMAIN tree
      /\ new[names] = [tree[names] EXCEPT !.params = params]
      /\ \A n \in DOMAIN tree : n # names => new[n] = tree[n]
  BY <1>2
<1> HIDE DEF new
<1>5. /\ DOMAIN new[names] = DOMAIN tree[names]
      /\ new[names].params = params /\ new[names].arg = tree[names].arg
  BY <1>1, <1>4
<1>6. HasArgs(new)
  BY <1>1, <1>4, <1>5 DEF HasArgs
<1>7. SameStructure(tree, new)
  BY <1>3, <1>4, <1>5 DEF SameStructure
<1> QED
  BY <1>6, <1>7 DEF new

\* set_kpoint_set and Neb::run
LEMMA MergeStructure ==
    ASSUME NEW tree, HasArgs(tree), IsTree(tree), NEW new,
           \A n \in DOMAIN new : ~ IsKind(n) /\ n # Coord
    PROVE  HasArgs(Merge(tree, new)) /\ SameStructure(tree, Merge(tree, new))
<1> DEFINE node(n) == IF n \in DOMAIN tree
                      THEN [tree[n] EXCEPT !.params = Over(new[n], tree[n].params)]
                      ELSE [arg |-> "", params |-> new[n]]
           written == [n \in DOMAIN new |-> node(n)]
           merged == Merge(tree, new)
<1>1. merged = Over(written, tree)
  BY DEF Merge
<1>2. DOMAIN written = DOMAIN new /\ \A n \in DOMAIN new : written[n] = node(n)
  OBVIOUS
<1>3. ASSUME NEW n \in DOMAIN new
      PROVE  "arg" \in DOMAIN node(n)
  <2>1. CASE n \in DOMAIN tree
    <3>1. "arg" \in DOMAIN tree[n] /\ DOMAIN node(n) = DOMAIN tree[n]
      BY <2>1 DEF HasArgs
    <3> QED
      BY <3>1
  <2>2. CASE n \notin DOMAIN tree
    BY <2>2
  <2> QED
    BY <2>1, <2>2
<1> HIDE DEF node, written, merged
<1>4. /\ DOMAIN merged = DOMAIN new \cup DOMAIN tree
      /\ \A n \in DOMAIN new : merged[n] = written[n]
      /\ \A n \in DOMAIN tree \ DOMAIN new : merged[n] = tree[n]
  BY <1>1, <1>2 DEF Over
<1>5. HasArgs(merged)
  BY <1>2, <1>3, <1>4 DEF HasArgs
<1>6. SameStructure(tree, merged)
  BY <1>4 DEF SameStructure
<1> QED
  BY <1>5, <1>6 DEF merged

\* What they make on the way and merge.
LEMMA NewMergeStructure ==
    ASSUME NEW tree, HasArgs(tree), IsTree(tree), NEW p \in {Band, BandStructure}, NEW new,
           \A n \in DOMAIN new : ~ IsKind(n) /\ n # Coord
    PROVE  /\ HasArgs(Merge(NewSection(tree, Steps(p)), new))
           /\ SameStructure(tree, Merge(NewSection(tree, Steps(p)), new))
<1> DEFINE made == NewSection(tree, Steps(p))
<1>1. \A n \in OnTheWay(Names(Steps(p))) : ~ IsKind(n) /\ n # Coord
  BY NoPartOfStructure
<1>2. HasArgs(made) /\ SameStructure(tree, made)
  BY <1>1, NewSectionStructure
<1>3. IsTree(made)
  BY NewSectionKeeps
<1> HIDE DEF made
<1>4. HasArgs(Merge(made, new)) /\ SameStructure(made, Merge(made, new))
  BY <1>2, <1>3, MergeStructure
<1> QED
  BY <1>2, <1>4, SameStructureTwice DEF made

-----------------------------------------------------------------------------
(* The inductive invariant: each element ever read has its kind, no other  *)
(* kind has a name, and the atoms are those read last.                     *)
StructureInv ==
    /\ HasArgs(sections)
    /\ elements \subseteq STRING \ {""}
    /\ \A e \in elements :
           /\ Kind(e) \in DOMAIN sections
           /\ sections[Kind(e)].arg = e
           /\ Pseudo \subseteq DOMAIN sections[Kind(e)].params
    /\ \A n \in DOMAIN sections : IsKind(n) =>
           sections[n].arg = "" \/ n = Kind(sections[n].arg)
    /\ atoms # <<>> =>
           /\ Coord \in DOMAIN sections
           /\ sections[Coord].params.atoms = atoms
           /\ \A i \in DOMAIN atoms : atoms[i] \in elements

LEMMA StructureStays ==
    ASSUME StructureInv, HasArgs(sections'), SameStructure(sections, sections'),
           elements' = elements, atoms' = atoms
    PROVE  StructureInv'
<1>1. ASSUME NEW e \in elements
      PROVE  /\ Kind(e) \in DOMAIN sections'
             /\ sections'[Kind(e)].arg = e
             /\ Pseudo \subseteq DOMAIN sections'[Kind(e)].params
  BY StructureParts DEF StructureInv, SameStructure
<1>2. ASSUME NEW n \in DOMAIN sections', IsKind(n)
      PROVE  sections'[n].arg = "" \/ n = Kind(sections'[n].arg)
  BY <1>2 DEF StructureInv, SameStructure
<1>3. Coord \in DOMAIN sections => 
          Coord \in DOMAIN sections' /\ sections'[Coord].params = sections[Coord].params
  BY DEF SameStructure
<1> QED
  BY <1>1, <1>2, <1>3 DEF StructureInv

LEMMA SetParamStructure ==
    ASSUME StructureInv, IsTree(sections), NEW path \in Path, LeavesStructure(path),
           NEW key, NEW value, SetParam(path, key, value)
    PROVE  StructureInv'
<1> DEFINE prepared == Prepared(sections, path)
           argued == WithArguments(prepared, path)
<1>0. elements' = elements /\ atoms' = atoms /\ HasArgs(sections)
  BY DEF SetParam, StructureInv
<1>1. IsTree(prepared) /\ OnTheWay(Names(SectionPath(path))) \subseteq DOMAIN prepared
  BY PreparedKeeps
<1>2. HasArgs(prepared) /\ SameStructure(sections, prepared)
  BY <1>0, PreparedStructure
<1>3. CASE sections' = prepared
  BY <1>0, <1>2, <1>3, StructureStays
<1>4. CASE path # <<>> /\ sections' = SetParamAt(sections, path, key, value)
  <2> DEFINE names == Names(path)
  <2>1. names \in DOMAIN prepared /\ names # Coord
    BY <1>1, <1>4, OwnPrefix, LeavingPath DEF SectionPath
  <2>2. sections' = WithParam(argued, names, key, value)
    BY <1>4 DEF SetParamAt
  <2> HIDE DEF prepared, names
  <2>3. IsTree(argued) /\ DOMAIN argued = DOMAIN prepared
    BY <1>1, WithArgumentsKeeps
  <2>4. HasArgs(argued) /\ SameStructure(prepared, argued)
    BY <1>1, <1>2, WithArgumentsStructure
  <2> HIDE DEF argued
  <2>5. HasArgs(sections') /\ SameStructure(argued, sections')
    BY <2>1, <2>2, <2>3, <2>4, WithParamStructure
  <2>6. SameStructure(sections, sections')
    BY <1>2, <2>4, <2>5, SameStructureTwice
  <2> QED
    BY <1>0, <2>5, <2>6, StructureStays
<1> QED
  BY <1>3, <1>4 DEF SetParam, prepared

LEMMA GetXyzStructure ==
    ASSUME StructureInv, NEW file \in Structures, GetXyz(file)
    PROVE  StructureInv'
<1> DEFINE species == elements \cup {file[i] : i \in DOMAIN file}
           outside == Outside(sections, Subsys)
           D == outside \cup {Subsys, Cell, Coord} \cup {Kind(e) : e \in species}
           coord == [arg |-> "", params |-> One("atoms", file)]
<1>1. /\ elements' = species
      /\ sections' = WithSubsys(sections, file, species)
      /\ atoms' = file
  BY DEF GetXyz
<1>2. sections' = [n \in D |-> IF n \in outside THEN sections[n]
                               ELSE IF n = Coord THEN coord
                               ELSE IF n \in {Subsys, Cell} THEN NewNode("")
                               ELSE KindNode(n[3][2][1])]
  BY <1>1 DEF WithSubsys
<1>3. species \subseteq STRING \ {""}
  <2>1. file \in Seq(STRING \ {""})
    BY Cp2kAssumption
  <2>2. \A i \in DOMAIN file : file[i] \in STRING \ {""}
    BY <2>1, ElementsOfSeq
  <2> QED
    BY <2>2 DEF StructureInv
<1>4. /\ \A n \in outside : n \in DOMAIN sections /\ ~ Below(Subsys, n)
      /\ outside \cap {Subsys, Cell, Coord} = {}
      /\ \A e : Kind(e) \notin outside
  BY SubsysParts DEF Outside
<1>5. \A a : NewNode(a).arg = a /\ "arg" \in DOMAIN NewNode(a)
  BY DEF NewNode
<1>6. \A e : KindNode(e).arg = e /\ "arg" \in DOMAIN KindNode(e) /\ DOMAIN KindNode(e).params = Pseudo
  BY DEF KindNode, Pseudo
<1>7. /\ coord.params.atoms = file /\ "arg" \in DOMAIN coord
  BY DEF One
<1>8. \A e : Kind(e)[3][2][1] = e
  BY StructureParts DEF Indexed
<1> HIDE DEF coord, outside, species
<1>9. /\ DOMAIN sections' = D
      /\ \A n \in outside : sections'[n] = sections[n]
      /\ sections'[Coord] = coord
      /\ sections'[Subsys] = NewNode("") /\ sections'[Cell] = NewNode("")
      /\ \A e \in species : sections'[Kind(e)] = KindNode(e)
  <2>1. DOMAIN sections' = D /\ \A n \in outside : sections'[n] = sections[n]
    BY <1>2
  <2>2. sections'[Coord] = coord /\ sections'[Subsys] = NewNode("") /\ sections'[Cell] = NewNode("")
    BY <1>2, <1>4, StructureParts
  <2>3. ASSUME NEW e \in species PROVE sections'[Kind(e)] = KindNode(e)
    <3>1. Kind(e) \in D /\ Kind(e) \notin outside /\ Kind(e) \notin {Subsys, Cell, Coord}
      BY <1>4, StructureParts
    <3> QED
      BY <1>2, <1>8, <3>1
  <2> QED
    BY <2>1, <2>2, <2>3
<1>10. \A n \in D : n \in outside \/ n \in {Subsys, Cell, Coord} \/ \E e \in species : n = Kind(e)
  OBVIOUS
<1> HIDE DEF D
<1>11. HasArgs(sections')
  <2>1. \A n \in outside : "arg" \in DOMAIN sections[n]
    BY <1>4 DEF StructureInv, HasArgs
  <2>2. ASSUME NEW n \in DOMAIN sections' PROVE "arg" \in DOMAIN sections'[n]
    <3>1. CASE n \in outside
      BY <1>9, <2>1, <3>1
    <3>2. CASE n \in {Subsys, Cell, Coord}
      BY <1>5, <1>7, <1>9, <3>2
    <3>3. CASE \E e \in species : n = Kind(e)
      BY <1>6, <1>9, <3>3
    <3> QED
      BY <1>9, <1>10, <2>2, <3>1, <3>2, <3>3
  <2> QED
    BY <2>2 DEF HasArgs
<1>12. ASSUME NEW n \in DOMAIN sections', IsKind(n)
       PROVE  sections'[n].arg = "" \/ n = Kind(sections'[n].arg)
  <2>1. n \notin outside /\ n \notin {Subsys, Cell, Coord}
    BY <1>4, <1>12, StructureParts DEF IsKind
  <2>2. PICK e \in species : n = Kind(e)
    BY <1>9, <1>10, <2>1
  <2> QED
    BY <1>6, <1>9, <2>2
<1>13. \A e \in species :
           /\ Kind(e) \in DOMAIN sections'
           /\ sections'[Kind(e)].arg = e
           /\ Pseudo \subseteq DOMAIN sections'[Kind(e)].params
  BY <1>6, <1>9 DEF D
<1>14. Coord \in DOMAIN sections' /\ sections'[Coord].params.atoms = file
  BY <1>7, <1>9 DEF D
<1>15. \A i \in DOMAIN file : file[i] \in species
  BY DEF species
<1> QED
  BY <1>1, <1>3, <1>11, <1>12, <1>13, <1>14, <1>15 DEF StructureInv

LEMMA SetKpointSetStructure ==
    ASSUME StructureInv, IsTree(sections), NEW k, SetKpointSet(k)
    PROVE  StructureInv'
<1>1. sections' = sections \/ sections' = Merge(NewSection(sections, Steps(BandStructure)), Written(k))
  BY DEF SetKpointSet, WithKpath, Written
<1>2. elements' = elements /\ atoms' = atoms /\ HasArgs(sections)
  BY DEF SetKpointSet, StructureInv
<1>3. \A n \in DOMAIN Written(k) : ~ IsKind(n) /\ n # Coord
  BY NoPartOfStructure DEF Written
<1> DEFINE new == Merge(NewSection(sections, Steps(BandStructure)), Written(k))
<1>4. HasArgs(new) /\ SameStructure(sections, new)
  BY <1>2, <1>3, NewMergeStructure
<1> HIDE DEF new
<1>5. SameStructure(sections, sections)
  BY DEF SameStructure
<1> QED
  BY <1>1, <1>2, <1>4, <1>5, StructureStays DEF new

LEMMA RunStructure ==
    ASSUME StructureInv, IsTree(sections), Run
    PROVE  StructureInv'
<1> DEFINE replicas == [names \in {Replica(i - 1) : i \in DOMAIN images} |->
                           [coord_file_name |-> <<images[names[3][2][1] + 1]>>]]
           new == Merge(NewSection(sections, Steps(Band)), replicas)
<1>1. sections' = sections \/ sections' = new
  BY DEF Run, WithReplicas
<1>2. elements' = elements /\ atoms' = atoms /\ HasArgs(sections)
  BY DEF Run, StructureInv
<1>3. \A n \in DOMAIN replicas : ~ IsKind(n) /\ n # Coord
  BY NoPartOfStructure
<1> HIDE DEF replicas
<1>4. HasArgs(new) /\ SameStructure(sections, new)
  BY <1>2, <1>3, NewMergeStructure
<1> HIDE DEF new
<1>5. SameStructure(sections, sections)
  BY DEF SameStructure
<1> QED
  BY <1>1, <1>2, <1>4, <1>5, StructureStays

LEMMA MakeSectionStructure ==
    ASSUME StructureInv, NEW path \in Path, LeavesStructure(path), MakeSection(path)
    PROVE  StructureInv'
<1>1. sections' = NewSection(sections, path) /\ elements' = elements /\ atoms' = atoms
  BY DEF MakeSection, history
<1>2. HasArgs(sections') /\ SameStructure(sections, sections')
  BY <1>1, LeavingPath, NewSectionStructure DEF StructureInv
<1> QED
  BY <1>1, <1>2, StructureStays

StructureFree == {path \in Path : LeavesStructure(path)}

LEMMA StructureNext ==
    KeptInv /\ StructureInv /\ [AnyCall(StructureFree)]_vars => StructureInv'
<1> SUFFICES ASSUME KeptInv, StructureInv, [AnyCall(StructureFree)]_vars PROVE StructureInv'
  OBVIOUS
<1>0. IsTree(sections)
  BY DEF KeptInv
<1>1. CASE \E path \in StructureFree : MakeSection(path)
  BY <1>1, MakeSectionStructure DEF StructureFree
<1>2. CASE \E path \in StructureFree : \E key, value : SetParam(path, key, value)
  BY <1>0, <1>2, SetParamStructure DEF StructureFree
<1>3. CASE \E file \in Structures : GetXyz(file)
  BY <1>3, GetXyzStructure
<1>4. CASE \E k \in Kpaths : SetKpointSet(k)
  BY <1>0, <1>4, SetKpointSetStructure
<1>5. CASE \E files \in ImageLists : SetImages(files)
  BY <1>5 DEF SetImages, Call, history, StructureInv
<1>6. CASE Run
  BY <1>0, <1>6, RunStructure
<1>7. CASE UNCHANGED vars
  BY <1>7 DEF vars, history, StructureInv
<1> QED
  BY <1>1, <1>2, <1>3, <1>4, <1>5, <1>6, <1>7 DEF AnyCall

LEMMA StructureInit == StructureIsLeft /\ Init => StructureInv
<1> SUFFICES ASSUME StructureIsLeft, Init PROVE StructureInv
  OBVIOUS
<1> DEFINE set == Settings[class]
           D == UNION {OnTheWay(Names(e.path)) : e \in set}
           given(names) == {e.path[Len(names)].arg : e \in {e \in set : names \in OnTheWay(Names(e.path))}} \ {""}
           params(names) == [k \in {e.key : e \in {e \in set : Names(e.path) = names /\ e.key # ""}} |->
                                <<"class">>]
           arg(names) == IF given(names) = {} THEN "" ELSE CHOOSE a \in given(names) : TRUE
<1>1. sections = [names \in D |-> [arg |-> arg(names), params |-> params(names)]]
  BY DEF Init, Constructed
<1>2. \A e \in set : e.path \in Path /\ LeavesStructure(e.path)
  <2>1. \A e \in Settings[class] : e.path \in GivenPaths
    BY EntryPaths DEF Init
  <2> QED
    BY <2>1, EntryPaths DEF StructureIsLeft
<1>3. \A n : IsKind(n) => arg(n) = ""
  <2>1. \A n : IsKind(n) =>
            \A e \in {e \in set : n \in OnTheWay(Names(e.path))} : e.path[Len(n)].arg = ""
    <3> HIDE DEF set
    <3> QED
      BY <1>2, LeavingPath
  <2>2. \A n : IsKind(n) => given(n) = {}
    <3> HIDE DEF set
    <3> QED
      BY <2>1
  <2> HIDE DEF given
  <2> QED
    BY <2>2
<1> HIDE DEF set, D, arg, params, given
<1>4. HasArgs(sections) /\ \A n \in DOMAIN sections : sections[n].arg = arg(n)
  BY <1>1 DEF HasArgs
<1>5. elements = {} /\ atoms = <<>>
  BY DEF Init
<1> QED
  BY <1>3, <1>4, <1>5 DEF StructureInv

\* The structure as the property states it.
LEMMA StructureImplies ==
    StructureInv =>
        (atoms # <<>> =>
            /\ sections[Coord].params.atoms = atoms
            /\ \A i \in DOMAIN atoms : \E names \in KindsOf(atoms[i]) :
                /\ KindsOf(atoms[i]) = {names}
                /\ {"basis_set", "potential"} \subseteq DOMAIN sections[names].params)
<1> SUFFICES ASSUME StructureInv, atoms # <<>>, NEW i \in DOMAIN atoms
             PROVE  \E names \in KindsOf(atoms[i]) :
                       /\ KindsOf(atoms[i]) = {names}
                       /\ Pseudo \subseteq DOMAIN sections[names].params
  BY DEF StructureInv, Pseudo
<1> DEFINE e == atoms[i]
<1>1. e \in elements /\ e # ""
  BY DEF StructureInv
<1> HIDE DEF e
<1>2. KindsOf(e) = {n \in DOMAIN sections : IsKind(n) /\ sections[n].arg = e}
  BY DEF KindsOf, IsKind
<1>3. Kind(e) \in KindsOf(e)
  BY <1>1, <1>2, StructureParts DEF StructureInv
<1>4. \A n \in KindsOf(e) : n = Kind(e)
  BY <1>1, <1>2 DEF StructureInv
<1>5. Pseudo \subseteq DOMAIN sections[Kind(e)].params
  BY <1>1 DEF StructureInv
<1>6. KindsOf(e) = {Kind(e)}
  BY <1>3, <1>4
<1> QED
  BY <1>3, <1>5, <1>6 DEF e

-----------------------------------------------------------------------------
(* The images. *)

\* The name of a replica tells its number, and is no other section of the
\* class.
LEMMA ReplicaIs ==
    /\ \A i : Replica(i)[3][2][1] = i
    /\ \A i, j : Replica(i) = Replica(j) => i = j
    /\ \A i : ~ Below(Subsys, Replica(i))
    /\ \A i : \A p \in {Band, BandStructure} : Replica(i) \notin OnTheWay(Names(Steps(p)))
    /\ \A i : Replica(i) \notin OnTheWay(NoSection)
<1>1. \A i : /\ Len(Replica(i)) = 3 /\ Replica(i)[2] = Plain("band")
             /\ Replica(i)[3] = Indexed("replica", i)
  BY DEF Replica, Band
<1>2. \A i : Indexed("replica", i)[2][1] = i
  BY DEF Indexed
<1>3. Plain("band") # Plain("subsys") /\ Plain("dft") # Plain("band")
  BY DEF Plain
<1>4. \A i : ~ Below(Subsys, Replica(i))
  BY <1>1, <1>3, BelowSubsys
<1>5. ASSUME NEW i, NEW p \in {Band, BandStructure}
      PROVE  Replica(i) \notin OnTheWay(Names(Steps(p)))
  <2> DEFINE T == {Plain("motion"), Plain("band"), Plain("force_eval"), Plain("dft"),
                   Plain("print"), Plain("band_structure")}
  <2>1. p \in Seq(T) /\ (Len(p) = 2 \/ (Len(p) >= 2 /\ p[2] = Plain("dft")))
    <3>1. CASE p = Band
      BY <3>1 DEF Band
    <3>2. CASE p = BandStructure
      BY <3>2 DEF BandStructure
    <3> QED
      BY <3>1, <3>2
  <2> HIDE DEF T
  <2>2. Names(Steps(p)) = p
    BY <2>1 DEF Names, Steps
  <2>3. ASSUME NEW n \in OnTheWay(p) PROVE Len(n) = 3 => n[2] = Plain("dft")
    <3>1. PICK j \in 1..Len(p) : n = SubSeq(p, 1, j)
      BY DEF OnTheWay
    <3>2. Len(n) = j /\ \A l \in 1..j : n[l] = p[l]
      BY <2>1, <3>1
    <3> QED
      BY <2>1, <3>2
  <2> QED
    BY <1>1, <1>3, <2>2, <2>3
<1>6. \A i : Replica(i) \notin OnTheWay(NoSection)
  <2>1. Len(NoSection) = 1
    BY DEF NoSection
  <2> QED
    BY <1>1, <2>1, EmptyPath
<1> QED
  BY <1>1, <1>2, <1>4, <1>5, <1>6

\* new has no replica that tree has not.
NoNewReplica(tree, new) ==
    \A i : Replica(i) \in DOMAIN new => Replica(i) \in DOMAIN tree

LEMMA NewSectionReplicas ==
    ASSUME NEW tree, IsTree(tree), NEW path, \A i : Replica(i) \notin OnTheWay(Names(path))
    PROVE  NoNewReplica(tree, NewSection(tree, path))
  BY NewSectionKeeps DEF NoNewReplica

\* The replicas of a tree are those of files.
Replicas(tree, files) ==
    \A i \in Nat :
        /\ Replica(i) \in DOMAIN tree <=> i < Len(files)
        /\ i < Len(files) => tree[Replica(i)].params.coord_file_name = <<files[i + 1]>>

(* The inductive invariant: the replicas are those of the images, as many  *)
(* as were given; those of the input are the ones run() wrote.             *)
ImagesInv ==
    /\ images \in Seq(STRING)
    /\ listed \in Seq(STRING)
    /\ \A i \in Nat : Replica(i) \in DOMAIN sections => i < Len(images)
    /\ (class = "Neb" /\ input # <<>>) => Replicas(input, listed)

LEMMA ImagesStay ==
    ASSUME ImagesInv, NoNewReplica(sections, sections'), images' = images, listed' = listed,
           class' = class, input' = input
    PROVE  ImagesInv'
  BY DEF ImagesInv, NoNewReplica

LEMMA MakeSectionImages ==
    ASSUME ImagesInv, IsTree(sections), NEW path \in Path, LeavesStructure(path),
           MakeSection(path)
    PROVE  ImagesInv'
<1>1. NoNewReplica(sections, sections')
  BY NewSectionReplicas, LeavingPath DEF MakeSection
<1> QED
  BY <1>1, ImagesStay DEF MakeSection, Call, history

LEMMA SetParamImages ==
    ASSUME ImagesInv, IsTree(sections), NEW path \in Path, LeavesStructure(path),
           NEW key, NEW value, SetParam(path, key, value)
    PROVE  ImagesInv'
<1> DEFINE prepared == Prepared(sections, path)
           argued == WithArguments(prepared, path)
<1>1. \A i : Replica(i) \notin OnTheWay(Names(SectionPath(path)))
  <2>1. CASE path = <<>>
    BY <2>1, EmptyPath, ReplicaIs
  <2>2. CASE path # <<>>
    BY <2>2, LeavingPath DEF SectionPath
  <2> QED
    BY <2>1, <2>2
<1>2. NoNewReplica(sections, prepared)
  <2>1. NoNewReplica(sections, NewSection(sections, SectionPath(path)))
    BY <1>1, NewSectionReplicas
  <2>2. NoNewReplica(sections, sections)
    BY DEF NoNewReplica
  <2> QED
    BY <2>1, <2>2 DEF Prepared
<1>3. DOMAIN argued = DOMAIN prepared
  BY DEF WithArguments
<1>4. \A names : DOMAIN WithParam(argued, names, key, value) = DOMAIN argued
  BY DEF WithParam
<1>5. DOMAIN sections' = DOMAIN prepared
  BY <1>3, <1>4 DEF SetParam, SetParamAt
<1> HIDE DEF prepared, argued
<1>6. NoNewReplica(sections, sections')
  BY <1>2, <1>5 DEF NoNewReplica
<1> QED
  BY <1>6, ImagesStay DEF SetParam, Call

LEMMA GetXyzImages ==
    ASSUME ImagesInv, NEW file, GetXyz(file)
    PROVE  ImagesInv'
<1> DEFINE new == WithSubsys(sections, file, elements')
<1>1. DOMAIN new = Outside(sections, Subsys) \cup {Subsys, Cell, Coord} \cup {Kind(e) : e \in elements'}
  BY DEF WithSubsys
<1>2. \A n \in {Subsys, Cell, Coord} \cup {Kind(e) : e \in elements'} : Below(Subsys, n)
  BY SubsysParts
<1>3. \A n \in Outside(sections, Subsys) : n \in DOMAIN sections
  BY DEF Outside
<1> HIDE DEF new
<1>4. NoNewReplica(sections, new)
  BY <1>1, <1>2, <1>3, ReplicaIs DEF NoNewReplica
<1> QED
  BY <1>4, ImagesStay DEF GetXyz, Call, new

LEMMA SetKpointSetImages ==
    ASSUME ImagesInv, IsTree(sections), NEW k, SetKpointSet(k)
    PROVE  ImagesInv'
<1> DEFINE made == NewSection(sections, Steps(BandStructure))
           new == Merge(made, Written(k))
<1>1. sections' = sections \/ sections' = new
  BY DEF SetKpointSet, WithKpath, Written
<1>2. IsTree(made) /\ NoNewReplica(sections, made)
  BY NewSectionKeeps, NewSectionReplicas, ReplicaIs
<1>3. \A i : Replica(i) \notin DOMAIN Written(k)
  BY OtherSections DEF Written
<1> HIDE DEF made
<1>4. DOMAIN new = DOMAIN Written(k) \cup DOMAIN made
  BY <1>2, MergeIs
<1> HIDE DEF new
<1>5. NoNewReplica(sections, new) /\ NoNewReplica(sections, sections)
  BY <1>2, <1>3, <1>4 DEF NoNewReplica
<1>6. NoNewReplica(sections, sections')
  BY <1>1, <1>5
<1> QED
  BY <1>6, ImagesStay DEF SetKpointSet, Call

LEMMA SetImagesImages ==
    ASSUME ImagesInv, NEW files \in ImageLists, SetImages(files)
    PROVE  ImagesInv'
<1>1. /\ images' = images \o files /\ listed' = listed /\ class' = class /\ input' = input
      /\ sections' = sections
  BY DEF SetImages, Call, history
<1>2. files \in Seq(STRING) /\ images \in Seq(STRING)
  BY Cp2kAssumption DEF ImagesInv
<1>3. /\ images' \in Seq(STRING)
      /\ Len(images') = Len(images) + Len(files)
      /\ Len(files) \in Nat /\ Len(images) \in Nat
  BY <1>1, <1>2, ConcatIs
<1>4. \A i \in Nat : Replica(i) \in DOMAIN sections' => i < Len(images')
  BY <1>1, <1>3 DEF ImagesInv
<1> QED
  BY <1>1, <1>3, <1>4 DEF ImagesInv

\* The replicas that Neb::run writes.
LEMMA RunImages ==
    ASSUME ImagesInv, IsTree(sections), Run
    PROVE  ImagesInv'
<1>0. /\ images' = images /\ listed' = images /\ class' = class /\ input' = sections'
      /\ sections' = IF class = "Neb" THEN WithReplicas(sections, images) ELSE sections
      /\ images \in Seq(STRING)
      /\ \A i \in Nat : Replica(i) \in DOMAIN sections => i < Len(images)
  BY DEF Run, Call, ImagesInv
<1>1. CASE class # "Neb"
  BY <1>0, <1>1 DEF ImagesInv
<1>2. CASE class = "Neb"
  <2> DEFINE made == NewSection(sections, Steps(Band))
             S == {Replica(i - 1) : i \in DOMAIN images}
             file(n) == <<images[n[3][2][1] + 1]>>
             new == [n \in S |-> [coord_file_name |-> file(n)]]
             merged == Merge(made, new)
  <2>1. sections' = merged
    BY <1>0, <1>2 DEF WithReplicas
  <2>2. IsTree(made) /\ NoNewReplica(sections, made)
    BY NewSectionKeeps, NewSectionReplicas, ReplicaIs
  <2>3. DOMAIN images = 1..Len(images) /\ Len(images) \in Nat
    BY <1>0
  <2>4. \A i \in Nat : Replica(i) \in S <=> i < Len(images)
    <3>1. \A i \in Nat : i < Len(images) => i + 1 \in DOMAIN images /\ i = (i + 1) - 1
      BY <2>3
    <3>2. \A i \in Nat : Replica(i) \in S => \E j \in DOMAIN images : i = j - 1
      BY ReplicaIs
    <3> QED
      BY <2>3, <3>1, <3>2
  <2>5. \A i \in Nat : file(Replica(i)) = <<images[i + 1]>>
    BY ReplicaIs
  <2>6. \A n \in S : \A old :
            /\ new[n].coord_file_name = file(n)
            /\ Over(new[n], old).coord_file_name = file(n)
    <3>1. \A v : \A old : Over([coord_file_name |-> v], old).coord_file_name = v
      BY DEF Over
    <3> QED
      BY <3>1
  <2>7. DOMAIN new = S
    OBVIOUS
  <2> HIDE DEF made, S, file, new
  <2>8. /\ DOMAIN merged = S \cup DOMAIN made
        /\ \A n \in S : merged[n].params =
               IF n \in DOMAIN made THEN Over(new[n], made[n].params) ELSE new[n]
    <3>1. /\ DOMAIN Merge(made, new) = DOMAIN new \cup DOMAIN made
          /\ \A n \in DOMAIN new : Merge(made, new)[n].params =
                 IF n \in DOMAIN made THEN Over(new[n], made[n].params) ELSE new[n]
          /\ \A n \in DOMAIN made \ DOMAIN new : Merge(made, new)[n] = made[n]
      BY <2>2, MergeIs
    <3> QED
      BY <2>7, <3>1
  <2> HIDE DEF merged
  <2>9. \A n \in S : merged[n].params.coord_file_name = file(n)
    BY <2>6, <2>8
  <2>10. \A i \in Nat : Replica(i) \in DOMAIN merged <=> i < Len(images)
    BY <1>0, <2>2, <2>4, <2>8 DEF NoNewReplica
  <2>11. \A i \in Nat : i < Len(images) =>
             merged[Replica(i)].params.coord_file_name = <<images[i + 1]>>
    BY <2>4, <2>5, <2>9
  <2> QED
    BY <1>0, <2>1, <2>10, <2>11 DEF ImagesInv, Replicas
<1> QED
  BY <1>1, <1>2

LEMMA ImagesNext ==
    KeptInv /\ ImagesInv /\ [AnyCall(StructureFree)]_vars => ImagesInv'
<1> SUFFICES ASSUME KeptInv, ImagesInv, [AnyCall(StructureFree)]_vars PROVE ImagesInv'
  OBVIOUS
<1>0. IsTree(sections)
  BY DEF KeptInv
<1>1. CASE \E path \in StructureFree : MakeSection(path)
  BY <1>0, <1>1, MakeSectionImages DEF StructureFree
<1>2. CASE \E path \in StructureFree : \E key, value : SetParam(path, key, value)
  BY <1>0, <1>2, SetParamImages DEF StructureFree
<1>3. CASE \E file \in Structures : GetXyz(file)
  BY <1>3, GetXyzImages
<1>4. CASE \E k \in Kpaths : SetKpointSet(k)
  BY <1>0, <1>4, SetKpointSetImages
<1>5. CASE \E files \in ImageLists : SetImages(files)
  BY <1>5, SetImagesImages
<1>6. CASE Run
  BY <1>0, <1>6, RunImages
<1>7. CASE UNCHANGED vars
  BY <1>7 DEF vars, history, ImagesInv
<1> QED
  BY <1>1, <1>2, <1>3, <1>4, <1>5, <1>6, <1>7 DEF AnyCall

LEMMA ImagesInit == StructureIsLeft /\ Init => ImagesInv
<1> SUFFICES ASSUME StructureIsLeft, Init PROVE ImagesInv
  OBVIOUS
<1>1. DOMAIN sections = UNION {OnTheWay(Names(e.path)) : e \in Settings[class]}
  BY DEF Init, Constructed
<1>2. \A e \in Settings[class] : e.path \in Path /\ LeavesStructure(e.path)
  <2>1. \A e \in Settings[class] : e.path \in GivenPaths
    BY EntryPaths DEF Init
  <2> QED
    BY <2>1, EntryPaths DEF StructureIsLeft
<1>3. \A i : Replica(i) \notin DOMAIN sections
  BY <1>1, <1>2, LeavingPath
<1>4. images = <<>> /\ listed = <<>> /\ input = <<>>
  BY DEF Init
<1>5. <<>> \in Seq(STRING)
  OBVIOUS
<1> QED
  BY <1>3, <1>4, <1>5 DEF ImagesInv

-----------------------------------------------------------------------------
(* The order of the images in the input. *)

\* No two numbers below a hundred have the same place.
LEMMA PlacesDiffer ==
    /\ \A i \in 0..99 : Place(i) \in Nat
    /\ \A i, j \in 0..99 : Place(i) = Place(j) => i = j
    /\ \A i, j \in 0..9 : Place(i) < Place(j) <=> i < j
<1>1. ASSUME NEW i \in 0..99
      PROVE  /\ i \div 10 \in 0..9 /\ i % 10 \in 0..9
             /\ i = 10 * (i \div 10) + (i % 10)
             /\ i >= 10 => i \div 10 >= 1
  OBVIOUS
<1>2. \A i \in 0..99 : Place(i) \in Nat
  BY <1>1 DEF Place
<1>3. ASSUME NEW i \in 0..99, NEW j \in 0..99, Place(i) = Place(j)
      PROVE  i = j
  <2> DEFINE p == i \div 10
             q == i % 10
             r == j \div 10
             s == j % 10
  <2>1. /\ p \in 0..9 /\ q \in 0..9 /\ i = 10 * p + q /\ (i >= 10 => p >= 1)
        /\ r \in 0..9 /\ s \in 0..9 /\ j = 10 * r + s /\ (j >= 10 => r >= 1)
    BY <1>1
  <2>2. /\ Place(i) = IF i < 10 THEN 11 * i + 10 ELSE 11 * p + q
        /\ Place(j) = IF j < 10 THEN 11 * j + 10 ELSE 11 * r + s
    BY DEF Place
  <2> HIDE DEF p, q, r, s
  <2> QED
    BY <1>3, <2>1, <2>2
<1>4. \A i, j \in 0..9 : Place(i) < Place(j) <=> i < j
  BY DEF Place
<1> QED
  BY <1>2, <1>3, <1>4

LEMMA Intervals ==
    \A n \in Nat : IsFiniteSet(0..(n - 1)) /\ Cardinality(0..(n - 1)) = n
<1> SUFFICES ASSUME NEW n \in Nat PROVE IsFiniteSet(0..(n - 1)) /\ Cardinality(0..(n - 1)) = n
  OBVIOUS
<1> DEFINE a == 0
           b == n - 1
<1>1. a \in Int /\ b \in Int
  OBVIOUS
<1>2. IF a > b THEN n = 0 ELSE b - a + 1 = n
  OBVIOUS
<1> HIDE DEF a, b
<1>3. IsFiniteSet(a..b) /\ Cardinality(a..b) = IF a > b THEN 0 ELSE b - a + 1
  BY <1>1, FS_Interval
<1>4. Cardinality(a..b) = n
  BY <1>2, <1>3
<1> QED
  BY <1>3, <1>4 DEF a, b

\* How many members of J come before p of it: each number up to that of the
\* members belongs to one of them.
Before(J, i) == {j \in J : Place(j) < Place(i)}

LEMMA Ranks ==
    ASSUME NEW J \in SUBSET (0..99)
    PROVE  /\ Cardinality(J) \in Nat
           /\ \A i \in J : Cardinality(Before(J, i)) \in 0..(Cardinality(J) - 1)
           /\ \A i, j \in J : Cardinality(Before(J, i)) = Cardinality(Before(J, j)) => i = j
           /\ \A n \in 1..Cardinality(J) : \E i \in J : Cardinality(Before(J, i)) = n - 1
<1> DEFINE c == Cardinality(J)
           rank == [i \in J |-> Cardinality(Before(J, i))]
           T == 0..(c - 1)
<1>1. IsFiniteSet(J) /\ c \in Nat
  <2>1. 100 \in Nat /\ 100 - 1 = 99
    OBVIOUS
  <2>2. IsFiniteSet(0..99)
    BY <2>1, Intervals
  <2> QED
    BY <2>2, FS_Subset, FS_CardinalityType
<1>2. ASSUME NEW i \in J
      PROVE  /\ IsFiniteSet(Before(J, i)) /\ Cardinality(Before(J, i)) \in Nat
             /\ Cardinality(Before(J, i)) < c
  <2>1. Before(J, i) \subseteq J /\ Before(J, i) # J
    <3>1. i \notin Before(J, i)
      BY PlacesDiffer, SMTT(40) DEF Before
    <3> QED
      BY <3>1 DEF Before
  <2>2. IsFiniteSet(Before(J, i)) /\ Cardinality(Before(J, i)) <= c /\ Cardinality(Before(J, i)) # c
    BY <1>1, <2>1, FS_Subset
  <2> QED
    BY <1>1, <2>2, FS_CardinalityType
<1>3. ASSUME NEW i \in J, NEW j \in J, Place(i) < Place(j)
      PROVE  Cardinality(Before(J, i)) < Cardinality(Before(J, j))
  <2>1. Place(i) \in Nat /\ Place(j) \in Nat /\ \A l \in J : Place(l) \in Nat
    BY PlacesDiffer
  <2>2. Before(J, i) \subseteq Before(J, j)
    <3>1. \A l \in J : Place(l) < Place(i) => Place(l) < Place(j)
      BY <1>3, <2>1
    <3> QED
      BY <3>1 DEF Before
  <2>3. i \in Before(J, j) /\ i \notin Before(J, i)
    BY <1>3, <2>1 DEF Before
  <2>4. /\ Cardinality(Before(J, i)) <= Cardinality(Before(J, j))
        /\ Cardinality(Before(J, i)) # Cardinality(Before(J, j))
    BY <1>2, <2>2, <2>3, FS_Subset
  <2> QED
    BY <1>2, <2>4
<1>4. ASSUME NEW i \in J, NEW j \in J, rank[i] = rank[j]
      PROVE  i = j
  <2>1. Place(i) \in Nat /\ Place(j) \in Nat /\ (Place(i) = Place(j) => i = j)
    BY PlacesDiffer
  <2>2. ~ (Place(i) < Place(j)) /\ ~ (Place(j) < Place(i))
    BY <1>2, <1>3, <1>4
  <2> QED
    BY <2>1, <2>2
<1>5. rank \in [J -> T]
  BY <1>1, <1>2
<1>6. rank \in Injection(J, T)
  BY <1>4, <1>5 DEF Injection, IsInjective
<1>7. IsFiniteSet(T) /\ Cardinality(T) = c
  BY <1>1, Intervals
<1> HIDE DEF rank, T
<1>8. rank \in Surjection(J, T)
  BY <1>6, <1>7, FS_Injection
<1>9. \A n \in T : \E i \in J : rank[i] = n
  BY <1>8 DEF Surjection
<1>10. ASSUME NEW n \in 1..c PROVE \E i \in J : Cardinality(Before(J, i)) = n - 1
  <2>1. n - 1 \in T
    BY <1>1 DEF T
  <2> QED
    BY <1>9, <2>1 DEF rank
<1> QED
  BY <1>1, <1>2, <1>4, <1>10 DEF rank

\* Up to ten numbers are printed in order.
LEMMA RankUpToTen ==
    ASSUME NEW n \in 0..10, NEW i \in 0..(n - 1)
    PROVE  Cardinality(Before(0..(n - 1), i)) = i
<1>1. \A j \in 0..(n - 1) : j \in 0..9
  OBVIOUS
<1>2. Before(0..(n - 1), i) = 0..(i - 1)
  <2>1. \A j \in 0..(n - 1) : Place(j) < Place(i) <=> j < i
    BY <1>1, PlacesDiffer
  <2>2. \A j : j \in 0..(i - 1) <=> j \in 0..(n - 1) /\ j < i
    OBVIOUS
  <2>3. \A j : j \in Before(0..(n - 1), i) <=> j \in 0..(n - 1) /\ j < i
    BY <2>1 DEF Before
  <2> QED
    BY <2>2, <2>3
<1>3. Cardinality(0..(i - 1)) = i
  <2>1. i \in Nat
    OBVIOUS
  <2> QED
    BY <2>1, Intervals
<1> QED
  BY <1>2, <1>3

\* The replicas of a tree are those of files: what it prints of them.
LEMMA PrintedIs ==
    ASSUME NEW files \in Seq(STRING), Len(files) <= 100, NEW tree, Replicas(tree, files)
    PROVE  LET printed == PrintedImages(tree)
           IN  /\ {printed[n] : n \in DOMAIN printed} = {files[n] : n \in DOMAIN files}
               /\ Len(files) <= 10 => printed = files
<1> DEFINE m == Len(files)
           numbers == {i \in 0..99 : Replica(i) \in DOMAIN tree}
           rank(i) == Cardinality(Before(numbers, i))
           c == Cardinality(numbers)
           at(n) == CHOOSE i \in numbers : rank(i) = n - 1
           printed == PrintedImages(tree)
<1>1. m \in Nat /\ DOMAIN files = 1..m /\ m <= 100
  OBVIOUS
<1>0. \A i \in Nat :
          /\ Replica(i) \in DOMAIN tree <=> i < m
          /\ i < m => tree[Replica(i)].params.coord_file_name = <<files[i + 1]>>
  BY DEF Replicas
<1> HIDE DEF m
<1>2. numbers = 0..(m - 1)
  <2>1. \A i \in 0..99 : Replica(i) \in DOMAIN tree <=> i < m
    BY <1>0
  <2>2. /\ \A i \in 0..(m - 1) : i \in 0..99 /\ i < m
        /\ \A i \in 0..99 : i < m => i \in 0..(m - 1)
    BY <1>1
  <2>3. \A i : i \in numbers <=> i \in 0..(m - 1)
    BY <2>1, <2>2
  <2> HIDE DEF numbers
  <2> QED
    BY <2>3
<1>3. c = m
  <2>1. Cardinality(0..(m - 1)) = m
    BY <1>1, Intervals
  <2> QED
    BY <1>2, <2>1
<1>4. printed = [n \in 1..c |-> tree[Replica(at(n))].params.coord_file_name[1]]
  BY DEF PrintedImages, Before
<1>5. /\ \A i \in numbers : rank(i) \in 0..(c - 1)
      /\ \A i, j \in numbers : rank(i) = rank(j) => i = j
      /\ \A n \in 1..c : \E i \in numbers : rank(i) = n - 1
  <2>1. numbers \in SUBSET (0..99)
    OBVIOUS
  <2> HIDE DEF numbers
  <2> QED
    BY <2>1, Ranks
<1>6. \A i \in numbers : tree[Replica(i)].params.coord_file_name[1] = files[i + 1]
  <2>1. \A i \in numbers : i \in Nat /\ i < m
    BY <1>1, <1>2
  <2>2. \A x : <<x>>[1] = x
    OBVIOUS
  <2> HIDE DEF numbers
  <2> QED
    BY <1>0, <2>1, <2>2
<1> HIDE DEF numbers, rank, c
<1>7. \A n \in 1..c : at(n) \in numbers /\ rank(at(n)) = n - 1
  BY <1>5
<1> HIDE DEF at, printed
<1>8. DOMAIN printed = 1..c /\ \A n \in 1..c : printed[n] = files[at(n) + 1]
  BY <1>4, <1>6, <1>7
<1>9. \A n \in 1..c : at(n) + 1 \in DOMAIN files
  BY <1>1, <1>2, <1>7
<1>10. ASSUME NEW l \in DOMAIN files
       PROVE  \E n \in 1..c : printed[n] = files[l]
  <2> DEFINE n == rank(l - 1) + 1
  <2>1. l - 1 \in numbers /\ (l - 1) + 1 = l
    BY <1>1, <1>2
  <2>2. rank(l - 1) \in 0..(c - 1)
    BY <1>5, <2>1
  <2>3. n \in 1..c /\ n - 1 = rank(l - 1)
    BY <1>1, <1>3, <2>2
  <2>4. at(n) = l - 1
    <3> HIDE DEF n
    <3> QED
      BY <1>5, <1>7, <2>1, <2>3
  <2> QED
    BY <1>8, <2>1, <2>3, <2>4
<1>11. {printed[n] : n \in DOMAIN printed} = {files[n] : n \in DOMAIN files}
  <2> DEFINE A == {printed[n] : n \in DOMAIN printed}
             B == {files[n] : n \in DOMAIN files}
  <2>1. ASSUME NEW x \in A PROVE x \in B
    <3>1. PICK n \in 1..c : x = printed[n]
      BY <1>8, <2>1
    <3> QED
      BY <1>8, <1>9, <3>1
  <2>2. ASSUME NEW x \in B PROVE x \in A
    <3>1. PICK l \in DOMAIN files : x = files[l]
      BY <2>2
    <3>2. PICK n \in 1..c : printed[n] = files[l]
      BY <1>10
    <3> QED
      BY <1>8, <3>1, <3>2
  <2> HIDE DEF A, B
  <2>3. A = B
    BY <2>1, <2>2
  <2> QED
    BY <2>3 DEF A, B
<1>12. ASSUME m <= 10 PROVE printed = files
  <2>1. \A i \in numbers : rank(i) = i
    <3>1. m \in 0..10
      BY <1>1, <1>12
    <3>2. \A i \in 0..(m - 1) : Cardinality(Before(0..(m - 1), i)) = i
      BY <3>1, RankUpToTen
    <3> QED
      BY <1>2, <3>2 DEF rank
  <2>2. \A n \in 1..c : at(n) = n - 1
    BY <1>7, <2>1
  <2>3. \A n \in 1..c : printed[n] = files[n]
    <3>1. \A n \in 1..c : (n - 1) + 1 = n
      BY <1>1, <1>3
    <3> QED
      BY <1>8, <2>2, <3>1
  <2>4. printed = [n \in 1..c |-> printed[n]] /\ files = [n \in 1..c |-> files[n]]
    BY <1>1, <1>3, <1>4, <1>8
  <2> QED
    BY <2>3, <2>4
<1> QED
  BY <1>11, <1>12 DEF printed, m

LEMMA ImagesImply == ImagesInv => ImagesInOrder
<1> SUFFICES ASSUME ImagesInv, class = "Neb", input # <<>>, Len(listed) <= 100
             PROVE  LET printed == PrintedImages(input) IN
                    /\ {printed[n] : n \in DOMAIN printed} = {listed[n] : n \in DOMAIN listed}
                    /\ Len(listed) <= 10 => printed = listed
  BY DEF ImagesInOrder
<1> DEFINE files == listed
           tree == input
<1>1. files \in Seq(STRING) /\ Len(files) <= 100 /\ Replicas(tree, files)
  BY DEF ImagesInv
<1> HIDE DEF files, tree
<1>2. LET printed == PrintedImages(tree)
      IN  /\ {printed[n] : n \in DOMAIN printed} = {files[n] : n \in DOMAIN files}
          /\ Len(files) <= 10 => printed = files
  BY <1>1, PrintedIs
<1> QED
  BY <1>2 DEF files, tree

LEMMA CompleteImplies == StructureInv /\ ImagesInv => StructureIsComplete
  BY StructureImplies, ImagesImply DEF StructureIsComplete

-----------------------------------------------------------------------------
(* Scripts. *)

LEMMA ScriptStep ==
    /\ [Next]_vars => [AnyCall(Path)]_vars
    /\ KpointsAreLeft => ([Next]_vars => [AnyCall(KpointFree)]_vars)
<1>1. GivenPaths \cup {<<>>} \subseteq Path
  BY EntryPaths
<1>2. KpointsAreLeft => GivenPaths \cup {<<>>} \subseteq KpointFree
  BY <1>1, EntryPaths DEF KpointFree, KpointsAreLeft
<1> QED
  BY <1>1, <1>2, NextIsAnyCall

LEMMA CrashInit == Init => CrashInv
  BY EmptySeq DEF Init, CrashInv, CrashNeedsCause

LEMMA InvariantsImply ==
    /\ KeptInv => SetIsKept
    /\ CrashInv => CrashNeedsCause
    /\ KpointsInv => KpointSetsFollowPath
  BY DEF KeptInv, SetIsKept, Holds, CrashInv, KpointsInv, KpointSetsFollowPath

\* Cp2k::set_param, new_section, get_xyz, set_kpoint_set and Neb::run: in
\* any order of calls, a parameter is where it was set, with the value it
\* was given last.
THEOREM ParametersAreKept == Spec => []SetIsKept
  BY KeptInit, KeptNext, ScriptStep, InvariantsImply, PTL DEF Spec

\* Cp2k::set_param and set_kpoint_set: no order of calls makes them leave
\* the tree or the k-path, unless a path has no section or a k-path no point.
THEOREM CrashesNeedCause == Spec => []CrashNeedsCause
  BY KeptInit, KeptNext, CrashInit, CrashNext, ScriptStep, InvariantsImply, PTL DEF Spec

\* Cp2k::set_kpoint_set: where the k-point sets are set by nothing else, the
\* first ones are the segments of the k-path given last, and what is left
\* after them is of a k-path that had more, in any order of calls.
THEOREM KpointSetsAreSegments ==
    ASSUME KpointsAreLeft
    PROVE  Spec => []KpointSetsFollowPath
  BY KeptInit, KeptNext, CrashInit, CrashNext, KpointsInit, KpointsNext, ScriptStep,
     InvariantsImply, PTL DEF Spec

LEMMA StructureScriptStep == StructureIsLeft => ([Next]_vars => [AnyCall(StructureFree)]_vars)
<1>1. StructureIsLeft => GivenPaths \cup {<<>>} \subseteq StructureFree
  BY EntryPaths DEF StructureFree, StructureIsLeft
<1> QED
  BY <1>1, NextIsAnyCall

\* Cp2k::get_xyz, set_subsys, to_string and Neb::run: where nothing else
\* sets the atoms, the names of the kinds and the replicas, the input has the
\* structure read last, one kind with basis set and potential of each of its
\* elements, and every image of Neb, in order up to ten.
THEOREM StructureReachesInput ==
    ASSUME StructureIsLeft
    PROVE  Spec => []StructureIsComplete
  BY KeptInit, KeptNext, StructureInit, StructureNext, ImagesInit, ImagesNext, ScriptStep,
     StructureScriptStep, CompleteImplies, PTL DEF Spec

-----------------------------------------------------------------------------
(* The calls of a command. *)
ItemCalls == [op: {"set_param"}, arg: GivenItems]

Calls ==
    ItemCalls
    \cup [op: {"get_xyz"}, arg: Structures]
    \cup [op: {"set_kpoint_set"}, arg: Kpaths]
    \cup [op: {"set_images"}, arg: ImageLists]
    \cup [op: {"run", "raise"}, arg: {<<>>}]

\* The items of --custom and --custom-file.
LEMMA ItemsGiven ==
    /\ \A items \in Customs : items \in Seq(GivenItems)
    /\ PrintLevel(<<"LOW">>) \in GivenItems
    /\ GivenItems \subseteq Assignments
    /\ \A item \in GivenItems : item.path \in Path /\ item.path # <<>>
<1>0. \A x : x \in GivenItems <=> \/ x = PrintLevel(<<"LOW">>)
                                 \/ \E items \in Customs : \E i \in DOMAIN items : x = items[i]
  <2> DEFINE low == PrintLevel(<<"LOW">>)
             sets == {{items[i] : i \in DOMAIN items} : items \in Customs}
  <2>1. GivenItems = (UNION sets) \cup {low}
    BY DEF GivenItems
  <2>2. \A items \in Customs : {items[i] : i \in DOMAIN items} \in sets
    OBVIOUS
  <2>3. \A s \in sets : \E items \in Customs : s = {items[i] : i \in DOMAIN items}
    OBVIOUS
  <2> HIDE DEF low, sets
  <2>4. \A x : x \in GivenItems <=> x = low \/ \E s \in sets : x \in s
    BY <2>1
  <2>5. ASSUME NEW items \in Customs, NEW i \in DOMAIN items PROVE items[i] \in GivenItems
    BY <2>2, <2>4
  <2>6. ASSUME NEW x \in GivenItems, x # low
        PROVE  \E items \in Customs : \E i \in DOMAIN items : x = items[i]
    <3>1. PICK s \in sets : x \in s
      BY <2>4, <2>6
    <3>2. PICK items \in Customs : s = {items[i] : i \in DOMAIN items}
      BY <2>3
    <3> QED
      BY <3>1, <3>2
  <2>7. low \in GivenItems
    BY <2>4
  <2> QED
    BY <2>5, <2>6, <2>7 DEF low
<1>1. ASSUME NEW items \in Customs PROVE items \in Seq(GivenItems)
  <2>1. items \in Seq(Assignments)
    BY CliAssumption
  <2>2. Len(items) \in Nat /\ DOMAIN items = 1..Len(items) /\ items = [i \in 1..Len(items) |-> items[i]]
    BY <2>1, LenProperties
  <2>3. \A i \in 1..Len(items) : items[i] \in GivenItems
    BY <1>0, <2>2
  <2> DEFINE n == Len(items)
             S == GivenItems
  <2> HIDE DEF n, S
  <2>4. items \in [1..n -> S] /\ n \in Nat
    BY <2>2, <2>3 DEF n, S
  <2>5. items \in Seq(S)
    BY <2>4, IsASeq
  <2> QED
    BY <2>5 DEF S
<1>2. PrintLevel(<<"LOW">>) \in GivenItems
  BY <1>0
<1>3. ASSUME NEW x \in GivenItems PROVE x \in Assignments
  <2>1. CASE x = PrintLevel(<<"LOW">>)
    BY <2>1, CliAssumption
  <2>2. CASE \E items \in Customs : \E i \in DOMAIN items : x = items[i]
    <3>1. PICK items \in Customs : \E i \in DOMAIN items : x = items[i]
      BY <2>2
    <3>2. items \in Seq(Assignments)
      BY CliAssumption
    <3> DEFINE S == Assignments
    <3> HIDE DEF S
    <3>3. \A i \in DOMAIN items : items[i] \in S
      BY <3>2, ElementsOfSeq DEF S
    <3> QED
      BY <3>1, <3>3 DEF S
  <2> QED
    BY <1>0, <2>1, <2>2
<1>4. \A item \in Assignments : item.path \in Path /\ item.path # <<>>
  BY DEF Assignments
<1> QED
  BY <1>1, <1>2, <1>3, <1>4

\* A dict has each parameter once, with the value it is given last.
LEMMA DictIs ==
    ASSUME NEW S, NEW items \in Seq(S)
    PROVE  /\ Dict(items) \in Seq(S)
           /\ \A n \in DOMAIN Dict(items) : \E i \in DOMAIN items : Dict(items)[n] = items[i]
           /\ \A i \in DOMAIN items : LastOf(items, i) =>
                  \E n \in DOMAIN Dict(items) : Dict(items)[n] = items[i]
           /\ \A m, n \in DOMAIN Dict(items) :
                  Param(Dict(items)[m]) = Param(Dict(items)[n]) => m = n
<1> DEFINE l == Len(items)
           par(i) == Param(items[i])
           first(i) == \A j \in 1..(i - 1) : par(j) # par(i)
           F == {i \in DOMAIN items : first(i)}
           all == [i \in DOMAIN items |-> i]
           places == Only(all, F)
           same(i) == {j \in DOMAIN items : par(j) = par(i)}
           last(i) == CHOOSE j \in same(i) : \A k \in same(i) : k <= j
           dict == Dict(items)
<1>1. /\ l \in Nat /\ DOMAIN items = 1..l
      /\ \A i \in 1..l : items[i] \in S
  BY LenProperties
<1>2. dict = [n \in DOMAIN places |-> items[last(places[n])]]
  BY DEF Dict
<1> HIDE DEF l, par, dict
<1>3. /\ all \in Seq(1..l) /\ Range(all) = 1..l /\ Distinct(all)
  <2>1. all = [i \in 1..l |-> i]
    BY <1>1
  <2>2. all \in [1..l -> 1..l]
    BY <2>1
  <2>3. all \in Seq(1..l)
    BY <1>1, <2>2, IsASeq
  <2>4. Range(all) = 1..l
    BY <2>1 DEF Range
  <2>5. Distinct(all)
    BY <2>1 DEF Distinct
  <2> QED
    BY <2>3, <2>4, <2>5
<1>4. F \subseteq 1..l
  BY <1>1
<1> HIDE DEF all, F, places
<1>5. places \in Seq(1..l) /\ Range(places) = F /\ Distinct(places)
  <2> DEFINE N == 1..l
  <2>1. all \in Seq(N) /\ Range(all) \cap F = F /\ Distinct(all)
    BY <1>3, <1>4
  <2> HIDE DEF N
  <2>2. Only(all, F) \in Seq(N) /\ Range(Only(all, F)) = F /\ Distinct(Only(all, F))
    BY <2>1, OnlyTyped, OnlyHas, OnlyDistinct
  <2> QED
    BY <2>2 DEF places, N
<1>6. \A n \in DOMAIN places : places[n] \in F /\ places[n] \in 1..l
  BY <1>4, <1>5 DEF Range
<1>7. ASSUME NEW i \in 1..l
      PROVE  last(i) \in 1..l /\ par(last(i)) = par(i) /\ \A k \in same(i) : k <= last(i)
  <2>1. same(i) \in SUBSET (1..l) /\ i \in same(i)
    BY <1>1
  <2>2. \E j \in same(i) : \A k \in same(i) : k <= j
    <3> DEFINE T == same(i)
    <3>1. T \in SUBSET (1..l) /\ T # {}
      BY <2>1
    <3> HIDE DEF T
    <3>2. Max(T) \in T /\ \A k \in T : k <= Max(T)
      BY <1>1, <3>1, MaxOfNumbers
    <3> QED
      BY <3>2 DEF T
  <2>3. last(i) \in same(i) /\ \A k \in same(i) : k <= last(i)
    BY <2>2
  <2> QED
    BY <2>1, <2>3
<1> HIDE DEF last
<1>8. DOMAIN dict = DOMAIN places /\ \A n \in DOMAIN places : dict[n] = items[last(places[n])]
  BY <1>2
<1>9. \A n \in DOMAIN dict : /\ last(places[n]) \in 1..l
                             /\ dict[n] = items[last(places[n])]
                             /\ Param(dict[n]) = par(places[n])
  BY <1>6, <1>7, <1>8 DEF par
<1>10. dict \in Seq(S)
  <2> DEFINE p == Len(places)
  <2>1. p \in Nat /\ DOMAIN places = 1..p
    BY <1>5, LenProperties
  <2> HIDE DEF p
  <2>2. dict = [n \in 1..p |-> dict[n]]
    BY <1>2, <1>8, <2>1
  <2>3. \A n \in 1..p : dict[n] \in S
    BY <1>1, <1>8, <1>9, <2>1
  <2>4. dict \in [1..p -> S]
    BY <2>2, <2>3
  <2> QED
    BY <2>1, <2>4, IsASeq
<1>11. ASSUME NEW i \in DOMAIN items, LastOf(items, i)
       PROVE  \E n \in DOMAIN dict : dict[n] = items[i]
  <2>0. i \in 1..l /\ \A j \in (i + 1)..l : par(j) # par(i)
    BY <1>1, <1>11 DEF LastOf, par, l
  <2>1. PICK f \in same(i) : \A j \in same(i) : f <= j
    <3> DEFINE T == same(i)
    <3>1. T \in SUBSET (1..l) /\ T # {}
      BY <1>1, <2>0
    <3> HIDE DEF T
    <3>2. Min(T) \in T /\ \A k \in T : Min(T) <= k
      BY <1>1, <3>1, MinOfNumbers
    <3> QED
      BY <3>2 DEF T
  <2>2. f \in 1..l /\ par(f) = par(i)
    BY <1>1, <2>1
  <2>3. f \in F
    <3>1. ASSUME NEW j \in 1..(f - 1), par(j) = par(f) PROVE FALSE
      <4>1. j \in same(i)
        BY <1>1, <2>2, <3>1
      <4> QED
        BY <2>1, <2>2, <4>1
    <3> QED
      BY <1>1, <2>2, <3>1 DEF F
  <2>4. PICK n \in DOMAIN places : places[n] = f
    BY <1>5, <2>3 DEF Range
  <2>5. last(f) \in 1..l /\ par(last(f)) = par(f) /\ \A k \in same(f) : k <= last(f)
    BY <1>7, <2>2
  <2>6. i \in same(f)
    BY <1>1, <2>0, <2>2
  <2>7. i <= last(f)
    BY <2>5, <2>6
  <2>8. ~ (last(f) \in (i + 1)..l)
    BY <2>0, <2>2, <2>5
  <2>9. last(f) = i
    BY <1>1, <2>0, <2>5, <2>7, <2>8
  <2> QED
    BY <1>8, <2>4, <2>9
<1>12. ASSUME NEW m \in DOMAIN dict, NEW n \in DOMAIN dict, Param(dict[m]) = Param(dict[n])
       PROVE  m = n
  <2>1. /\ par(places[m]) = par(places[n])
        /\ places[m] \in 1..l /\ places[n] \in 1..l /\ first(places[m]) /\ first(places[n])
    BY <1>6, <1>8, <1>9, <1>12 DEF F
  <2>2. ~ (places[m] < places[n]) /\ ~ (places[n] < places[m])
    <3> DEFINE a == places[m]
               b == places[n]
    <3>1. /\ a \in 1..l /\ b \in 1..l /\ par(a) = par(b)
          /\ \A j \in 1..(a - 1) : par(j) # par(a)
          /\ \A j \in 1..(b - 1) : par(j) # par(b)
      BY <2>1
    <3> HIDE DEF a, b
    <3>2. ~ (a < b) /\ ~ (b < a)
      BY <1>1, <3>1
    <3> QED
      BY <3>2 DEF a, b
  <2>3. places[m] = places[n]
    BY <2>1, <2>2
  <2> QED
    BY <1>5, <1>8, <2>3 DEF Distinct
<1> QED
  BY <1>1, <1>8, <1>9, <1>10, <1>11, <1>12 DEF dict

\* The items that are set, as calls.
LEMMA SettingIs ==
    ASSUME NEW items \in Seq(GivenItems)
    PROVE  /\ Setting(items) \in Seq(Calls)
           /\ Len(Setting(items)) = Len(items)
           /\ \A n \in 1..Len(items) : Setting(items)[n] = [op |-> "set_param", arg |-> items[n]]
<1> DEFINE l == Len(items)
           G == GivenItems
           set(item) == [op |-> "set_param", arg |-> item]
<1>1. l \in Nat /\ DOMAIN items = 1..l
  BY LenProperties
<1>2. \A n \in 1..l : items[n] \in GivenItems
  <2> HIDE DEF l
  <2>1. items \in Seq(G)
    BY DEF G
  <2> HIDE DEF G
  <2>2. \A n \in DOMAIN items : items[n] \in G
    BY <2>1, ElementsOfSeq
  <2> QED
    BY <1>1, <2>2 DEF G
<1>3. \A item \in GivenItems : set(item) \in Calls
  BY DEF Calls, ItemCalls
<1> HIDE DEF l, set
<1>4. Setting(items) = [n \in 1..l |-> set(items[n])]
  BY <1>1 DEF Setting, set
<1>5. \A n \in 1..l : set(items[n]) \in Calls
  BY <1>2, <1>3
<1> DEFINE s == Setting(items)
           C == Calls
<1> HIDE DEF s, C
<1>6. s \in [1..l -> C]
  BY <1>4, <1>5 DEF s, C
<1>7. s \in Seq(C) /\ Len(s) = l
  BY <1>1, <1>6, IsASeq, LenProperties
<1> QED
  BY <1>4, <1>7 DEF s, C, l, set

\* The dict of --custom and the calls of a command.
Parsed(a) == Dict(<<PrintLevel(<<"LOW">>)>> \o a.custom)

PlanParts(cs, a, h) ==
    /\ h \in Nat
    /\ cs \in Seq(Calls)
    /\ Len(cs) = h + Len(a.file) + Len(Parsed(a)) + 1
    /\ \A n \in 1..h : cs[n].op \notin {"set_param", "run"}
    /\ \A n \in 1..Len(a.file) : cs[h + n] = [op |-> "set_param", arg |-> a.file[n]]
    /\ \A n \in 1..Len(Parsed(a)) :
           cs[h + Len(a.file) + n] = [op |-> "set_param", arg |-> Parsed(a)[n]]
    /\ cs[Len(cs)] = [op |-> "run", arg |-> <<>>]

LEMMA ArgumentsGiven ==
    ASSUME NEW calc, NEW a \in CommandLines(calc)
    PROVE  /\ ~ a.script
           /\ a.custom \in Seq(GivenItems) /\ a.file \in Seq(GivenItems)
           /\ a.xyz \in Structures
           /\ a.kpath # <<>> => a.kpath \in Kpaths
           /\ a.images # <<>> => a.images \in ImageLists
           /\ <<PrintLevel(<<"LOW">>)>> \o a.custom \in Seq(GivenItems)
           /\ Parsed(a) \in Seq(GivenItems)
<1>1. /\ a.script = FALSE /\ a.custom \in Customs /\ a.file \in Customs /\ a.xyz \in Structures
      /\ a.kpath # <<>> => a.kpath \in Kpaths
      /\ a.images # <<>> => a.images \in ImageLists
  BY DEF CommandLines
<1> DEFINE G == GivenItems
           low == PrintLevel(<<"LOW">>)
<1>2. a.custom \in Seq(G) /\ a.file \in Seq(G) /\ low \in G
  BY <1>1, ItemsGiven
<1> HIDE DEF G, low
<1>3. <<low>> \in Seq(G)
  BY <1>2
<1>4. <<low>> \o a.custom \in Seq(G)
  BY <1>2, <1>3, ConcatIs
<1>5. Dict(<<low>> \o a.custom) \in Seq(G)
  BY <1>4, DictIs
<1> QED
  BY <1>1, <1>2, <1>4, <1>5 DEF G, low, Parsed

\* Two sequences of known lengths, joined.
LEMMA JoinIs ==
    ASSUME NEW S, NEW s \in Seq(S), NEW t \in Seq(S), NEW m, NEW n, Len(s) = m, Len(t) = n
    PROVE  /\ s \o t \in Seq(S) /\ Len(s \o t) = m + n
           /\ m \in Nat /\ n \in Nat
           /\ \A i \in 1..m : (s \o t)[i] = s[i]
           /\ \A i \in 1..n : (s \o t)[m + i] = t[i]
<1>1. Len(s) \in Nat /\ Len(t) \in Nat
  BY LenProperties
<1>2. /\ s \o t \in Seq(S)
      /\ Len(s \o t) = Len(s) + Len(t)
      /\ \A i \in 1..Len(s) : (s \o t)[i] = s[i]
      /\ \A i \in 1..Len(t) : (s \o t)[Len(s) + i] = t[i]
  OBVIOUS
<1> DEFINE u == s \o t
           a == Len(s)
           b == Len(t)
<1>3. a = m /\ b = n
  OBVIOUS
<1> HIDE DEF u, a, b
<1>4. /\ u \in Seq(S) /\ Len(u) = m + n /\ m \in Nat /\ n \in Nat
      /\ \A i \in 1..m : u[i] = s[i]
      /\ \A i \in 1..n : u[m + i] = t[i]
  BY <1>1, <1>2, <1>3 DEF u, a, b
<1> QED
  BY <1>4 DEF u

LEMMA PlanIs ==
    ASSUME NEW calc, NEW a \in CommandLines(calc)
    PROVE  \E h : PlanParts(Plan(calc, a), a, h)
<1> DEFINE pre == IF calc \in {"Static", "Band"}
                  THEN <<[op |-> IF a.kpath = <<>> THEN "raise" ELSE "set_kpoint_set", arg |-> a.kpath]>>
                  ELSE IF calc = "Neb"
                  THEN <<[op |-> IF a.images = <<>> THEN "raise" ELSE "set_images", arg |-> a.images]>>
                  ELSE <<>>
           xyz == <<[op |-> "get_xyz", arg |-> a.xyz]>>
           file == Setting(a.file)
           custom == Setting(Parsed(a))
           run == <<[op |-> "run", arg |-> <<>>]>>
           cs == Plan(calc, a)
<1>1. cs = (pre \o ((xyz \o file) \o custom)) \o run
  BY DEF Plan, Commands, Parsed
<1>2. /\ a.custom \in Seq(GivenItems) /\ a.file \in Seq(GivenItems)
      /\ Parsed(a) \in Seq(GivenItems)
      /\ a.xyz \in Structures
      /\ a.kpath # <<>> => a.kpath \in Kpaths
      /\ a.images # <<>> => a.images \in ImageLists
  BY ArgumentsGiven
<1>3. pre \in Seq(Calls) /\ Len(pre) \in Nat /\ \A n \in 1..Len(pre) : pre[n].op \notin {"set_param", "run"}
  <2>1. ASSUME NEW op, NEW arg, [op |-> op, arg |-> arg] \in Calls, op \notin {"set_param", "run"},
               pre = <<[op |-> op, arg |-> arg]>>
        PROVE  pre \in Seq(Calls) /\ Len(pre) \in Nat /\ \A n \in 1..Len(pre) : pre[n].op \notin {"set_param", "run"}
    <3> DEFINE C == Calls
               call == [op |-> op, arg |-> arg]
    <3>1. call \in C /\ call.op = op /\ pre = <<call>>
      BY <2>1
    <3> HIDE DEF C, call, pre
    <3>2. pre \in Seq(C) /\ Len(pre) = 1 /\ pre[1] = call
      BY <3>1
    <3>3. \A n \in 1..Len(pre) : n = 1
      BY <3>2
    <3> QED
      BY <2>1, <3>1, <3>2, <3>3 DEF C
  <2>2. CASE calc \in {"Static", "Band"}
    <3> DEFINE op == IF a.kpath = <<>> THEN "raise" ELSE "set_kpoint_set"
    <3>1. [op |-> op, arg |-> a.kpath] \in Calls /\ op \notin {"set_param", "run"}
      BY <1>2 DEF Calls
    <3>2. pre = <<[op |-> op, arg |-> a.kpath]>>
      BY <2>2
    <3> HIDE DEF op, pre
    <3> QED
      BY <2>1, <3>1, <3>2
  <2>3. CASE calc = "Neb"
    <3> DEFINE op == IF a.images = <<>> THEN "raise" ELSE "set_images"
    <3>1. [op |-> op, arg |-> a.images] \in Calls /\ op \notin {"set_param", "run"}
      BY <1>2 DEF Calls
    <3>2. pre = <<[op |-> op, arg |-> a.images]>>
      BY <2>3
    <3> HIDE DEF op, pre
    <3> QED
      BY <2>1, <3>1, <3>2
  <2>4. CASE calc \notin {"Static", "Band", "Neb"}
    <3>1. pre = <<>>
      BY <2>4
    <3> QED
      BY <3>1
  <2> QED
    BY <2>2, <2>3, <2>4
<1>4. /\ xyz \in Seq(Calls) /\ Len(xyz) = 1 /\ xyz[1].op = "get_xyz"
      /\ run \in Seq(Calls) /\ Len(run) = 1 /\ run[1] = [op |-> "run", arg |-> <<>>]
  <2> DEFINE C == Calls
             x == [op |-> "get_xyz", arg |-> a.xyz]
             r == [op |-> "run", arg |-> <<>>]
  <2>1. x \in C /\ r \in C /\ x.op = "get_xyz"
    BY <1>2 DEF Calls
  <2> HIDE DEF C, x, r
  <2>2. <<x>> \in Seq(C) /\ Len(<<x>>) = 1 /\ <<x>>[1] = x
    BY <2>1
  <2>3. <<r>> \in Seq(C) /\ Len(<<r>>) = 1 /\ <<r>>[1] = r
    BY <2>1
  <2> QED
    BY <2>1, <2>2, <2>3 DEF C, x, r
<1>5. /\ file \in Seq(Calls) /\ Len(file) = Len(a.file)
      /\ \A n \in 1..Len(a.file) : file[n] = [op |-> "set_param", arg |-> a.file[n]]
      /\ custom \in Seq(Calls) /\ Len(custom) = Len(Parsed(a))
      /\ \A n \in 1..Len(Parsed(a)) : custom[n] = [op |-> "set_param", arg |-> Parsed(a)[n]]
  BY <1>2, SettingIs
<1>6. /\ Len(a.file) \in Nat /\ Len(Parsed(a)) \in Nat
  BY <1>2, LenProperties
<1> DEFINE C == Calls
           f == Len(a.file)
           d == Len(Parsed(a))
           h == Len(pre) + 1
<1>7. /\ pre \in Seq(C) /\ xyz \in Seq(C) /\ file \in Seq(C) /\ custom \in Seq(C) /\ run \in Seq(C)
      /\ Len(pre) \in Nat /\ h = Len(pre) + 1 /\ Len(xyz) = 1 /\ Len(file) = f /\ Len(custom) = d /\ Len(run) = 1
      /\ f \in Nat /\ d \in Nat
  BY <1>3, <1>4, <1>5, <1>6
<1> HIDE DEF C, f, d, h, pre, xyz, file, custom, run, cs
<1>8. /\ xyz \o file \in Seq(C) /\ Len(xyz \o file) = 1 + f
      /\ (xyz \o file)[1] = xyz[1]
      /\ \A n \in 1..f : (xyz \o file)[1 + n] = file[n]
  <2> DEFINE l == 1
  <2>0. xyz \in Seq(C) /\ file \in Seq(C) /\ Len(xyz) = l /\ Len(file) = f
    BY <1>7
  <2> HIDE DEF l
  <2>1. /\ xyz \o file \in Seq(C) /\ Len(xyz \o file) = l + f
        /\ \A n \in 1..l : (xyz \o file)[n] = xyz[n]
        /\ \A n \in 1..f : (xyz \o file)[l + n] = file[n]
    BY <2>0, JoinIs
  <2>2. 1 \in 1..l
    BY DEF l
  <2> QED
    BY <2>1, <2>2 DEF l
<1> DEFINE p == xyz \o file
<1> HIDE DEF p
<1>9. /\ p \o custom \in Seq(C) /\ Len(p \o custom) = 1 + f + d
      /\ \A n \in 1..(1 + f) : (p \o custom)[n] = p[n]
      /\ \A n \in 1..d : (p \o custom)[1 + f + n] = custom[n]
  <2> DEFINE l == 1 + f
  <2>1. p \in Seq(C) /\ Len(p) = l /\ custom \in Seq(C) /\ Len(custom) = d
    BY <1>7, <1>8 DEF p
  <2> HIDE DEF l
  <2>2. /\ p \o custom \in Seq(C) /\ Len(p \o custom) = l + d
        /\ \A n \in 1..l : (p \o custom)[n] = p[n]
        /\ \A n \in 1..d : (p \o custom)[l + n] = custom[n]
    BY <2>1, JoinIs
  <2> QED
    BY <2>2 DEF l
<1> DEFINE q == p \o custom
<1> HIDE DEF q
<1>10. /\ pre \o q \in Seq(C) /\ Len(pre \o q) = Len(pre) + (1 + f + d)
       /\ \A n \in 1..Len(pre) : (pre \o q)[n] = pre[n]
       /\ \A n \in 1..(1 + f + d) : (pre \o q)[Len(pre) + n] = q[n]
  <2> DEFINE l == 1 + f + d
             m == Len(pre)
  <2>1. q \in Seq(C) /\ Len(q) = l /\ pre \in Seq(C) /\ Len(pre) = m
    BY <1>7, <1>9 DEF q
  <2> HIDE DEF l, m
  <2>2. /\ pre \o q \in Seq(C) /\ Len(pre \o q) = m + l
        /\ \A n \in 1..m : (pre \o q)[n] = pre[n]
        /\ \A n \in 1..l : (pre \o q)[m + n] = q[n]
    BY <2>1, JoinIs
  <2> QED
    BY <2>2 DEF l, m
<1> DEFINE r == pre \o q
<1> HIDE DEF r
<1>11. /\ cs \in Seq(C) /\ Len(cs) = Len(r) + 1
       /\ \A n \in 1..Len(r) : cs[n] = r[n]
       /\ cs[Len(r) + 1] = run[1]
  <2>1. cs = r \o run /\ r \in Seq(C)
    BY <1>1, <1>10 DEF p, q, r
  <2> DEFINE m == Len(r)
             l == 1
  <2>2. Len(run) = l /\ run \in Seq(C) /\ 1 \in 1..l /\ Len(r) = m
    BY <1>7
  <2> HIDE DEF m, l
  <2>3. /\ r \o run \in Seq(C) /\ Len(r \o run) = m + l
        /\ \A n \in 1..m : (r \o run)[n] = r[n]
        /\ \A n \in 1..l : (r \o run)[m + n] = run[n]
    BY <2>1, <2>2, JoinIs
  <2>4. (r \o run)[m + 1] = run[1] /\ m + l = m + 1
    BY <2>2, <2>3 DEF l
  <2> QED
    BY <2>1, <2>3, <2>4 DEF m
<1>12. h \in Nat /\ Len(r) = h + f + d
  BY <1>7, <1>10 DEF r
<1>13. ASSUME NEW n \in 1..h PROVE cs[n].op \notin {"set_param", "run"}
  <2>1. n \in 1..Len(r) /\ (n \in 1..Len(pre) \/ n = Len(pre) + 1)
    BY <1>7, <1>12
  <2>2. CASE n \in 1..Len(pre)
    BY <1>3, <1>10, <1>11, <2>1, <2>2 DEF r
  <2>3. CASE n = Len(pre) + 1
    <3>1. r[n] = q[1] /\ q[1] = p[1] /\ p[1] = xyz[1]
      BY <1>7, <1>8, <1>9, <1>10, <2>3 DEF p, q, r
    <3> QED
      BY <1>4, <1>11, <2>1, <3>1
  <2> QED
    BY <2>1, <2>2, <2>3
<1>14. ASSUME NEW n \in 1..f PROVE cs[h + n] = file[n]
  <2>1. h + n \in 1..Len(r) /\ h + n = Len(pre) + (1 + n) /\ 1 + n \in 1..(1 + f) /\ 1 + n \in 1..(1 + f + d)
    BY <1>7, <1>12
  <2>2. r[h + n] = q[1 + n] /\ q[1 + n] = p[1 + n] /\ p[1 + n] = file[n]
    BY <1>8, <1>9, <1>10, <2>1 DEF p, q, r
  <2> QED
    BY <1>11, <2>1, <2>2
<1>15. ASSUME NEW n \in 1..d PROVE cs[h + f + n] = custom[n]
  <2>1. h + f + n \in 1..Len(r) /\ h + f + n = Len(pre) + (1 + f + n) /\ 1 + f + n \in 1..(1 + f + d)
    BY <1>7, <1>12
  <2>2. r[h + f + n] = q[1 + f + n] /\ q[1 + f + n] = custom[n]
    BY <1>9, <1>10, <2>1 DEF q, r
  <2> QED
    BY <1>11, <2>1, <2>2
<1>16. Len(cs) = h + f + d + 1
  BY <1>11, <1>12
<1>17. cs[Len(cs)] = [op |-> "run", arg |-> <<>>]
  BY <1>4, <1>11
<1>18. PlanParts(cs, a, h)
  <2>1. \A n \in 1..f : file[n] = [op |-> "set_param", arg |-> a.file[n]]
    BY <1>5 DEF f
  <2>2. \A n \in 1..d : custom[n] = [op |-> "set_param", arg |-> Parsed(a)[n]]
    BY <1>5 DEF d
  <2>3. /\ cs \in Seq(Calls) /\ Len(cs) = h + Len(a.file) + Len(Parsed(a)) + 1
    BY <1>11, <1>16 DEF f, d, C
  <2>4. \A n \in 1..Len(a.file) : cs[h + n] = [op |-> "set_param", arg |-> a.file[n]]
    BY <1>14, <2>1 DEF f
  <2>5. \A n \in 1..Len(Parsed(a)) : cs[h + Len(a.file) + n] = [op |-> "set_param", arg |-> Parsed(a)[n]]
    BY <1>15, <2>2 DEF f, d
  <2> QED
    BY <1>12, <1>13, <1>17, <2>3, <2>4, <2>5 DEF PlanParts
<1> QED
  BY <1>18 DEF cs

-----------------------------------------------------------------------------
(* The calls a command has still to make are calls, and so each step of a  *)
(* command makes one.                                                      *)
PlanInv == plan \in Seq(Calls)

LEMMA PlanInit == CliInit => PlanInv
<1> SUFFICES ASSUME CliInit PROVE PlanInv
  OBVIOUS
<1>1. CASE plan = <<>>
  BY <1>1 DEF PlanInv
<1>2. CASE args \in CommandLines(class) /\ plan = Plan(class, args)
  <2>1. PICK calc, a : calc = class /\ a = args
    OBVIOUS
  <2>2. a \in CommandLines(calc) /\ plan = Plan(calc, a)
    BY <1>2, <2>1
  <2>3. \E h : PlanParts(Plan(calc, a), a, h)
    BY <2>2, PlanIs
  <2> QED
    BY <2>2, <2>3 DEF PlanParts, PlanInv
<1> QED
  BY <1>1, <1>2 DEF CliInit

LEMMA PlanNext == PlanInv /\ [CliNext]_cliVars => PlanInv'
<1> SUFFICES ASSUME PlanInv, [CliNext]_cliVars PROVE PlanInv'
  OBVIOUS
<1>1. CASE plan' = plan
  BY <1>1 DEF PlanInv
<1>2. CASE plan' = <<>>
  BY <1>2 DEF PlanInv
<1>3. CASE plan # <<>> /\ plan' = Tail(plan)
  BY <1>3, HeadTailProperties DEF PlanInv
<1> QED
  BY <1>1, <1>2, <1>3 DEF CliNext, Scripted, Commanded, Raise, cliVars

\* A step of a script or a command, with paths that are in S.
LEMMA CliStep ==
    ASSUME NEW S, GivenPaths \cup {<<>>} \subseteq S, \A item \in GivenItems : item.path \in S
    PROVE  PlanInv /\ [CliNext]_cliVars => [AnyCall(S)]_vars
<1> SUFFICES ASSUME PlanInv, [CliNext]_cliVars PROVE [AnyCall(S)]_vars
  OBVIOUS
<1>1. CASE UNCHANGED cliVars
  BY <1>1 DEF cliVars
<1>2. CASE Scripted
  BY <1>2, NextIsAnyCall DEF Scripted
<1>3. CASE Commanded
  <2>1. Head(plan) \in Calls
    BY <1>3, HeadTailProperties DEF Commanded, PlanInv
  <2>2. PICK call \in Calls : call = Head(plan)
    BY <2>1
  <2>3. /\ call.op = "set_kpoint_set" => call.arg \in Kpaths
        /\ call.op = "set_images" => call.arg \in ImageLists
        /\ call.op = "get_xyz" => call.arg \in Structures
        /\ call.op = "set_param" => call.arg \in GivenItems
    BY DEF Calls, ItemCalls
  <2>4. \/ call.op = "raise" /\ Raise
        \/ call.op = "set_kpoint_set" /\ SetKpointSet(call.arg)
        \/ call.op = "set_images" /\ SetImages(call.arg)
        \/ call.op = "get_xyz" /\ GetXyz(call.arg)
        \/ call.op = "set_param" /\ SetParam(call.arg.path, call.arg.key, call.arg.value)
        \/ call.op = "run" /\ Run
    BY <1>3, <2>2 DEF Commanded
  <2>5. CASE Raise
    BY <2>5 DEF Raise
  <2>6. CASE call.op = "set_param" /\ SetParam(call.arg.path, call.arg.key, call.arg.value)
    <3>1. call.arg.path \in S
      BY <2>3, <2>6
    <3> QED
      BY <2>6, <3>1 DEF AnyCall
  <2> QED
    BY <2>3, <2>4, <2>5, <2>6 DEF AnyCall
<1> QED
  BY <1>1, <1>2, <1>3 DEF CliNext

-----------------------------------------------------------------------------
(* What a command sets, and what is wanted then. *)
IsSet(cs, j) == cs[j].op = "set_param"

\* The j-th call sets a parameter that none of the calls up to k sets again.
LastSet(cs, j, k) ==
    /\ IsSet(cs, j)
    /\ \A l \in (j + 1)..k : IsSet(cs, l) => Param(cs[l].arg) # Param(cs[j].arg)

WantedIs(item) ==
    /\ <<Names(item.path), item.key>> \in DOMAIN wanted
    /\ wanted[<<Names(item.path), item.key>>] = item.value

\* k calls of cs are made, and none is run.
Underway(cs, k) ==
    /\ input = <<>>
    /\ plan = SubSeq(cs, k + 1, Len(cs))
    /\ \A j \in 1..k : LastSet(cs, j, k) => WantedIs(cs[j].arg)

(* The inductive invariant: until run, what the calls made so far have set *)
(* is wanted; a command ends with run or an exception, and then the input, *)
(* if it is there, has what they set.                                      *)
CommandInv ==
    \/ args = NoArgs /\ plan = <<>>
    \/ /\ args \in CommandLines(class)
       /\ LET cs == Plan(class, args) IN
          \/ /\ plan = <<>>
             /\ input # <<>> =>
                    \A j \in 1..Len(cs) : LastSet(cs, j, Len(cs)) => Prints(cs[j].arg)
          \/ \E k \in 0..(Len(cs) - 1) : Underway(cs, k)

\* The order of a plan: nothing but run follows what is set.
LEMMA PlanOrdered ==
    ASSUME NEW cs, NEW a, NEW h, PlanParts(cs, a, h), Len(a.file) \in Nat, Len(Parsed(a)) \in Nat
    PROVE  /\ Len(cs) \in Nat /\ Len(cs) >= 1
           /\ \A j \in 1..Len(cs) : cs[j].op = "run" <=> j = Len(cs)
           /\ \A j, l \in 1..Len(cs) : IsSet(cs, j) /\ j < l => cs[l].op \in {"set_param", "run"}
           /\ \A j \in 1..Len(cs) : IsSet(cs, j) => cs[j].arg \in GivenItems
<1> DEFINE f == Len(a.file)
           d == Len(Parsed(a))
           L == Len(cs)
<1>0. ASSUME NEW arg, NEW call, call = [op |-> "set_param", arg |-> arg]
      PROVE  call.op = "set_param"
  BY <1>0
<1>1. /\ h \in Nat /\ f \in Nat /\ d \in Nat /\ L = h + f + d + 1
      /\ \A n \in 1..h : cs[n].op \notin {"set_param", "run"}
      /\ \A n \in 1..f : cs[h + n].op = "set_param"
      /\ \A n \in 1..d : cs[h + f + n].op = "set_param"
      /\ cs[L].op = "run"
  <2>1. h \in Nat /\ f \in Nat /\ d \in Nat /\ L = h + f + d + 1
    BY DEF PlanParts
  <2>2. \A n \in 1..h : cs[n].op \notin {"set_param", "run"}
    BY DEF PlanParts
  <2>3. \A n \in 1..f : cs[h + n].op = "set_param"
    <3>1. \A n \in 1..f : cs[h + n] = [op |-> "set_param", arg |-> a.file[n]]
      BY DEF PlanParts
    <3> HIDE DEF f
    <3> QED
      BY <1>0, <3>1
  <2>4. \A n \in 1..d : cs[h + f + n].op = "set_param"
    <3>1. \A n \in 1..d : cs[h + f + n] = [op |-> "set_param", arg |-> Parsed(a)[n]]
      BY DEF PlanParts
    <3> HIDE DEF f, d
    <3> QED
      BY <1>0, <3>1
  <2>5. cs[L].op = "run"
    <3>1. cs[L] = [op |-> "run", arg |-> <<>>]
      BY DEF PlanParts
    <3> HIDE DEF L
    <3> QED
      BY <3>1
  <2> QED
    BY <2>1, <2>2, <2>3, <2>4, <2>5
<1> HIDE DEF f, d, L
<1>2. ASSUME NEW j \in 1..L
      PROVE  \/ j \in 1..h
             \/ \E n \in 1..f : j = h + n
             \/ \E n \in 1..d : j = h + f + n
             \/ j = L
  <2>1. CASE j > h /\ j <= h + f
    <3>1. j - h \in 1..f /\ j = h + (j - h)
      BY <1>1, <2>1
    <3> QED
      BY <3>1
  <2>2. CASE j > h + f /\ j <= h + f + d
    <3>1. j - (h + f) \in 1..d /\ j = h + f + (j - (h + f))
      BY <1>1, <2>2
    <3> QED
      BY <3>1
  <2> QED
    BY <1>1, <2>1, <2>2
<1>3. \A j \in 1..L : /\ j \in 1..h => cs[j].op \notin {"set_param", "run"}
                      /\ j \notin 1..h /\ j # L => cs[j].op = "set_param"
  BY <1>1, <1>2
<1>4. L \in Nat /\ L >= 1 /\ L \notin 1..h /\ L \in 1..L
  BY <1>1
<1>5. \A j \in 1..L : cs[j].op = "run" <=> j = L
  BY <1>1, <1>3, <1>4
<1>6. ASSUME NEW j \in 1..L, NEW l \in 1..L, IsSet(cs, j), j < l
      PROVE  cs[l].op \in {"set_param", "run"}
  <2>1. j \notin 1..h
    BY <1>3, <1>6 DEF IsSet
  <2>2. l \notin 1..h
    BY <1>1, <1>6, <2>1
  <2> QED
    BY <1>1, <1>3, <2>2
<1>7. ASSUME NEW j \in 1..L, IsSet(cs, j) PROVE cs[j].arg \in GivenItems
  <2> DEFINE C == Calls
  <2>1. cs \in Seq(C) /\ j \in 1..Len(cs)
    BY DEF PlanParts, L
  <2> HIDE DEF C
  <2>2. cs[j] \in C
    BY <2>1, ElementOfSeq
  <2>3. PICK call \in Calls : call = cs[j]
    BY <2>2 DEF C
  <2> QED
    BY <1>7, <2>3 DEF IsSet, Calls, ItemCalls
<1> QED
  BY <1>4, <1>5, <1>6, <1>7 DEF L

\* set_param sets what it is given.
LEMMA SetIsWanted ==
    ASSUME IsTree(sections), NEW item, item.path \in Path, item.path # <<>>,
           SetParam(item.path, item.key, item.value)
    PROVE  wanted' = Over(One(<<Names(item.path), item.key>>, item.value), wanted)
<1> DEFINE path == item.path
<1>1. OnTheWay(Names(SectionPath(path))) \subseteq DOMAIN Prepared(sections, path)
  BY PreparedKeeps
<1>2. Visited(path, item.key) \subseteq DOMAIN Prepared(sections, path)
  BY <1>1 DEF Visited, SectionPath
<1>3. crashed' = FALSE
  BY <1>2 DEF SetParam
<1> QED
  BY <1>3 DEF SetParam

\* One call of a command.
LEMMA CommandStep ==
    ASSUME OneSpelling, OthersAreLeft, KeptInv,
           NEW calc, NEW a \in CommandLines(calc), NEW cs, cs = Plan(calc, a),
           NEW k \in 0..(Len(cs) - 1), Underway(cs, k), Commanded
    PROVE  \/ /\ plan' = <<>>
              /\ input' # <<>> =>
                    \A j \in 1..Len(cs) : LastSet(cs, j, Len(cs)) => Prints(cs[j].arg)'
           \/ k + 1 \in 0..(Len(cs) - 1) /\ Underway(cs, k + 1)'
<1> DEFINE L == Len(cs)
           call == cs[k + 1]
<1>1. PICK h : PlanParts(cs, a, h)
  BY PlanIs
<1>2. Len(a.file) \in Nat /\ Len(Parsed(a)) \in Nat
  BY ArgumentsGiven, LenProperties
<1>3. /\ L \in Nat /\ L >= 1
      /\ \A j \in 1..L : cs[j].op = "run" <=> j = L
      /\ \A j, l \in 1..L : IsSet(cs, j) /\ j < l => cs[l].op \in {"set_param", "run"}
      /\ \A j \in 1..L : IsSet(cs, j) => cs[j].arg \in GivenItems
  BY <1>1, <1>2, PlanOrdered
<1>4. cs \in Seq(Calls)
  BY <1>1 DEF PlanParts
<1>5. /\ input = <<>> /\ plan = SubSeq(cs, k + 1, L)
      /\ \A j \in 1..k : LastSet(cs, j, k) => WantedIs(cs[j].arg)
  BY DEF Underway
<1>6. k \in Nat /\ k + 1 \in 1..L /\ (k + 1 # L => k + 1 \in 0..(L - 1))
  BY <1>3
<1>7. /\ Head(plan) = call
      /\ Tail(plan) = SubSeq(cs, k + 2, L)
      /\ k + 1 = L => Tail(plan) = <<>>
  <2> DEFINE C == Calls
             m == k + 1
  <2>1. cs \in Seq(C) /\ m \in 1..Len(cs) /\ L \in m..Len(cs)
    BY <1>3, <1>4, <1>6
  <2> HIDE DEF C, L, m
  <2>2. Head(SubSeq(cs, m, L)) = cs[m] /\ Tail(SubSeq(cs, m, L)) = SubSeq(cs, m + 1, L)
    BY <2>1, HeadTailOfSubSeq
  <2>3. m + 1 = k + 2
    BY <1>6 DEF m
  <2>4. k + 1 = L => SubSeq(cs, k + 2, L) = <<>>
    <3>1. k + 1 = L => k + 2 \in Int /\ L \in Int /\ L < k + 2
      BY <1>6
    <3> QED
      BY <3>1, SubSeqEmpty
  <2> QED
    BY <1>5, <2>2, <2>3, <2>4 DEF m, L
<1> DEFINE Done == k + 1 \in 0..(L - 1) /\ Underway(cs, k + 1)'
<1>8. ASSUME input' = <<>>, plan' = Tail(plan), k + 1 # L,
             \A j \in 1..(k + 1) : LastSet(cs, j, k + 1) => WantedIs(cs[j].arg)'
      PROVE  Done
  <2>1. plan' = SubSeq(cs, (k + 1) + 1, L)
    <3>1. (k + 1) + 1 = k + 2
      BY <1>6
    <3> QED
      BY <1>7, <1>8, <3>1
  <2> QED
    BY <1>6, <1>8, <2>1 DEF Underway
<1>9. CASE Raise
  BY <1>5, <1>9 DEF Raise, vars
<1>10. CASE /\ plan' = Tail(plan)
            /\ \/ call.op = "set_kpoint_set" /\ SetKpointSet(call.arg)
               \/ call.op = "set_images" /\ SetImages(call.arg)
               \/ call.op = "get_xyz" /\ GetXyz(call.arg)
  <2>1. input' = <<>>
    BY <1>5, <1>10 DEF SetKpointSet, SetImages, GetXyz
  <2>2. call.op \notin {"set_param", "run"}
    BY <1>10
  <2>3. k + 1 # L
    BY <1>3, <1>6, <2>2
  <2>4. ASSUME NEW j \in 1..(k + 1) PROVE ~ IsSet(cs, j)
    <3>1. CASE j = k + 1
      BY <2>2, <3>1 DEF IsSet
    <3>2. CASE j # k + 1
      <4>1. j \in 1..L /\ j < k + 1
        BY <1>6, <3>2
      <4> QED
        BY <1>3, <1>6, <2>2, <4>1
    <3> QED
      BY <3>1, <3>2
  <2>5. Done
    BY <1>8, <1>10, <2>1, <2>3, <2>4 DEF LastSet
  <2> QED
    BY <2>5
<1>11. CASE /\ plan' = Tail(plan)
            /\ call.op = "set_param" /\ SetParam(call.arg.path, call.arg.key, call.arg.value)
  <2> DEFINE item == call.arg
             w(i) == <<Names(i.path), i.key>>
  <2>1. item \in GivenItems /\ IsSet(cs, k + 1)
    BY <1>3, <1>6, <1>11 DEF IsSet
  <2>2. item.path \in Path /\ item.path # <<>>
    BY <2>1, ItemsGiven
  <2>3. wanted' = Over(One(w(item), item.value), wanted)
    <3> HIDE DEF call
    <3>1. IsTree(sections)
      BY DEF KeptInv
    <3> QED
      BY <1>11, <2>2, <3>1, SetIsWanted
  <2>4. input' = <<>> /\ k + 1 # L
    BY <1>3, <1>5, <1>6, <1>11 DEF SetParam
  <2> HIDE DEF call
  <2>5. /\ w(item) \in DOMAIN wanted' /\ wanted'[w(item)] = item.value
        /\ \A v \in DOMAIN wanted : v # w(item) => v \in DOMAIN wanted' /\ wanted'[v] = wanted[v]
    BY <2>3 DEF Over, One
  <2>6. ASSUME NEW j \in 1..(k + 1), LastSet(cs, j, k + 1)
        PROVE  WantedIs(cs[j].arg)'
    <3>1. CASE j = k + 1
      BY <2>5, <3>1 DEF WantedIs, call
    <3>2. CASE j # k + 1
      <4>1. j \in 1..k /\ j \in 1..L /\ k + 1 \in (j + 1)..(k + 1) /\ \A l \in (j + 1)..k : l \in (j + 1)..(k + 1)
        BY <1>6, <3>2
      <4>2. LastSet(cs, j, k) /\ Param(item) # Param(cs[j].arg)
        BY <2>1, <2>6, <4>1 DEF LastSet, call
      <4>3. WantedIs(cs[j].arg)
        BY <1>5, <4>1, <4>2
      <4>4. cs[j].arg \in GivenItems
        BY <1>3, <4>1, <4>2 DEF LastSet
      <4> DEFINE old == cs[j].arg
      <4> HIDE DEF old, item
      <4>5. w(old) # w(item)
        <5>1. old \in GivenItems /\ item \in GivenItems /\ Param(item) # Param(old)
          BY <2>1, <4>2, <4>4 DEF old
        <5>2. ~ (Names(old.path) = Names(item.path) /\ old.key = item.key)
          BY <5>1 DEF OneSpelling, Param
        <5> QED
          BY <5>2
      <4>6. w(old) \in DOMAIN wanted /\ wanted[w(old)] = old.value
        BY <4>3 DEF WantedIs, old
      <4>7. w(old) \in DOMAIN wanted' /\ wanted'[w(old)] = old.value
        BY <2>5, <4>5, <4>6
      <4> QED
        BY <4>7 DEF WantedIs, old
    <3> QED
      BY <3>1, <3>2
  <2>7. Done
    BY <1>8, <1>11, <2>4, <2>6
  <2> QED
    BY <2>7
<1>12. CASE plan' = Tail(plan) /\ call.op = "run" /\ Run
  <2>1. k + 1 = L /\ plan' = <<>>
    BY <1>3, <1>6, <1>7, <1>12
  <2>2. KeptInv'
    BY <1>12, RunKeeps
  <2>3. input' = sections' /\ wanted' = WantedOutside({Replica(i - 1) : i \in DOMAIN images})
    BY <1>12 DEF Run
  <2>4. ASSUME NEW j \in 1..L, LastSet(cs, j, L) PROVE Prints(cs[j].arg)'
    <3> DEFINE item == cs[j].arg
               w == <<Names(item.path), item.key>>
    <3>1. j # L
      <4>1. cs[j].op # "run"
        BY <2>4 DEF LastSet, IsSet
      <4> QED
        BY <1>3, <4>1
    <3>2. j \in 1..k /\ LastSet(cs, j, k)
      <4>1. j \in 1..k /\ \A l \in (j + 1)..k : l \in (j + 1)..L
        BY <1>6, <2>1, <3>1
      <4> QED
        BY <2>4, <4>1 DEF LastSet
    <3>3. WantedIs(item)
      BY <1>5, <3>2
    <3>4. item \in GivenItems
      BY <1>3, <2>4 DEF LastSet
    <3> HIDE DEF item
    <3>5. item.path \in Path /\ item.path # <<>> /\ LeavesStructure(item.path)
      BY <3>4, ItemsGiven DEF OthersAreLeft
    <3>6. \A i : Names(item.path) # Replica(i)
      BY <3>5, OwnPrefix, LeavingPath
    <3>7. w \in DOMAIN wanted /\ wanted[w] = item.value /\ w[1] = Names(item.path) /\ w[2] = item.key
      BY <3>3 DEF WantedIs
    <3> HIDE DEF w
    <3>8. w \in DOMAIN wanted' /\ wanted'[w] = item.value
      BY <2>3, <3>6, <3>7 DEF WantedOutside
    <3>9. Holds(sections', w, item.value)
      BY <2>2, <3>8 DEF KeptInv
    <3>10. /\ Names(item.path) \in DOMAIN input'
           /\ item.key \in DOMAIN input'[Names(item.path)].params
           /\ input'[Names(item.path)].params[item.key] = item.value
      BY <2>3, <3>7, <3>9 DEF Holds
    <3> QED
      BY <3>10 DEF Prints, item
  <2> QED
    BY <2>1, <2>4
<1> QED
  BY <1>7, <1>9, <1>10, <1>11, <1>12 DEF Commanded

LEMMA CommandInit == CliInit => CommandInv
<1> SUFFICES ASSUME CliInit PROVE CommandInv
  OBVIOUS
<1>1. CASE args = NoArgs /\ plan = <<>>
  BY <1>1 DEF CommandInv
<1>2. CASE args \in CommandLines(class) /\ plan = Plan(class, args)
  <2>1. PICK calc, a : calc = class /\ a = args
    OBVIOUS
  <2> DEFINE cs == Plan(calc, a)
  <2>2. a \in CommandLines(calc) /\ plan = cs
    BY <1>2, <2>1
  <2>3. PICK h : PlanParts(cs, a, h)
    BY <2>2, PlanIs
  <2>4. Len(a.file) \in Nat /\ Len(Parsed(a)) \in Nat
    BY <2>2, ArgumentsGiven, LenProperties
  <2> HIDE DEF cs
  <2>5. Len(cs) \in Nat /\ Len(cs) >= 1 /\ cs \in Seq(Calls)
    <3>1. Len(cs) \in Nat /\ Len(cs) >= 1
      BY <2>3, <2>4, PlanOrdered
    <3>2. cs \in Seq(Calls)
      BY <2>3 DEF PlanParts
    <3> QED
      BY <3>1, <3>2
  <2>6. SubSeq(cs, 0 + 1, Len(cs)) = cs
    <3> DEFINE C == Calls
    <3>1. cs \in Seq(C)
      BY <2>5
    <3> HIDE DEF C
    <3>2. SubSeq(cs, 1, Len(cs)) = cs
      BY <3>1
    <3>3. 0 + 1 = 1
      OBVIOUS
    <3> QED
      BY <3>2, <3>3
  <2>7. input = <<>>
    BY DEF CliInit, Init
  <2>8. \A j \in 1..0 : FALSE
    OBVIOUS
  <2>9. Underway(cs, 0)
    BY <2>2, <2>6, <2>7, <2>8 DEF Underway
  <2>10. 0 \in 0..(Len(cs) - 1)
    BY <2>5
  <2>11. \E k \in 0..(Len(cs) - 1) : Underway(cs, k)
    BY <2>9, <2>10
  <2>12. cs = Plan(class, args)
    BY <2>1 DEF cs
  <2> QED
    BY <1>2, <2>11, <2>12 DEF CommandInv
<1> QED
  BY <1>1, <1>2 DEF CliInit

LEMMA CommandNext ==
    OneSpelling /\ OthersAreLeft /\ KeptInv /\ CommandInv /\ [CliNext]_cliVars => CommandInv'
<1> SUFFICES ASSUME OneSpelling, OthersAreLeft, KeptInv, CommandInv, [CliNext]_cliVars
             PROVE  CommandInv'
  OBVIOUS
<1>1. CASE args = NoArgs /\ plan = <<>>
  <2>1. args' = args /\ plan' = plan
    BY <1>1 DEF CliNext, Scripted, Commanded, cliVars
  <2> QED
    BY <1>1, <2>1 DEF CommandInv
<1>2. CASE /\ args \in CommandLines(class)
           /\ LET cs == Plan(class, args) IN
              \/ /\ plan = <<>>
                 /\ input # <<>> =>
                        \A j \in 1..Len(cs) : LastSet(cs, j, Len(cs)) => Prints(cs[j].arg)
              \/ \E k \in 0..(Len(cs) - 1) : Underway(cs, k)
  <2>1. PICK calc, a : calc = class /\ a = args
    OBVIOUS
  <2>2. PICK cs : cs = Plan(calc, a)
    OBVIOUS
  <2>3. /\ a \in CommandLines(calc)
        /\ \/ /\ plan = <<>>
              /\ input # <<>> =>
                     \A j \in 1..Len(cs) : LastSet(cs, j, Len(cs)) => Prints(cs[j].arg)
           \/ \E k \in 0..(Len(cs) - 1) : Underway(cs, k)
    BY <1>2, <2>1, <2>2
  <2> DEFINE Goal == \/ /\ plan' = <<>>
                        /\ input' # <<>> =>
                             \A j \in 1..Len(cs) : LastSet(cs, j, Len(cs)) => Prints(cs[j].arg)'
                     \/ \E k \in 0..(Len(cs) - 1) : Underway(cs, k)'
  <2>4. ASSUME class' = class, args' = args, Goal PROVE CommandInv'
    <3>1. args' \in CommandLines(class') /\ cs = Plan(class', args')
      BY <2>1, <2>2, <2>3, <2>4
    <3> QED
      BY <2>4, <3>1 DEF CommandInv
  <2>5. ~ args.script
    BY <2>1, <2>3, ArgumentsGiven
  <2>6. CASE UNCHANGED cliVars
    <3>1. /\ class' = class /\ args' = args /\ plan' = plan
          /\ input' = input /\ wanted' = wanted
      BY <2>6 DEF cliVars, vars, history
    <3>2. Goal
      BY <2>3, <3>1 DEF Underway, Prints, WantedIs
    <3> QED
      BY <2>4, <3>1, <3>2
  <2>7. CASE Commanded
    <3>1. class' = class /\ args' = args
      BY <2>7 DEF Commanded, Raise, vars, SetKpointSet, SetImages, GetXyz, SetParam, Run, Call
    <3>2. PICK k \in 0..(Len(cs) - 1) : Underway(cs, k)
      BY <2>3, <2>7 DEF Commanded
    <3>3. \/ /\ plan' = <<>>
             /\ input' # <<>> =>
                   \A j \in 1..Len(cs) : LastSet(cs, j, Len(cs)) => Prints(cs[j].arg)'
          \/ k + 1 \in 0..(Len(cs) - 1) /\ Underway(cs, k + 1)'
      BY <2>2, <2>3, <2>7, <3>2, CommandStep
    <3>4. Goal
      BY <3>3
    <3> QED
      BY <2>4, <3>1, <3>4
  <2> QED
    BY <2>5, <2>6, <2>7 DEF CliNext, Scripted
<1> QED
  BY <1>1, <1>2 DEF CommandInv

\* What a command sets last is what --custom says, and --custom-file where
\* neither --custom nor the print level of its dict says anything else.
LEMMA CustomIsSetLast ==
    ASSUME NEW calc, NEW a \in CommandLines(calc), NEW cs, cs = Plan(calc, a)
    PROVE  /\ \A i \in DOMAIN a.custom : LastOf(a.custom, i) =>
                  \E j \in 1..Len(cs) : LastSet(cs, j, Len(cs)) /\ cs[j].arg = a.custom[i]
           /\ \A i \in DOMAIN a.file :
                  \/ ~ LastOf(a.file, i)
                  \/ \E j \in DOMAIN a.custom : Param(a.custom[j]) = Param(a.file[i])
                  \/ Param(a.file[i]) = Param(PrintLevel(<<>>))
                  \/ \E j \in 1..Len(cs) : LastSet(cs, j, Len(cs)) /\ cs[j].arg = a.file[i]
<1> DEFINE low == PrintLevel(<<"LOW">>)
           G == GivenItems
           custom == a.custom
           file == a.file
           items == <<low>> \o custom
           dict == Parsed(a)
           c == Len(custom)
           f == Len(file)
           d == Len(dict)
           L == Len(cs)
           par(x) == Param(x)
<1>1. /\ custom \in Seq(G) /\ file \in Seq(G) /\ low \in G /\ items \in Seq(G) /\ dict \in Seq(G)
  BY ArgumentsGiven, ItemsGiven
<1>2. PICK h : PlanParts(cs, a, h)
  BY PlanIs
<1>3. dict = Dict(items)
  BY DEF Parsed
<1> HIDE DEF low, G, custom, file, items, dict
<1>4. /\ c \in Nat /\ DOMAIN custom = 1..c
      /\ f \in Nat /\ DOMAIN file = 1..f
      /\ d \in Nat /\ DOMAIN dict = 1..d
  BY <1>1, LenProperties
<1>5. /\ Len(items) = c + 1 /\ DOMAIN items = 1..(c + 1)
      /\ items[1] = low
      /\ \A i \in 1..c : items[1 + i] = custom[i]
  <2>1. <<low>> \in Seq(G) /\ Len(<<low>>) = 1 /\ <<low>>[1] = low
    BY <1>1
  <2> DEFINE s == <<low>>
             m == 1
  <2>2. s \in Seq(G) /\ Len(s) = m /\ s[1] = low /\ items = s \o custom /\ Len(custom) = c
    BY <2>1 DEF items
  <2> HIDE DEF s, m, c
  <2>3. /\ Len(s \o custom) = m + c
        /\ \A i \in 1..m : (s \o custom)[i] = s[i]
        /\ \A i \in 1..c : (s \o custom)[m + i] = custom[i]
    BY <1>1, <2>2, JoinIs
  <2>4. Len(items) = c + 1 /\ items[1] = low /\ \A i \in 1..c : items[1 + i] = custom[i]
    BY <1>4, <2>2, <2>3 DEF m
  <2>5. DOMAIN items = 1..Len(items)
    BY <1>1, LenProperties
  <2> QED
    BY <2>4, <2>5
<1>6. /\ \A n \in 1..d : \E i \in 1..(c + 1) : dict[n] = items[i]
      /\ \A i \in 1..(c + 1) : LastOf(items, i) => \E n \in 1..d : dict[n] = items[i]
      /\ \A m, n \in 1..d : par(dict[m]) = par(dict[n]) => m = n
  <2>1. /\ \A n \in DOMAIN Dict(items) : \E i \in DOMAIN items : Dict(items)[n] = items[i]
        /\ \A i \in DOMAIN items : LastOf(items, i) =>
               \E n \in DOMAIN Dict(items) : Dict(items)[n] = items[i]
        /\ \A m, n \in DOMAIN Dict(items) :
               Param(Dict(items)[m]) = Param(Dict(items)[n]) => m = n
    BY <1>1, DictIs
  <2> QED
    BY <1>3, <1>4, <1>5, <2>1
<1>7. /\ h \in Nat /\ L = h + f + d + 1
      /\ \A n \in 1..f : IsSet(cs, h + n) /\ cs[h + n].arg = file[n]
      /\ \A n \in 1..d : IsSet(cs, h + f + n) /\ cs[h + f + n].arg = dict[n]
      /\ ~ IsSet(cs, L)
  <2>0. ASSUME NEW op, NEW arg, NEW call, call = [op |-> op, arg |-> arg]
        PROVE  call.op = op /\ call.arg = arg
    BY <2>0
  <2>1. h \in Nat /\ L = h + f + d + 1
    BY <1>2 DEF PlanParts, file, dict
  <2>2. \A n \in 1..f : cs[h + n] = [op |-> "set_param", arg |-> file[n]]
    BY <1>2 DEF PlanParts, file
  <2>3. \A n \in 1..d : cs[h + f + n] = [op |-> "set_param", arg |-> dict[n]]
    BY <1>2 DEF PlanParts, file, dict
  <2>4. cs[L] = [op |-> "run", arg |-> <<>>]
    BY <1>2 DEF PlanParts
  <2> HIDE DEF f, d, L
  <2>5. ASSUME NEW n \in 1..f PROVE cs[h + n].op = "set_param" /\ cs[h + n].arg = file[n]
    <3> DEFINE call == cs[h + n]
    <3>1. call = [op |-> "set_param", arg |-> file[n]]
      BY <2>2
    <3> HIDE DEF call
    <3>2. call.op = "set_param" /\ call.arg = file[n]
      BY <3>1
    <3> QED
      BY <3>2 DEF call
  <2>6. ASSUME NEW n \in 1..d PROVE cs[h + f + n].op = "set_param" /\ cs[h + f + n].arg = dict[n]
    <3> DEFINE call == cs[h + f + n]
    <3>1. call = [op |-> "set_param", arg |-> dict[n]]
      BY <2>3
    <3> HIDE DEF call
    <3>2. call.op = "set_param" /\ call.arg = dict[n]
      BY <3>1
    <3> QED
      BY <3>2 DEF call
  <2>7. cs[L].op = "run"
    BY <2>0, <2>4
  <2>8. cs[L].op # "set_param"
    BY <2>7
  <2> QED
    BY <2>1, <2>5, <2>6, <2>8 DEF IsSet
<1> HIDE DEF c, f, d, L, par
\* The calls that follow the j-th are of the file or of the dict.
<1>8. ASSUME NEW j \in 1..L, j >= h + 1, NEW l \in (j + 1)..L, IsSet(cs, l)
      PROVE  \/ \E n \in 1..f : l = h + n /\ cs[l].arg = file[n]
             \/ \E n \in 1..d : l = h + f + n /\ cs[l].arg = dict[n]
  <2>1. l # L
    BY <1>7, <1>8
  <2>2. CASE l <= h + f
    <3>1. l - h \in 1..f /\ l = h + (l - h)
      BY <1>4, <1>7, <1>8, <2>2
    <3> QED
      BY <1>7, <3>1
  <2>3. CASE l > h + f
    <3>1. l - (h + f) \in 1..d /\ l = h + f + (l - (h + f))
      BY <1>4, <1>7, <1>8, <2>1, <2>3
    <3> QED
      BY <1>7, <3>1
  <2> QED
    BY <1>4, <1>7, <1>8, <2>2, <2>3
<1>9. ASSUME NEW i \in 1..c, LastOf(custom, i)
      PROVE  \E j \in 1..L : LastSet(cs, j, L) /\ cs[j].arg = custom[i]
  <2>1. LastOf(items, 1 + i)
    <3>1. ASSUME NEW k \in (1 + i + 1)..(c + 1) PROVE par(items[k]) # par(items[1 + i])
      <4>1. k - 1 \in (i + 1)..c /\ k - 1 \in 1..c /\ k = 1 + (k - 1)
        BY <1>4, <3>1
      <4>2. items[k] = custom[k - 1] /\ items[1 + i] = custom[i]
        BY <1>5, <4>1
      <4>3. par(custom[k - 1]) # par(custom[i])
        BY <1>9, <4>1 DEF LastOf, par, c
      <4> QED
        BY <4>2, <4>3
    <3> QED
      BY <1>5, <3>1 DEF LastOf, par
  <2>2. 1 + i \in 1..(c + 1)
    BY <1>4
  <2>3. PICK n \in 1..d : dict[n] = items[1 + i]
    BY <1>6, <2>1, <2>2
  <2> DEFINE j == h + f + n
  <2>4. j \in 1..L /\ j >= h + 1 /\ j = h + f + n
    BY <1>4, <1>7
  <2>5. IsSet(cs, j) /\ cs[j].arg = dict[n] /\ cs[j].arg = custom[i]
    BY <1>5, <1>7, <2>3
  <2> HIDE DEF j
  <2>6. ASSUME NEW l \in (j + 1)..L, IsSet(cs, l) PROVE par(cs[l].arg) # par(cs[j].arg)
    <3>1. ~ \E m \in 1..f : l = h + m
      BY <1>4, <1>7, <2>4, <2>6, SMTT(40)
    <3>2. PICK m \in 1..d : l = h + f + m /\ cs[l].arg = dict[m]
      BY <1>8, <2>4, <2>6, <3>1
    <3>3. m # n
      BY <1>4, <1>7, <2>4, <2>6, <3>2
    <3> QED
      BY <1>6, <2>5, <3>2, <3>3
  <2>7. LastSet(cs, j, L)
    BY <2>5, <2>6 DEF LastSet, par
  <2> QED
    BY <2>4, <2>5, <2>7
<1>10. ASSUME NEW i \in 1..f, LastOf(file, i),
              \A k \in 1..c : par(custom[k]) # par(file[i]),
              par(file[i]) # par(low)
       PROVE  \E j \in 1..L : LastSet(cs, j, L) /\ cs[j].arg = file[i]
  <2> DEFINE j == h + i
  <2>1. j \in 1..L /\ j >= h + 1 /\ j = h + i
    BY <1>4, <1>7
  <2>2. IsSet(cs, j) /\ cs[j].arg = file[i]
    BY <1>7
  <2> HIDE DEF j
  <2>3. ASSUME NEW l \in (j + 1)..L, IsSet(cs, l) PROVE par(cs[l].arg) # par(cs[j].arg)
    <3>1. CASE \E m \in 1..f : l = h + m /\ cs[l].arg = file[m]
      <4>1. PICK m \in 1..f : l = h + m /\ cs[l].arg = file[m]
        BY <3>1
      <4>2. m \in (i + 1)..f
        BY <1>4, <1>7, <2>1, <2>3, <4>1
      <4>3. par(file[m]) # par(file[i])
        BY <1>10, <4>2 DEF LastOf, par, f
      <4> QED
        BY <2>2, <4>1, <4>3
    <3>2. CASE \E m \in 1..d : l = h + f + m /\ cs[l].arg = dict[m]
      <4>1. PICK m \in 1..d : cs[l].arg = dict[m]
        BY <3>2
      <4>2. PICK q \in 1..(c + 1) : dict[m] = items[q]
        BY <1>6
      <4>3. CASE q = 1
        BY <1>5, <1>10, <2>2, <4>1, <4>2, <4>3
      <4>4. CASE q # 1
        <5>1. q - 1 \in 1..c /\ q = 1 + (q - 1)
          BY <1>4, <4>4
        <5>2. items[q] = custom[q - 1]
          BY <1>5, <5>1
        <5> QED
          BY <1>10, <2>2, <4>1, <4>2, <5>1, <5>2
      <4> QED
        BY <4>3, <4>4
    <3> QED
      BY <1>8, <2>1, <2>3, <3>1, <3>2
  <2>4. LastSet(cs, j, L)
    BY <2>2, <2>3 DEF LastSet, par
  <2> QED
    BY <2>1, <2>2, <2>4
<1>11. par(low) = Param(PrintLevel(<<>>))
  <2>1. \A v : PrintLevel(v).path = Sec(<<"global">>) /\ PrintLevel(v).key = "print_level"
    BY DEF PrintLevel
  <2> QED
    BY <2>1 DEF Param, par, low
<1>12. \A i \in DOMAIN custom : LastOf(custom, i) =>
           \E j \in 1..L : LastSet(cs, j, L) /\ cs[j].arg = custom[i]
  BY <1>4, <1>9
<1>13. \A i \in DOMAIN file :
           \/ ~ LastOf(file, i)
           \/ \E j \in DOMAIN custom : Param(custom[j]) = Param(file[i])
           \/ Param(file[i]) = Param(PrintLevel(<<>>))
           \/ \E j \in 1..L : LastSet(cs, j, L) /\ cs[j].arg = file[i]
  BY <1>4, <1>10, <1>11 DEF par
<1> QED
  BY <1>12, <1>13 DEF custom, file, L

LEMMA CommandImplies == CommandInv => CustomReachesInput
<1> SUFFICES ASSUME CommandInv, ~ args.script, input # <<>>
             PROVE  /\ \A i \in DOMAIN args.custom :
                           LastOf(args.custom, i) => Prints(args.custom[i])
                    /\ \A i \in DOMAIN args.file :
                           \/ ~ LastOf(args.file, i)
                           \/ \E j \in DOMAIN args.custom : Param(args.custom[j]) = Param(args.file[i])
                           \/ Param(args.file[i]) = Param(PrintLevel(<<>>))
                           \/ Prints(args.file[i])
  BY DEF CustomReachesInput, LineReachesInput, CustomFileReachesInput
<1>1. args # NoArgs
  BY DEF NoArgs
<1>2. PICK calc, a : calc = class /\ a = args
  OBVIOUS
<1>3. PICK cs : cs = Plan(calc, a)
  OBVIOUS
<1>4. /\ a \in CommandLines(calc)
      /\ \A j \in 1..Len(cs) : LastSet(cs, j, Len(cs)) => Prints(cs[j].arg)
  BY <1>1, <1>2, <1>3 DEF CommandInv, Underway
<1>5. /\ \A i \in DOMAIN a.custom : LastOf(a.custom, i) =>
             \E j \in 1..Len(cs) : LastSet(cs, j, Len(cs)) /\ cs[j].arg = a.custom[i]
      /\ \A i \in DOMAIN a.file :
             \/ ~ LastOf(a.file, i)
             \/ \E j \in DOMAIN a.custom : Param(a.custom[j]) = Param(a.file[i])
             \/ Param(a.file[i]) = Param(PrintLevel(<<>>))
             \/ \E j \in 1..Len(cs) : LastSet(cs, j, Len(cs)) /\ cs[j].arg = a.file[i]
  BY <1>3, <1>4, CustomIsSetLast
<1>6. /\ \A i \in DOMAIN a.custom : LastOf(a.custom, i) => Prints(a.custom[i])
      /\ \A i \in DOMAIN a.file :
             \/ ~ LastOf(a.file, i)
             \/ \E j \in DOMAIN a.custom : Param(a.custom[j]) = Param(a.file[i])
             \/ Param(a.file[i]) = Param(PrintLevel(<<>>))
             \/ Prints(a.file[i])
  BY <1>4, <1>5
<1> QED
  BY <1>2, <1>6

-----------------------------------------------------------------------------
(* The theorems about commands. *)

LEMMA CliInitStep == CliInit => Init
  BY DEF CliInit

LEMMA CommandPaths ==
    /\ PlanInv /\ [CliNext]_cliVars => [AnyCall(Path)]_vars
    /\ KpointsAreLeft /\ OthersAreLeft =>
           (PlanInv /\ [CliNext]_cliVars => [AnyCall(KpointFree)]_vars)
    /\ StructureIsLeft /\ OthersAreLeft =>
           (PlanInv /\ [CliNext]_cliVars => [AnyCall(StructureFree)]_vars)
<1>1. /\ GivenPaths \cup {<<>>} \subseteq Path /\ \A item \in GivenItems : item.path \in Path
      /\ LeavesKpoints(<<>>) /\ LeavesStructure(<<>>)
  BY EntryPaths, ItemsGiven DEF LeavesKpoints, LeavesStructure
<1>2. KpointsAreLeft /\ OthersAreLeft =>
          GivenPaths \cup {<<>>} \subseteq KpointFree /\ \A item \in GivenItems : item.path \in KpointFree
  BY <1>1 DEF KpointFree, KpointsAreLeft, OthersAreLeft
<1>3. StructureIsLeft /\ OthersAreLeft =>
          GivenPaths \cup {<<>>} \subseteq StructureFree /\ \A item \in GivenItems : item.path \in StructureFree
  BY <1>1 DEF StructureFree, StructureIsLeft, OthersAreLeft
<1>4. PlanInv /\ [CliNext]_cliVars => [AnyCall(Path)]_vars
  BY <1>1, CliStep
<1>5. KpointsAreLeft /\ OthersAreLeft =>
           (PlanInv /\ [CliNext]_cliVars => [AnyCall(KpointFree)]_vars)
  BY <1>2, CliStep
<1>6. StructureIsLeft /\ OthersAreLeft =>
           (PlanInv /\ [CliNext]_cliVars => [AnyCall(StructureFree)]_vars)
  BY <1>3, CliStep
<1> QED
  BY <1>4, <1>5, <1>6

\* cp2k_processor and Cp2k::set_param: a command, too, leaves every
\* parameter where it was set, with the value it was given last.
THEOREM CommandsKeepParameters == CliSpec => []SetIsKept
  BY CliInitStep, PlanInit, PlanNext, CommandPaths, KeptInit, KeptNext, InvariantsImply,
     PTL DEF CliSpec

\* cp2k_processor: no command leaves the tree or the k-path, unless a path
\* has no section or a k-path no point.
THEOREM CommandsCrashNeedCause == CliSpec => []CrashNeedsCause
  BY CliInitStep, PlanInit, PlanNext, CommandPaths, KeptInit, KeptNext, CrashInit, CrashNext,
     InvariantsImply, PTL DEF CliSpec

\* cp2k_processor and Cp2k::set_kpoint_set: where the options and the class
\* set no k-point set themselves, those of a command are the segments of
\* --kpath.
THEOREM CommandsFollowKpath ==
    ASSUME KpointsAreLeft, OthersAreLeft
    PROVE  CliSpec => []KpointSetsFollowPath
  BY CliInitStep, PlanInit, PlanNext, CommandPaths, KeptInit, KeptNext, CrashInit, CrashNext,
     KpointsInit, KpointsNext, InvariantsImply, PTL DEF CliSpec

\* cp2k_processor, Cp2k::get_xyz and Neb::run: where the options and the
\* class set no atoms, kinds or replicas themselves, the input of a command
\* has the structure of --xyz and every image of --images.
THEOREM CommandsReachStructure ==
    ASSUME StructureIsLeft, OthersAreLeft
    PROVE  CliSpec => []StructureIsComplete
  BY CliInitStep, PlanInit, PlanNext, CommandPaths, KeptInit, KeptNext, StructureInit,
     StructureNext, ImagesInit, ImagesNext, CompleteImplies, PTL DEF CliSpec

\* cp2k_processor and process_custom: the input of every command has each
\* parameter of --custom with the value given last, and each one of
\* --custom-file that --custom and the print level of its dict leave alone,
\* where the options write a parameter in one way.
THEOREM CustomIsInInput ==
    ASSUME OneSpelling, OthersAreLeft
    PROVE  CliSpec => []CustomReachesInput
  BY CliInitStep, PlanInit, PlanNext, CommandPaths, KeptInit, KeptNext, CommandInit,
     CommandNext, CommandImplies, PTL DEF CliSpec
=============================================================================
