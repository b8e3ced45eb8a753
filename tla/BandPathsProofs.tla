--------------------------- MODULE BandPathsProofs --------------------------
(***************************************************************************)
(* Theorems about BandPaths: of which supercells FORCE_SETS is, and what   *)
(* the tics of a plot say.  The loops over a path are folds of BandPaths;  *)
(* the lemmas turn each into a sequence of steps (RecursionLemmas) and     *)
(* walk along two of them at once: the stops of the path and the labels    *)
(* that are made point by point (ByLinks) or set by set (SetLabels,        *)
(* PhononLabels).                                                          *)
(***************************************************************************)
EXTENDS BandPaths, RecursionLemmas

-----------------------------------------------------------------------------
(* The forces of a phonon calculation.                                     *)

(* What phonopy reads of the files it is given, as steps. *)
LEMMA ExpandedSteps ==
  ASSUME NEW S, NEW files \in Seq(S), \A i \in 1..Len(files) : files[i][2] \in Nat
  PROVE  \E g : /\ Iterates(g, Len(files), Int, 1,
                            [i \in 1..Len(files) |-> [a \in Int |->
                                (IF files[i][1] = a THEN files[i][2] + 1 ELSE 0)]])
                /\ Expanded(files) = g[Len(files)] - 1
<1>. DEFINE k == Len(files)
            range == files
            V == Int
            base == 1
            step == [i \in 1..k |-> [a \in V |-> (IF files[i][1] = a THEN files[i][2] + 1 ELSE 0)]]
            P(G) == G = [X \in SUBSET DOMAIN range |->
                          IF X = {} THEN base
                          ELSE (IF range[Max(X)][1] = G[X \ {Max(X)}] THEN range[Max(X)][2] + 1 ELSE 0)]
            C == CHOOSE G : P(G)
<1>1. k \in Nat /\ DOMAIN range = 1..k /\ \A i \in 1..k : range[i] = files[i]
  OBVIOUS
<1>2. Expanded(files) = C[DOMAIN range] - 1
  BY DEF Expanded, FoldLeft, MapThenFoldSet
<1>3. base \in V /\ \A i \in 1..k : \A a \in V : (IF files[i][1] = a THEN files[i][2] + 1 ELSE 0) \in V
  <2>1. \A i \in 1..k : files[i][2] \in Nat
    OBVIOUS
  <2>. QED  BY <2>1
<1>. HIDE DEF k, range, V, base
<1>4. step \in [1..k -> [V -> V]]
  BY <1>3
<1>5. PICK F : FoldsOver(F, k, V, base, step)
  <2>. HIDE DEF step
  <2>. QED  BY <1>1, <1>3, <1>4, FoldDefines
<1>6. ASSUME NEW X \in SUBSET (1..k), X # {}
      PROVE  F[X] = (IF range[Max(X)][1] = F[X \ {Max(X)}] THEN range[Max(X)][2] + 1 ELSE 0)
  <2>. DEFINE m == Max(X)
              U == X \ {m}
  <2>1. m \in 1..k /\ U \in SUBSET (1..k)
    BY <1>1, <1>6, MaxOfNumbers
  <2>2. F[U] \in V /\ F[X] = step[m][F[U]]
    <3>. HIDE DEF step
    <3>. QED  BY <1>5, <1>6, <2>1 DEF FoldsOver
  <2>. HIDE DEF m, U
  <2>3. range[m] = files[m]
    BY <1>1, <2>1
  <2>4. F[X] = (IF files[m][1] = F[U] THEN files[m][2] + 1 ELSE 0)
    BY <2>1, <2>2
  <2>. QED  BY <2>3, <2>4 DEF m, U
<1>7. F[{}] = base /\ F \in [SUBSET (1..k) -> V]
  <2>. HIDE DEF step
  <2>. QED  BY <1>5 DEF FoldsOver
<1>8. P(F)
  <2>. HIDE DEF step
  <2>. QED  BY <1>1, <1>6, <1>7, Zenon
<1>9. P(C)
  <2>. HIDE DEF P
  <2>. QED  BY <1>8
<1>. HIDE DEF C
<1>10. C[{}] = base
  BY <1>1, <1>9
<1>11. ASSUME NEW X \in SUBSET (1..k), X # {}, C[X \ {Max(X)}] \in V
       PROVE  C[X] = step[Max(X)][C[X \ {Max(X)}]]
  <2>. DEFINE m == Max(X)
              U == X \ {m}
  <2>1. m \in 1..k
    BY <1>1, <1>11, MaxOfNumbers
  <2>2. C[X] = (IF range[Max(X)][1] = C[X \ {Max(X)}] THEN range[Max(X)][2] + 1 ELSE 0)
    BY <1>1, <1>9, <1>11, Zenon
  <2>3. range[m] = files[m] /\ C[U] \in V
    BY <1>1, <1>11, <2>1
  <2>4. C[X] = (IF range[m][1] = C[U] THEN range[m][2] + 1 ELSE 0)
    BY <2>2
  <2>. HIDE DEF m, U
  <2>5. step[m][C[U]] = (IF files[m][1] = C[U] THEN files[m][2] + 1 ELSE 0)
    BY <2>1, <2>3
  <2>6. C[X] = step[m][C[U]]
    <3>. HIDE DEF step
    <3>. QED  BY <2>3, <2>4, <2>5
  <2>. QED  BY <2>6 DEF m, U
<1>12. \A X \in SUBSET (1..k) :
          X # {} /\ C[X \ {Max(X)}] \in V => C[X] = step[Max(X)][C[X \ {Max(X)}]]
  <2>. HIDE DEF step, P
  <2>. QED  BY <1>11
<1>. DEFINE c == [i \in 0..k |-> C[1..i]]
<1>13. Iterates(c, k, V, base, step)
  <2>1. base \in V /\ k \in Nat
    BY <1>1, <1>3
  <2>. HIDE DEF step, P
  <2>. QED  BY <2>1, <1>4, <1>10, <1>12, ChosenFold, Zenon
<1>14. c[k] = C[DOMAIN range]
  BY <1>1
<1>15. Expanded(files) = c[k] - 1
  BY <1>2, <1>14
<1>16. \E g : Iterates(g, k, V, base, step) /\ Expanded(files) = g[k] - 1
  <2>. HIDE DEF c, step
  <2>. QED  BY <1>13, <1>15
<1>. QED  BY <1>16 DEF k, V, base

CellsInv ==
    /\ cells \in [displaced : Nat, made : Nat, done : Nat, fresh : Nat]
    /\ cells.fresh <= cells.displaced
    /\ cells.fresh <= cells.done
    /\ cells.done <= cells.made

(* FORCE_SETS is of the directory it was asked for when that one was       *)
(* finished, whatever has become of the directory since.                   *)
ForcesInv ==
    /\ program \in Phonons /\ plot # None
    /\ Finished(plot.cells)
    /\ plot.cells.displaced <= (IF program = "phonopy_cp2k" THEN 999 ELSE 9999)
    => forces = plot.cells

(* At first there are no supercells, and FORCE_SETS is of none.            *)
LEMMA CellsInvInit == Init => CellsInv /\ ForcesInv
BY DEF Init, CellsInv, ForcesInv, NoCells, None

(* Displace keeps the counts of the directory in their order.              *)
LEMMA CellsInvNext ==
  CellsInv /\ [Next]_vars => CellsInv'
<1>. SUFFICES ASSUME CellsInv, [Next]_vars PROVE CellsInv'
  OBVIOUS
<1>1. ASSUME NEW n \in Counts, NEW short \in 0..1, Displace(n, n - short) PROVE CellsInv'
  <2>. DEFINE j == n - short
              made == Larger(n, cells.made)
  <2>1. n \in Nat \ {0} /\ j \in Nat
    BY PathsAssumption
  <2>2. /\ j <= made
        /\ cells' = [displaced |-> n, made |-> made, done |-> Larger(j, cells.done),
                     fresh |-> Smaller(j, n)]
    BY <1>1 DEF Displace
  <2>3. /\ cells.made \in Nat /\ cells.done \in Nat /\ cells.done <= cells.made
    BY DEF CellsInv
  <2>. HIDE DEF j
  <2>4. /\ made \in Nat /\ Larger(j, cells.done) \in Nat /\ Smaller(j, n) \in Nat
        /\ Smaller(j, n) <= n /\ Smaller(j, n) <= Larger(j, cells.done)
        /\ Larger(j, cells.done) <= made
    BY <2>1, <2>2, <2>3 DEF Larger, Smaller
  <2>. HIDE DEF made
  <2>. QED  BY <2>1, <2>2, <2>4 DEF CellsInv
<1>2. CASE UNCHANGED cells
  BY <1>2 DEF CellsInv
<1>3. (\E n \in Counts, short \in 0..1 : Displace(n, n - short)) \/ UNCHANGED cells
  BY DEF Next, vars, SetKpath, Calculate, Construct, Plot, Analyse, Project, PlotDensity
<1>. QED  BY <1>1, <1>2, <1>3

(* One range is read up to its end, two if the second goes on there. *)
LEMMA ExpandedOne ==
  ASSUME NEW S, NEW files \in Seq(S), Len(files) = 1,
         files[1][1] = 1, files[1][2] \in Nat
  PROVE  Expanded(files) = files[1][2]
<1>. DEFINE step == [i \in 1..Len(files) |-> [a \in Int |->
                        (IF files[i][1] = a THEN files[i][2] + 1 ELSE 0)]]
<1>1. \A i \in 1..Len(files) : files[i][2] \in Nat
  OBVIOUS
<1>2. PICK g : Iterates(g, Len(files), Int, 1, step) /\ Expanded(files) = g[Len(files)] - 1
  BY <1>1, ExpandedSteps
<1>3. g[1] = step[1][g[0]] /\ g[0] = 1
  <2>. HIDE DEF step
  <2>. QED  BY <1>2 DEF Iterates
<1>4. g[1] = files[1][2] + 1
  BY <1>3
<1>. QED  BY <1>1, <1>2, <1>4

(* Two ranges, the second of them from where the first has ended.          *)
LEMMA ExpandedTwo ==
  ASSUME NEW S, NEW files \in Seq(S), Len(files) = 2,
         files[1][1] = 1, files[1][2] \in Nat,
         files[2][1] = files[1][2] + 1, files[2][2] \in Nat
  PROVE  Expanded(files) = files[2][2]
<1>. DEFINE step == [i \in 1..Len(files) |-> [a \in Int |->
                        (IF files[i][1] = a THEN files[i][2] + 1 ELSE 0)]]
<1>1. \A i \in 1..Len(files) : files[i][2] \in Nat
  OBVIOUS
<1>2. PICK g : Iterates(g, Len(files), Int, 1, step) /\ Expanded(files) = g[Len(files)] - 1
  BY <1>1, ExpandedSteps
<1>3. g[2] = step[2][g[1]] /\ g[1] = step[1][g[0]] /\ g[0] = 1
  <2>. HIDE DEF step
  <2>. QED  BY <1>2 DEF Iterates
<1>4. g[1] = files[1][2] + 1
  BY <1>3
<1>5. g[2] = files[2][2] + 1
  BY <1>3, <1>4
<1>. QED  BY <1>1, <1>2, <1>5

(* What phonopy is given of up to 9999 outputs are all of them. *)
LEMMA ForcesOfAll ==
  ASSUME NEW found \in Nat, found # 0, found <= 9999
  PROVE  Expanded(ForceFiles(found)) = found
<1>1. CASE found <= 999
  <2>. DEFINE files == <<<<1, found>>>>
  <2>1. files \in Seq(Nat \X Nat) /\ Len(files) = 1 /\ files[1][1] = 1 /\ files[1][2] = found
    OBVIOUS
  <2>2. ForceFiles(found) = files
    BY <1>1 DEF ForceFiles
  <2>. HIDE DEF files
  <2>. QED  BY <2>1, <2>2, ExpandedOne
<1>2. CASE found > 999
  <2>. DEFINE files == <<<<1, 999>>, <<1000, found>>>>
  <2>1. /\ files \in Seq(Nat \X Nat) /\ Len(files) = 2 /\ files[1][1] = 1 /\ files[1][2] = 999
        /\ files[2][1] = 1000 /\ files[2][2] = found
    OBVIOUS
  <2>2. ForceFiles(found) = files
    BY <1>2 DEF ForceFiles
  <2>. HIDE DEF files
  <2>. QED  BY <2>1, <2>2, ExpandedTwo
<1>. QED  BY <1>1, <1>2

(* Of a directory whose calculation was finished run() finds as many       *)
(* supercells, or outputs of them, as were displaced.                      *)
LEMMA FoundIsDisplaced ==
  ASSUME CellsInv, program \in Phonons, Finished(cells), cells.displaced # 0,
         cells.displaced <= (IF program = "phonopy_cp2k" THEN 999 ELSE 9999),
         NEW path
  PROVE  /\ ~ RunOf(program, cells, path).crashes
         /\ TakesForces(cells, RunOf(program, cells, path).files)
<1>. DEFINE n == cells.displaced
<1>1. n \in Nat /\ n # 0 /\ n <= 9999
      /\ cells.made = n /\ cells.done = n /\ (program = "phonopy_cp2k" => n <= 999)
  <2>1. /\ n \in Nat /\ cells.made \in Nat /\ cells.done \in Nat /\ cells.fresh \in Nat
        /\ cells.fresh <= cells.done /\ cells.done <= cells.made
    BY DEF CellsInv
  <2>2. cells.fresh = n /\ cells.made = n
    BY DEF Finished
  <2>3. n <= 9999 /\ (program = "phonopy_cp2k" => n <= 999)
    BY <2>1
  <2>. QED  BY <2>1, <2>2, <2>3
<1>2. Smaller(cells.done, 999) = n \/ program # "phonopy_cp2k"
  BY <1>1 DEF Smaller
<1>. HIDE DEF n
<1>3. RunOf(program, cells, path) = Analysis(n, path)
  BY <1>1, <1>2 DEF RunOf, Phonons, VaspRun, AbinitRun, SiestaRun, ElkRun, QeRun, Cp2kRun
<1>4. ~ Analysis(n, path).crashes /\ Analysis(n, path).files = ForceFiles(n)
  <2>1. n # 0
    BY <1>1
  <2>. QED  BY <2>1, ZenonT(40) DEF Analysis
<1>5. Expanded(ForceFiles(n)) = n
  BY <1>1, ForcesOfAll
<1>6. TakesForces(cells, ForceFiles(n))
  BY <1>1, <1>5 DEF TakesForces, n
<1>. QED  BY <1>3, <1>4, <1>6

(* Analyse makes FORCE_SETS of a directory that is finished.               *)
LEMMA ForcesInvNext ==
  CellsInv /\ ForcesInv /\ [Next]_vars => ForcesInv'
<1>. SUFFICES ASSUME CellsInv, ForcesInv, [Next]_vars PROVE ForcesInv'
  OBVIOUS
<1>1. CASE UNCHANGED <<program, plot, forces>>
  BY <1>1 DEF ForcesInv, Finished
<1>2. CASE Analyse
  <2>1. program' = program /\ program \in Phonons /\ cells.displaced # 0
    BY <1>2 DEF Analyse
  <2>2. plot'.cells = cells
    BY <1>2 DEF Analyse, Drawn
  <2>. SUFFICES ASSUME Finished(cells),
                       cells.displaced <= (IF program = "phonopy_cp2k" THEN 999 ELSE 9999)
                PROVE  forces' = cells
    BY <2>1, <2>2 DEF ForcesInv
  <2>3. forces' = IF ~ RunOf(program, cells, input).crashes
                     /\ TakesForces(cells, RunOf(program, cells, input).files)
                  THEN cells ELSE forces
    BY <1>2 DEF Analyse
  <2>. QED  BY <2>1, <2>3, FoundIsDisplaced
<1>3. CASE Plot
  BY <1>3 DEF Plot, ForcesInv
<1>. QED
  <2>1. Analyse \/ Plot \/ UNCHANGED <<program, plot, forces>>
    BY DEF Next, vars, SetKpath, Displace, Calculate, Construct, Project, PlotDensity
  <2>. QED  BY <1>1, <1>2, <1>3, <2>1

(* After a phonon calculation that was finished, FORCE_SETS is made of its *)
(* outputs, one for each displaced supercell, in every of the six programs *)
(* (phonopy.cpp): for any series of calculations, finished or cut short,   *)
(* in one directory and any number of supercells the names can tell.       *)
THEOREM ForcesAreOfThisCalculation == Spec => []ForcesOfThisCalculation
<1>1. CellsInv /\ ForcesInv => ForcesOfThisCalculation
  BY DEF ForcesInv, ForcesOfThisCalculation
<1>. QED  BY <1>1, CellsInvInit, CellsInvNext, ForcesInvNext, PTL DEF Spec

-----------------------------------------------------------------------------
(* The stops of a path and the names of its tics.                          *)
Letters == {"G", "GAMMA", "X", "Y", "Z"}

Nonempty(S) == Seq(S) \ {<<>>}

(* A nonempty sequence with one element more.                              *)
LEMMA OneMore ==
  ASSUME NEW S, NEW s \in Nonempty(S), NEW x \in S
  PROVE  /\ Append(s, x) \in Nonempty(S)
         /\ Len(s) \in Nat \ {0} /\ Len(Append(s, x)) = Len(s) + 1
         /\ \A i \in 1..Len(s) : Append(s, x)[i] = s[i]
         /\ Append(s, x)[Len(s) + 1] = x
BY DEF Nonempty

(* A nonempty sequence with another last element.                          *)
LEMMA OtherLast ==
  ASSUME NEW S, NEW s \in Nonempty(S), NEW x \in S
  PROVE  /\ Last(s) \in S /\ Last(s) = s[Len(s)]
         /\ Append(Front(s), x) \in Nonempty(S)
         /\ Len(s) \in Nat \ {0} /\ Len(Append(Front(s), x)) = Len(s)
         /\ \A i \in 1..Len(s) - 1 : Append(Front(s), x)[i] = s[i]
         /\ Append(Front(s), x)[Len(s)] = x
<1>. DEFINE n == Len(s)
            f == SubSeq(s, 1, n - 1)
<1>1. n \in Nat \ {0} /\ s \in Seq(S) /\ \A i \in 1..n : s[i] \in S
  BY DEF Nonempty
<1>2. f \in Seq(S) /\ Len(f) = n - 1 /\ \A i \in 1..n - 1 : f[i] = s[i]
  <2>. DEFINE m == n - 1
              h == [i \in 1..m |-> s[i]]
  <2>1. m \in Nat /\ \A i \in 1..m : i \in 1..n /\ s[i] \in S
    BY <1>1
  <2>2. f = h
    BY <1>1, <2>1
  <2>. HIDE DEF m, f
  <2>3. h \in Seq(S) /\ Len(h) = m /\ \A i \in 1..m : h[i] = s[i]
    BY <2>1
  <2>. QED  BY <2>2, <2>3 DEF m
<1>3. Front(s) = f
  BY DEF Front
<1>4. Last(s) = s[n] /\ s[n] \in S
  BY <1>1 DEF Last
<1>. HIDE DEF f, n
<1>5. /\ Append(f, x) \in Seq(S) /\ Len(Append(f, x)) = n /\ Append(f, x)[n] = x
      /\ \A i \in 1..n - 1 : Append(f, x)[i] = f[i]
  BY <1>1, <1>2
<1>6. Append(f, x) # <<>>
  BY <1>1, <1>5
<1>. QED  BY <1>1, <1>2, <1>3, <1>4, <1>5, <1>6 DEF n, Nonempty

(* What the points of a path hold.                                         *)
LEMMA PointsOf ==
  ASSUME NEW path \in Seq(Points)
  PROVE  \A i \in 1..Len(path) :
            /\ path[i].link \in Nat
            /\ path[i].label \in {"GAMMA", "X", "Y", "Z"} /\ path[i].label \in Letters
            /\ Shown(path[i].label) \in Letters
<1>1. \A i \in 1..Len(path) : path[i] \in Points
  OBVIOUS
<1>2. ASSUME NEW p \in Points
      PROVE  p.link \in Nat /\ p.label \in {"GAMMA", "X", "Y", "Z"}
  BY DEF Points
<1>3. \A l \in {"GAMMA", "X", "Y", "Z"} : l \in Letters /\ Shown(l) \in Letters
  BY DEF Shown, Letters
<1>. QED  BY <1>1, <1>2, <1>3

(* The label at a break is a sequence of letters.                          *)
LEMMA NamesAtBreak ==
  ASSUME NEW class \in {"abinit", "siesta", "qe", "vasp", "octopus"}, NEW label \in Seq(Letters),
         NEW next \in {"GAMMA", "X", "Y", "Z"}
  PROVE  AtBreak(class, label, next) \in Seq(Letters)
<1>1. next \in Letters /\ Shown(next) \in Letters /\ "G" \in Letters
  BY DEF Letters, Shown
<1>2. Append(label, next) \in Seq(Letters) /\ Append(label, Shown(next)) \in Seq(Letters)
      /\ <<"G">> \in Seq(Letters)
  BY <1>1
<1>. QED  BY <1>2 DEF AtBreak, BothNames, GammaAlone

(* The stops as steps along the segments. *)
LEMMA StopsSteps ==
  ASSUME NEW path \in Seq(Points), Len(path) # 0
  PROVE  \E g : /\ Iterates(g, Len(path) - 1, Nonempty(Nonempty(Nat)), <<<<1>>>>,
                            [i \in 1..Len(path) - 1 |-> [a \in Nonempty(Nonempty(Nat)) |->
                                IF path[i].link # 0 THEN Append(a, <<i + 1>>)
                                ELSE Append(Front(a), Append(Last(a), i + 1))]])
                /\ Stops(path) = g[Len(path) - 1]
<1>. DEFINE After(a, r) == IF path[r].link # 0 THEN Append(a, <<r + 1>>)
                           ELSE Append(Front(a), Append(Last(a), r + 1))
            k == Len(path) - 1
            range == [i \in 1..Len(path) - 1 |-> i]
            V == Nonempty(Nonempty(Nat))
            base == <<<<1>>>>
            step == [i \in 1..k |-> [a \in V |-> After(a, i)]]
            P(G) == G = [X \in SUBSET DOMAIN range |->
                          IF X = {} THEN base
                          ELSE After(G[X \ {Max(X)}], range[Max(X)])]
            C == CHOOSE G : P(G)
<1>1. k \in Nat /\ DOMAIN range = 1..k /\ \A i \in 1..k : range[i] = i
  OBVIOUS
<1>2. Stops(path) = C[DOMAIN range]
  BY DEF Stops, Segments, FoldLeft, MapThenFoldSet
<1>3. base \in V /\ \A i \in 1..k : \A a \in V : After(a, i) \in V
  <2>1. ASSUME NEW i \in Nat, NEW a \in V
        PROVE  Append(a, <<i + 1>>) \in V /\ Append(Front(a), Append(Last(a), i + 1)) \in V
    <3>. DEFINE S == Nonempty(Nat)
    <3>1. <<i + 1>> \in S
      BY DEF Nonempty
    <3>. HIDE DEF S
    <3>2. Last(a) \in S
      BY <3>1, OtherLast DEF S
    <3>3. Append(Last(a), i + 1) \in S
      BY <3>2, OneMore DEF S
    <3>4. /\ Append(a, <<i + 1>>) \in Nonempty(S)
          /\ Append(Front(a), Append(Last(a), i + 1)) \in Nonempty(S)
      BY <3>1, <3>3, OneMore, OtherLast DEF S
    <3>. QED  BY <3>4 DEF S
  <2>2. base \in V
    BY DEF Nonempty
  <2>. HIDE DEF V, base
  <2>. QED  BY <1>1, <2>1, <2>2
<1>. HIDE DEF k, range, V, base
<1>4. step \in [1..k -> [V -> V]]
  BY <1>3
<1>5. PICK F : FoldsOver(F, k, V, base, step)
  <2>. HIDE DEF step
  <2>. QED  BY <1>1, <1>3, <1>4, FoldDefines
<1>6. ASSUME NEW X \in SUBSET (1..k), X # {}
      PROVE  F[X] = After(F[X \ {Max(X)}], range[Max(X)])
  <2>. DEFINE m == Max(X)
              U == X \ {m}
  <2>1. m \in 1..k /\ U \in SUBSET (1..k)
    BY <1>1, <1>6, MaxOfNumbers
  <2>2. F[U] \in V /\ F[X] = step[m][F[U]]
    <3>. HIDE DEF step
    <3>. QED  BY <1>5, <1>6, <2>1 DEF FoldsOver
  <2>. HIDE DEF m, U
  <2>3. range[m] = m
    BY <1>1, <2>1
  <2>4. F[X] = After(F[U], m)
    BY <2>1, <2>2
  <2>. QED  BY <2>3, <2>4 DEF m, U
<1>7. F[{}] = base /\ F \in [SUBSET (1..k) -> V]
  <2>. HIDE DEF step
  <2>. QED  BY <1>5 DEF FoldsOver
<1>8. P(F)
  <2>. HIDE DEF step
  <2>. QED  BY <1>1, <1>6, <1>7, Zenon
<1>9. P(C)
  <2>. HIDE DEF P
  <2>. QED  BY <1>8
<1>. HIDE DEF C
<1>10. C[{}] = base
  BY <1>1, <1>9
<1>11. ASSUME NEW X \in SUBSET (1..k), X # {}, C[X \ {Max(X)}] \in V
       PROVE  C[X] = step[Max(X)][C[X \ {Max(X)}]]
  <2>. DEFINE m == Max(X)
              U == X \ {m}
  <2>1. m \in 1..k
    BY <1>1, <1>11, MaxOfNumbers
  <2>2. C[X] = After(C[X \ {Max(X)}], range[Max(X)])
    BY <1>1, <1>9, <1>11, Zenon
  <2>3. range[m] = m /\ C[U] \in V
    BY <1>1, <1>11, <2>1
  <2>4. C[X] = After(C[U], range[m])
    BY <2>2
  <2>. HIDE DEF m, U
  <2>5. step[m][C[U]] = After(C[U], m)
    BY <2>1, <2>3
  <2>6. C[X] = step[m][C[U]]
    <3>. HIDE DEF step
    <3>. QED  BY <2>3, <2>4, <2>5
  <2>. QED  BY <2>6 DEF m, U
<1>12. \A X \in SUBSET (1..k) :
          X # {} /\ C[X \ {Max(X)}] \in V => C[X] = step[Max(X)][C[X \ {Max(X)}]]
  <2>. HIDE DEF step, P
  <2>. QED  BY <1>11
<1>. DEFINE c == [i \in 0..k |-> C[1..i]]
<1>13. Iterates(c, k, V, base, step)
  <2>1. base \in V /\ k \in Nat
    BY <1>1, <1>3
  <2>. HIDE DEF step, P
  <2>. QED  BY <2>1, <1>4, <1>10, <1>12, ChosenFold, Zenon
<1>14. c[k] = C[DOMAIN range]
  BY <1>1
<1>15. Stops(path) = c[k]
  BY <1>2, <1>14
<1>16. \E g : Iterates(g, k, V, base, step) /\ Stops(path) = g[k]
  <2>. HIDE DEF c, step
  <2>. QED  BY <1>13, <1>15
<1>. QED  BY <1>16 DEF k, V, base

(* The groups of BAND as steps along the segments. *)
LEMMA GroupSteps ==
  ASSUME NEW path \in Seq(Points), Len(path) # 0
  PROVE  \E g : /\ Iterates(g, Len(path) - 1, Nonempty(Nonempty(Nat)), <<<<1>>>>,
                            [i \in 1..Len(path) - 1 |-> [a \in Nonempty(Nonempty(Nat)) |->
                                IF path[i].link # 0 THEN Append(Front(a), Append(Last(a), i + 1))
                                ELSE Append(a, <<i + 1>>)]])
                /\ BandConf(path) = g[Len(path) - 1]
<1>. DEFINE After(a, r) == IF path[r - 1].link # 0 THEN Append(Front(a), Append(Last(a), r))
                           ELSE Append(a, <<r>>)
            k == Len(path) - 1
            range == [i \in 1..Len(path) - 1 |-> i + 1]
            V == Nonempty(Nonempty(Nat))
            base == <<<<1>>>>
            step == [i \in 1..k |-> [a \in V |->
                       IF path[i].link # 0 THEN Append(Front(a), Append(Last(a), i + 1))
                       ELSE Append(a, <<i + 1>>)]]
            P(G) == G = [X \in SUBSET DOMAIN range |->
                          IF X = {} THEN base
                          ELSE After(G[X \ {Max(X)}], range[Max(X)])]
            C == CHOOSE G : P(G)
<1>1. k \in Nat /\ DOMAIN range = 1..k /\ \A i \in 1..k : range[i] = (i + 1)
  OBVIOUS
<1>2. BandConf(path) = C[DOMAIN range]
  BY DEF BandConf, FoldLeft, MapThenFoldSet
<1>3. base \in V /\ \A i \in 1..k : \A a \in V : After(a, i + 1) \in V
  <2>1. ASSUME NEW i \in Nat, NEW a \in V
        PROVE  Append(a, <<i + 1>>) \in V /\ Append(Front(a), Append(Last(a), i + 1)) \in V
    <3>. DEFINE S == Nonempty(Nat)
    <3>1. <<i + 1>> \in S
      BY DEF Nonempty
    <3>. HIDE DEF S
    <3>2. Last(a) \in S
      BY <3>1, OtherLast DEF S
    <3>3. Append(Last(a), i + 1) \in S
      BY <3>2, OneMore DEF S
    <3>4. /\ Append(a, <<i + 1>>) \in Nonempty(S)
          /\ Append(Front(a), Append(Last(a), i + 1)) \in Nonempty(S)
      BY <3>1, <3>3, OneMore, OtherLast DEF S
    <3>. QED  BY <3>4 DEF S
  <2>2. base \in V
    BY DEF Nonempty
  <2>. HIDE DEF V, base
  <2>. QED  BY <1>1, <2>1, <2>2
<1>. HIDE DEF k, range, V, base
<1>4. step \in [1..k -> [V -> V]]
  BY <1>3
<1>5. PICK F : FoldsOver(F, k, V, base, step)
  <2>. HIDE DEF step
  <2>. QED  BY <1>1, <1>3, <1>4, FoldDefines
<1>6. ASSUME NEW X \in SUBSET (1..k), X # {}
      PROVE  F[X] = After(F[X \ {Max(X)}], range[Max(X)])
  <2>. DEFINE m == Max(X)
              U == X \ {m}
  <2>1. m \in 1..k /\ U \in SUBSET (1..k)
    BY <1>1, <1>6, MaxOfNumbers
  <2>2. F[U] \in V /\ F[X] = step[m][F[U]]
    <3>. HIDE DEF step
    <3>. QED  BY <1>5, <1>6, <2>1 DEF FoldsOver
  <2>. HIDE DEF m, U
  <2>3. range[m] = (m + 1)
    BY <1>1, <2>1
  <2>4. F[X] = After(F[U], m + 1)
    BY <2>1, <2>2
  <2>. QED  BY <2>3, <2>4 DEF m, U
<1>7. F[{}] = base /\ F \in [SUBSET (1..k) -> V]
  <2>. HIDE DEF step
  <2>. QED  BY <1>5 DEF FoldsOver
<1>8. P(F)
  <2>. HIDE DEF step
  <2>. QED  BY <1>1, <1>6, <1>7, Zenon
<1>9. P(C)
  <2>. HIDE DEF P
  <2>. QED  BY <1>8
<1>. HIDE DEF C
<1>10. C[{}] = base
  BY <1>1, <1>9
<1>11. ASSUME NEW X \in SUBSET (1..k), X # {}, C[X \ {Max(X)}] \in V
       PROVE  C[X] = step[Max(X)][C[X \ {Max(X)}]]
  <2>. DEFINE m == Max(X)
              U == X \ {m}
  <2>1. m \in 1..k
    BY <1>1, <1>11, MaxOfNumbers
  <2>2. C[X] = After(C[X \ {Max(X)}], range[Max(X)])
    BY <1>1, <1>9, <1>11, Zenon
  <2>3. range[m] = (m + 1) /\ C[U] \in V
    BY <1>1, <1>11, <2>1
  <2>4. C[X] = After(C[U], range[m])
    BY <2>2
  <2>. HIDE DEF m, U
  <2>5. step[m][C[U]] = After(C[U], m + 1)
    BY <2>1, <2>3
  <2>6. C[X] = step[m][C[U]]
    <3>. HIDE DEF step
    <3>. QED  BY <2>3, <2>4, <2>5
  <2>. QED  BY <2>6 DEF m, U
<1>12. \A X \in SUBSET (1..k) :
          X # {} /\ C[X \ {Max(X)}] \in V => C[X] = step[Max(X)][C[X \ {Max(X)}]]
  <2>. HIDE DEF step, P
  <2>. QED  BY <1>11
<1>. DEFINE c == [i \in 0..k |-> C[1..i]]
<1>13. Iterates(c, k, V, base, step)
  <2>1. base \in V /\ k \in Nat
    BY <1>1, <1>3
  <2>. HIDE DEF step, P
  <2>. QED  BY <2>1, <1>4, <1>10, <1>12, ChosenFold, Zenon
<1>14. c[k] = C[DOMAIN range]
  BY <1>1
<1>15. BandConf(path) = c[k]
  BY <1>2, <1>14
<1>16. \E g : Iterates(g, k, V, base, step) /\ BandConf(path) = g[k]
  <2>. HIDE DEF c, step
  <2>. QED  BY <1>13, <1>15
<1>. QED  BY <1>16 DEF k, V, base

(* The names by links as steps along the segments. *)
LEMMA LinkSteps ==
  ASSUME NEW path \in Seq(Points), Len(path) # 0,
         NEW class \in {"abinit", "siesta", "qe", "vasp", "octopus"}
  PROVE  \E g : /\ Iterates(g, Len(path) - 1, Nonempty(Seq(Letters)), <<<<Shown(path[1].label)>>>>,
                            [i \in 1..Len(path) - 1 |-> [a \in Nonempty(Seq(Letters)) |->
                                IF path[i].link # 0 THEN Append(a, <<Shown(path[i + 1].label)>>)
                                ELSE Append(Front(a), AtBreak(class, Last(a), path[i + 1].label))]])
                /\ ByLinks(path, class) = g[Len(path) - 1]
<1>. DEFINE After(a, r) == IF path[r - 1].link # 0 THEN Append(a, <<Shown(path[r].label)>>)
                           ELSE Append(Front(a), AtBreak(class, Last(a), path[r].label))
            k == Len(path) - 1
            range == [i \in 1..Len(path) - 1 |-> i + 1]
            V == Nonempty(Seq(Letters))
            base == <<<<Shown(path[1].label)>>>>
            step == [i \in 1..k |-> [a \in V |->
                       IF path[i].link # 0 THEN Append(a, <<Shown(path[i + 1].label)>>)
                       ELSE Append(Front(a), AtBreak(class, Last(a), path[i + 1].label))]]
            P(G) == G = [X \in SUBSET DOMAIN range |->
                          IF X = {} THEN base
                          ELSE After(G[X \ {Max(X)}], range[Max(X)])]
            C == CHOOSE G : P(G)
<1>1. k \in Nat /\ DOMAIN range = 1..k /\ \A i \in 1..k : range[i] = (i + 1)
  OBVIOUS
<1>2. ByLinks(path, class) = C[DOMAIN range]
  BY DEF ByLinks, Segments, FoldLeft, MapThenFoldSet
<1>3. base \in V /\ \A i \in 1..k : \A a \in V : After(a, i + 1) \in V
  <2>. DEFINE S == Seq(Letters)
  <2>1. \A l \in Letters : <<l>> \in S
    OBVIOUS
  <2>2. \A i \in 1..Len(path) : /\ path[i].label \in {"GAMMA", "X", "Y", "Z"}
                               /\ Shown(path[i].label) \in Letters
    BY PointsOf
  <2>3. 1 \in 1..Len(path) /\ \A i \in 1..k : i + 1 \in 1..Len(path)
    OBVIOUS
  <2>4. base \in V
    <3>1. <<Shown(path[1].label)>> \in S
      BY <2>1, <2>2, <2>3
    <3>. HIDE DEF S
    <3>. QED  BY <3>1 DEF Nonempty, S
  <2>5. ASSUME NEW i \in 1..k, NEW a \in V
        PROVE  /\ Append(a, <<Shown(path[i + 1].label)>>) \in V
               /\ Append(Front(a), AtBreak(class, Last(a), path[i + 1].label)) \in V
    <3>1. <<Shown(path[i + 1].label)>> \in S /\ path[i + 1].label \in {"GAMMA", "X", "Y", "Z"}
      BY <2>1, <2>2, <2>3
    <3>. HIDE DEF S
    <3>2. Last(a) \in S
      BY <3>1, OtherLast DEF S
    <3>3. AtBreak(class, Last(a), path[i + 1].label) \in S
      BY <3>1, <3>2, NamesAtBreak DEF S
    <3>4. /\ Append(a, <<Shown(path[i + 1].label)>>) \in Nonempty(S)
          /\ Append(Front(a), AtBreak(class, Last(a), path[i + 1].label)) \in Nonempty(S)
      BY <3>1, <3>3, OneMore, OtherLast DEF S
    <3>. QED  BY <3>4 DEF S
  <2>. HIDE DEF V, base
  <2>. QED  BY <1>1, <2>4, <2>5
<1>. HIDE DEF k, range, V, base
<1>4. step \in [1..k -> [V -> V]]
  BY <1>3
<1>5. PICK F : FoldsOver(F, k, V, base, step)
  <2>. HIDE DEF step
  <2>. QED  BY <1>1, <1>3, <1>4, FoldDefines
<1>6. ASSUME NEW X \in SUBSET (1..k), X # {}
      PROVE  F[X] = After(F[X \ {Max(X)}], range[Max(X)])
  <2>. DEFINE m == Max(X)
              U == X \ {m}
  <2>1. m \in 1..k /\ U \in SUBSET (1..k)
    BY <1>1, <1>6, MaxOfNumbers
  <2>2. F[U] \in V /\ F[X] = step[m][F[U]]
    <3>. HIDE DEF step
    <3>. QED  BY <1>5, <1>6, <2>1 DEF FoldsOver
  <2>. HIDE DEF m, U
  <2>3. range[m] = (m + 1)
    BY <1>1, <2>1
  <2>4. F[X] = After(F[U], m + 1)
    BY <2>1, <2>2
  <2>. QED  BY <2>3, <2>4 DEF m, U
<1>7. F[{}] = base /\ F \in [SUBSET (1..k) -> V]
  <2>. HIDE DEF step
  <2>. QED  BY <1>5 DEF FoldsOver
<1>8. P(F)
  <2>. HIDE DEF step
  <2>. QED  BY <1>1, <1>6, <1>7, Zenon
<1>9. P(C)
  <2>. HIDE DEF P
  <2>. QED  BY <1>8
<1>. HIDE DEF C
<1>10. C[{}] = base
  BY <1>1, <1>9
<1>11. ASSUME NEW X \in SUBSET (1..k), X # {}, C[X \ {Max(X)}] \in V
       PROVE  C[X] = step[Max(X)][C[X \ {Max(X)}]]
  <2>. DEFINE m == Max(X)
              U == X \ {m}
  <2>1. m \in 1..k
    BY <1>1, <1>11, MaxOfNumbers
  <2>2. C[X] = After(C[X \ {Max(X)}], range[Max(X)])
    BY <1>1, <1>9, <1>11, Zenon
  <2>3. range[m] = (m + 1) /\ C[U] \in V
    BY <1>1, <1>11, <2>1
  <2>4. C[X] = After(C[U], range[m])
    BY <2>2
  <2>. HIDE DEF m, U
  <2>5. step[m][C[U]] = After(C[U], m + 1)
    BY <2>1, <2>3
  <2>6. C[X] = step[m][C[U]]
    <3>. HIDE DEF step
    <3>. QED  BY <2>3, <2>4, <2>5
  <2>. QED  BY <2>6 DEF m, U
<1>12. \A X \in SUBSET (1..k) :
          X # {} /\ C[X \ {Max(X)}] \in V => C[X] = step[Max(X)][C[X \ {Max(X)}]]
  <2>. HIDE DEF step, P
  <2>. QED  BY <1>11
<1>. DEFINE c == [i \in 0..k |-> C[1..i]]
<1>13. Iterates(c, k, V, base, step)
  <2>1. base \in V /\ k \in Nat
    BY <1>1, <1>3
  <2>. HIDE DEF step, P
  <2>. QED  BY <2>1, <1>4, <1>10, <1>12, ChosenFold, Zenon
<1>14. c[k] = C[DOMAIN range]
  BY <1>1
<1>15. ByLinks(path, class) = c[k]
  BY <1>2, <1>14
<1>16. \E g : Iterates(g, k, V, base, step) /\ ByLinks(path, class) = g[k]
  <2>. HIDE DEF c, step
  <2>. QED  BY <1>13, <1>15
<1>. QED  BY <1>16 DEF k, V, base

(* The names of the sets of CP2K, and of the segments of band.yaml, set by *)
(* set.                                                                    *)
LEMMA SetLabelSteps ==
  ASSUME NEW sets, NEW n \in Nat, n # 0, Len(sets) = n,
         \A s \in 1..n : /\ sets[s].from \in Letters /\ Shown(sets[s].from) \in Letters
                         /\ sets[s].to \in Letters /\ Shown(sets[s].to) \in Letters
  PROVE  \E g : /\ Iterates(g, n - 1, Nonempty(Seq(Letters)),
                            <<<<Shown(sets[1].from)>>, <<Shown(sets[1].from)>>>>,
                            [i \in 1..n - 1 |-> [a \in Nonempty(Seq(Letters)) |->
                                Append(IF sets[i + 1].from = sets[i].to THEN a
                                       ELSE Append(Front(a), <<sets[i].to, Shown(sets[i + 1].from)>>),
                                       <<Shown(sets[i + 1].to)>>)]])
                /\ SetLabels(sets) = g[n - 1]
<1>. DEFINE After(a, r) == Append(IF sets[r].from = sets[r - 1].to THEN a
                                  ELSE Append(Front(a), <<sets[r - 1].to, Shown(sets[r].from)>>),
                                  <<Shown(sets[r].to)>>)
            k == n - 1
            range == [i \in 1..n - 1 |-> i + 1]
            V == Nonempty(Seq(Letters))
            base == <<<<Shown(sets[1].from)>>, <<Shown(sets[1].from)>>>>
            step == [i \in 1..k |-> [a \in V |->
                       Append(IF sets[i + 1].from = sets[i].to THEN a
                              ELSE Append(Front(a), <<sets[i].to, Shown(sets[i + 1].from)>>),
                              <<Shown(sets[i + 1].to)>>)]]
            P(G) == G = [X \in SUBSET DOMAIN range |->
                          IF X = {} THEN base
                          ELSE After(G[X \ {Max(X)}], range[Max(X)])]
            C == CHOOSE G : P(G)
<1>1. k \in Nat /\ DOMAIN range = 1..k /\ \A i \in 1..k : range[i] = (i + 1)
  OBVIOUS
<1>2. SetLabels(sets) = C[DOMAIN range]
  BY DEF SetLabels, FoldLeft, MapThenFoldSet
<1>3. base \in V /\ \A i \in 1..k : \A a \in V : After(a, i + 1) \in V
  <2>. DEFINE S == Seq(Letters)
  <2>1. \A l \in Letters : <<l>> \in S /\ \A m \in Letters : <<l, m>> \in S
    OBVIOUS
  <2>3. 1 \in 1..n /\ \A i \in 1..k : i + 1 \in 1..n /\ (i + 1) - 1 \in 1..n
    OBVIOUS
  <2>4. base \in V
    <3>1. <<Shown(sets[1].from)>> \in S /\ <<Shown(sets[1].to)>> \in S
      BY <2>1, <2>3
    <3>. HIDE DEF S
    <3>. QED  BY <3>1 DEF Nonempty, S
  <2>5. ASSUME NEW i \in 1..k, NEW a \in V
        PROVE  After(a, i + 1) \in V
    <3>. DEFINE both == <<sets[(i + 1) - 1].to, Shown(sets[(i + 1)].from)>>
                last == <<Shown(sets[i + 1].to)>>
    <3>1. last \in S /\ both \in S
      BY <2>1, <2>3
    <3>. HIDE DEF S, both, last
    <3>2. Append(Front(a), both) \in Nonempty(S) /\ a \in Nonempty(S)
      BY <3>1, OtherLast DEF S
    <3>3. Append(a, last) \in Nonempty(S) /\ Append(Append(Front(a), both), last) \in Nonempty(S)
      BY <3>1, <3>2, OneMore
    <3>. QED  BY <3>3 DEF S, both, last
  <2>. HIDE DEF V, base
  <2>. QED  BY <1>1, <2>4, <2>5
<1>. HIDE DEF k, range, V, base
<1>4. step \in [1..k -> [V -> V]]
  BY <1>3
<1>5. PICK F : FoldsOver(F, k, V, base, step)
  <2>. HIDE DEF step
  <2>. QED  BY <1>1, <1>3, <1>4, FoldDefines
<1>6. ASSUME NEW X \in SUBSET (1..k), X # {}
      PROVE  F[X] = After(F[X \ {Max(X)}], range[Max(X)])
  <2>. DEFINE m == Max(X)
              U == X \ {m}
  <2>1. m \in 1..k /\ U \in SUBSET (1..k)
    BY <1>1, <1>6, MaxOfNumbers
  <2>2. F[U] \in V /\ F[X] = step[m][F[U]]
    <3>. HIDE DEF step
    <3>. QED  BY <1>5, <1>6, <2>1 DEF FoldsOver
  <2>. HIDE DEF m, U
  <2>3. range[m] = (m + 1)
    BY <1>1, <2>1
  <2>4. F[X] = After(F[U], m + 1)
    BY <2>1, <2>2
  <2>. QED  BY <2>3, <2>4 DEF m, U
<1>7. F[{}] = base /\ F \in [SUBSET (1..k) -> V]
  <2>. HIDE DEF step
  <2>. QED  BY <1>5 DEF FoldsOver
<1>8. P(F)
  <2>. HIDE DEF step
  <2>. QED  BY <1>1, <1>6, <1>7, Zenon
<1>9. P(C)
  <2>. HIDE DEF P
  <2>. QED  BY <1>8
<1>. HIDE DEF C
<1>10. C[{}] = base
  BY <1>1, <1>9
<1>11. ASSUME NEW X \in SUBSET (1..k), X # {}, C[X \ {Max(X)}] \in V
       PROVE  C[X] = step[Max(X)][C[X \ {Max(X)}]]
  <2>. DEFINE m == Max(X)
              U == X \ {m}
  <2>1. m \in 1..k
    BY <1>1, <1>11, MaxOfNumbers
  <2>2. C[X] = After(C[X \ {Max(X)}], range[Max(X)])
    BY <1>1, <1>9, <1>11, Zenon
  <2>3. range[m] = (m + 1) /\ C[U] \in V
    BY <1>1, <1>11, <2>1
  <2>4. C[X] = After(C[U], range[m])
    BY <2>2
  <2>. HIDE DEF m, U
  <2>5. step[m][C[U]] = After(C[U], m + 1)
    BY <2>1, <2>3
  <2>6. C[X] = step[m][C[U]]
    <3>. HIDE DEF step
    <3>. QED  BY <2>3, <2>4, <2>5
  <2>. QED  BY <2>6 DEF m, U
<1>12. \A X \in SUBSET (1..k) :
          X # {} /\ C[X \ {Max(X)}] \in V => C[X] = step[Max(X)][C[X \ {Max(X)}]]
  <2>. HIDE DEF step, P
  <2>. QED  BY <1>11
<1>. DEFINE c == [i \in 0..k |-> C[1..i]]
<1>13. Iterates(c, k, V, base, step)
  <2>1. base \in V /\ k \in Nat
    BY <1>1, <1>3
  <2>. HIDE DEF step, P
  <2>. QED  BY <2>1, <1>4, <1>10, <1>12, ChosenFold, ZenonT(40)
<1>14. c[k] = C[DOMAIN range]
  BY <1>1
<1>15. SetLabels(sets) = c[k]
  BY <1>2, <1>14
<1>16. \E g : Iterates(g, k, V, base, step) /\ SetLabels(sets) = g[k]
  <2>. HIDE DEF c, step
  <2>. QED  BY <1>13, <1>15
<1>. QED  BY <1>16 DEF k, V, base

(* The labels of a phonon plot, as steps along the segments of the path.   *)
LEMMA PhononLabelSteps ==
  ASSUME NEW sets, NEW n \in Nat, n # 0, Len(sets) = n,
         \A s \in 1..n : /\ sets[s].from \in Letters /\ Shown(sets[s].from) \in Letters
                         /\ sets[s].to \in Letters /\ Shown(sets[s].to) \in Letters
  PROVE  \E g : /\ Iterates(g, n - 1, Nonempty(Seq(Letters)),
                            <<<<Shown(sets[1].from)>>, <<Shown(sets[1].to)>>>>,
                            [i \in 1..n - 1 |-> [a \in Nonempty(Seq(Letters)) |->
                                Append(IF i + 1 \in Breaks(sets)
                                       THEN Append(Front(a), <<Shown(sets[i].to), sets[i + 1].from>>) ELSE a,
                                       <<Shown(sets[i + 1].to)>>)]])
                /\ PhononLabels(sets) = g[n - 1]
<1>. DEFINE After(a, r) == Append(IF r \in Breaks(sets)
                                  THEN Append(Front(a), <<Shown(sets[r - 1].to), sets[r].from>>) ELSE a,
                                  <<Shown(sets[r].to)>>)
            k == n - 1
            range == [i \in 1..n - 1 |-> i + 1]
            V == Nonempty(Seq(Letters))
            base == <<<<Shown(sets[1].from)>>, <<Shown(sets[1].to)>>>>
            step == [i \in 1..k |-> [a \in V |->
                       Append(IF i + 1 \in Breaks(sets)
                              THEN Append(Front(a), <<Shown(sets[i].to), sets[i + 1].from>>) ELSE a,
                              <<Shown(sets[i + 1].to)>>)]]
            P(G) == G = [X \in SUBSET DOMAIN range |->
                          IF X = {} THEN base
                          ELSE After(G[X \ {Max(X)}], range[Max(X)])]
            C == CHOOSE G : P(G)
<1>1. k \in Nat /\ DOMAIN range = 1..k /\ \A i \in 1..k : range[i] = (i + 1)
  OBVIOUS
<1>2. PhononLabels(sets) = C[DOMAIN range]
  BY DEF PhononLabels, Symbol, Shown, FoldLeft, MapThenFoldSet
<1>3. base \in V /\ \A i \in 1..k : \A a \in V : After(a, i + 1) \in V
  <2>. DEFINE S == Seq(Letters)
  <2>1. \A l \in Letters : <<l>> \in S /\ \A m \in Letters : <<l, m>> \in S
    OBVIOUS
  <2>3. 1 \in 1..n /\ \A i \in 1..k : i + 1 \in 1..n /\ (i + 1) - 1 \in 1..n
    OBVIOUS
  <2>4. base \in V
    <3>1. <<Shown(sets[1].from)>> \in S /\ <<Shown(sets[1].to)>> \in S
      BY <2>1, <2>3
    <3>. HIDE DEF S
    <3>. QED  BY <3>1 DEF Nonempty, S
  <2>5. ASSUME NEW i \in 1..k, NEW a \in V
        PROVE  After(a, i + 1) \in V
    <3>. DEFINE both == <<Shown(sets[(i + 1) - 1].to), sets[(i + 1)].from>>
                last == <<Shown(sets[i + 1].to)>>
    <3>1. last \in S /\ both \in S
      BY <2>1, <2>3
    <3>. HIDE DEF S, both, last
    <3>2. Append(Front(a), both) \in Nonempty(S) /\ a \in Nonempty(S)
      BY <3>1, OtherLast DEF S
    <3>3. Append(a, last) \in Nonempty(S) /\ Append(Append(Front(a), both), last) \in Nonempty(S)
      BY <3>1, <3>2, OneMore
    <3>. QED  BY <3>3 DEF S, both, last
  <2>. HIDE DEF V, base
  <2>. QED  BY <1>1, <2>4, <2>5
<1>. HIDE DEF k, range, V, base
<1>4. step \in [1..k -> [V -> V]]
  BY <1>3
<1>5. PICK F : FoldsOver(F, k, V, base, step)
  <2>. HIDE DEF step
  <2>. QED  BY <1>1, <1>3, <1>4, FoldDefines
<1>6. ASSUME NEW X \in SUBSET (1..k), X # {}
      PROVE  F[X] = After(F[X \ {Max(X)}], range[Max(X)])
  <2>. DEFINE m == Max(X)
              U == X \ {m}
  <2>1. m \in 1..k /\ U \in SUBSET (1..k)
    BY <1>1, <1>6, MaxOfNumbers
  <2>2. F[U] \in V /\ F[X] = step[m][F[U]]
    <3>. HIDE DEF step
    <3>. QED  BY <1>5, <1>6, <2>1 DEF FoldsOver
  <2>. HIDE DEF m, U
  <2>3. range[m] = (m + 1)
    BY <1>1, <2>1
  <2>4. F[X] = After(F[U], m + 1)
    BY <2>1, <2>2
  <2>. QED  BY <2>3, <2>4 DEF m, U
<1>7. F[{}] = base /\ F \in [SUBSET (1..k) -> V]
  <2>. HIDE DEF step
  <2>. QED  BY <1>5 DEF FoldsOver
<1>8. P(F)
  <2>. HIDE DEF step
  <2>. QED  BY <1>1, <1>6, <1>7, Zenon
<1>9. P(C)
  <2>. HIDE DEF P
  <2>. QED  BY <1>8
<1>. HIDE DEF C
<1>10. C[{}] = base
  BY <1>1, <1>9
<1>11. ASSUME NEW X \in SUBSET (1..k), X # {}, C[X \ {Max(X)}] \in V
       PROVE  C[X] = step[Max(X)][C[X \ {Max(X)}]]
  <2>. DEFINE m == Max(X)
              U == X \ {m}
  <2>1. m \in 1..k
    BY <1>1, <1>11, MaxOfNumbers
  <2>2. C[X] = After(C[X \ {Max(X)}], range[Max(X)])
    BY <1>1, <1>9, <1>11, Zenon
  <2>3. range[m] = (m + 1) /\ C[U] \in V
    BY <1>1, <1>11, <2>1
  <2>4. C[X] = After(C[U], range[m])
    BY <2>2
  <2>. HIDE DEF m, U
  <2>5. step[m][C[U]] = After(C[U], m + 1)
    <3>1. (m + 1) - 1 = m
      BY <1>1, <2>1
    <3>2. step[m][C[U]] = Append(IF m + 1 \in Breaks(sets)
                                 THEN Append(Front(C[U]), <<Shown(sets[m].to), sets[m + 1].from>>)
                                 ELSE C[U],
                                 <<Shown(sets[m + 1].to)>>)
      BY <2>1, <2>3
    <3>. QED  BY <3>1, <3>2
  <2>6. C[X] = step[m][C[U]]
    <3>. HIDE DEF step
    <3>. QED  BY <2>3, <2>4, <2>5
  <2>. QED  BY <2>6 DEF m, U
<1>12. \A X \in SUBSET (1..k) :
          X # {} /\ C[X \ {Max(X)}] \in V => C[X] = step[Max(X)][C[X \ {Max(X)}]]
  <2>. HIDE DEF step, P
  <2>. QED  BY <1>11
<1>. DEFINE c == [i \in 0..k |-> C[1..i]]
<1>13. Iterates(c, k, V, base, step)
  <2>1. base \in V /\ k \in Nat
    BY <1>1, <1>3
  <2>. HIDE DEF step, P
  <2>. QED  BY <2>1, <1>4, <1>10, <1>12, ChosenFold, ZenonT(40)
<1>14. c[k] = C[DOMAIN range]
  BY <1>1
<1>15. PhononLabels(sets) = c[k]
  BY <1>2, <1>14
<1>16. \E g : Iterates(g, k, V, base, step) /\ PhononLabels(sets) = g[k]
  <2>. HIDE DEF c, step
  <2>. QED  BY <1>13, <1>15
<1>. QED  BY <1>16 DEF k, V, base

(* The last element of a nonempty sequence.                                *)
LEMMA LastOf ==
  ASSUME NEW S, NEW s \in Nonempty(S)
  PROVE  Last(s) \in S /\ Last(s) = s[Len(s)] /\ DOMAIN s = 1..Len(s) /\ Len(s) \in Nat \ {0}
<1>1. Len(s) \in Nat \ {0} /\ s[Len(s)] \in S /\ DOMAIN s = 1..Len(s)
  BY DEF Nonempty
<1>. QED  BY <1>1 DEF Last

(* OtherLast, of a sequence that is given by an equation.                  *)
LEMMA OtherLastIs ==
  ASSUME NEW S, NEW s \in Nonempty(S), NEW x \in S, NEW t, t = Append(Front(s), x)
  PROVE  /\ Len(t) = Len(s) /\ t[Len(s)] = x
         /\ \A i \in 1..Len(s) - 1 : t[i] = s[i]
<1>1. Len(t) = Len(s)
  BY OtherLast
<1>2. t[Len(s)] = x
  BY OtherLast
<1>3. \A i \in 1..Len(s) - 1 : t[i] = s[i]
  BY OtherLast
<1>. QED  BY <1>1, <1>2, <1>3

(* OneMore, of a sequence that is given by an equation.                    *)
LEMMA OneMoreIs ==
  ASSUME NEW S, NEW s \in Nonempty(S), NEW x \in S, NEW t, t = Append(s, x)
  PROVE  /\ Len(t) = Len(s) + 1 /\ t[Len(s) + 1] = x
         /\ \A i \in 1..Len(s) : t[i] = s[i]
<1>1. Len(t) = Len(s) + 1
  BY OneMore
<1>2. t[Len(s) + 1] = x
  BY OneMore
<1>3. \A i \in 1..Len(s) : t[i] = s[i]
  BY OneMore
<1>. QED  BY <1>1, <1>2, <1>3

(* The stops, and the names by links, one after the other. *)
LEMMA StopsDefined ==
  ASSUME NEW path \in Seq(Points), NEW n \in Nat, n # 0, Len(path) = n
  PROVE  \E g : /\ g[0] = <<<<1>>>> /\ Stops(path) = g[n - 1]
                /\ \A i \in 0..n - 1 : g[i] \in Nonempty(Nonempty(Nat))
                /\ \A i \in 1..n - 1 : g[i] = IF path[i].link # 0 THEN Append(g[i - 1], <<i + 1>>)
                                              ELSE Append(Front(g[i - 1]), Append(Last(g[i - 1]), i + 1))
<1>. DEFINE V == Nonempty(Nonempty(Nat))
            step == [i \in 1..n - 1 |-> [a \in V |->
                       (IF path[i].link # 0 THEN Append(a, <<i + 1>>)
                        ELSE Append(Front(a), Append(Last(a), i + 1)))]]
<1>1. PICK g : Iterates(g, n - 1, V, <<<<1>>>>, step) /\ Stops(path) = g[n - 1]
  BY StopsSteps
<1>2. /\ g \in [0..n - 1 -> V] /\ g[0] = <<<<1>>>>
      /\ \A i \in 1..n - 1 : g[i] = step[i][g[i - 1]]
  <2>. HIDE DEF step, V
  <2>. QED  BY <1>1 DEF Iterates
<1>3. \A i \in 0..n - 1 : g[i] \in V
  <2>. HIDE DEF V
  <2>. QED  BY <1>2
<1>4. ASSUME NEW i \in 1..n - 1
      PROVE  g[i] = IF path[i].link # 0 THEN Append(g[i - 1], <<i + 1>>)
                    ELSE Append(Front(g[i - 1]), Append(Last(g[i - 1]), i + 1))
  <2>1. g[i - 1] \in V /\ g[i] = step[i][g[i - 1]]
    <3>. HIDE DEF step, V
    <3>. QED  BY <1>2, <1>3
  <2>. HIDE DEF V
  <2>. QED  BY <2>1
<1>. HIDE DEF step
<1>. QED  BY <1>1, <1>2, <1>3, <1>4

(* The labels by links, one segment after the other.                       *)
LEMMA LinksDefined ==
  ASSUME NEW path \in Seq(Points), NEW n \in Nat, n # 0, Len(path) = n,
         NEW class \in {"abinit", "siesta", "qe", "vasp", "octopus"}
  PROVE  \E g : /\ g[0] = <<<<Shown(path[1].label)>>>> /\ ByLinks(path, class) = g[n - 1]
                /\ \A i \in 0..n - 1 : g[i] \in Nonempty(Seq(Letters))
                /\ \A i \in 1..n - 1 :
                      g[i] = IF path[i].link # 0 THEN Append(g[i - 1], <<Shown(path[i + 1].label)>>)
                             ELSE Append(Front(g[i - 1]),
                                         AtBreak(class, Last(g[i - 1]), path[i + 1].label))
<1>. DEFINE V == Nonempty(Seq(Letters))
            base == <<<<Shown(path[1].label)>>>>
            step == [i \in 1..n - 1 |-> [a \in V |->
                       (IF path[i].link # 0 THEN Append(a, <<Shown(path[i + 1].label)>>)
                        ELSE Append(Front(a), AtBreak(class, Last(a), path[i + 1].label)))]]
<1>1. PICK g : Iterates(g, n - 1, V, base, step) /\ ByLinks(path, class) = g[n - 1]
  BY LinkSteps
<1>. HIDE DEF base
<1>2. /\ g \in [0..n - 1 -> V] /\ g[0] = base
      /\ \A i \in 1..n - 1 : g[i] = step[i][g[i - 1]]
  <2>. HIDE DEF step, V
  <2>. QED  BY <1>1 DEF Iterates
<1>3. \A i \in 0..n - 1 : g[i] \in V
  <2>. HIDE DEF V
  <2>. QED  BY <1>2
<1>4. ASSUME NEW i \in 1..n - 1
      PROVE  g[i] = IF path[i].link # 0 THEN Append(g[i - 1], <<Shown(path[i + 1].label)>>)
                    ELSE Append(Front(g[i - 1]), AtBreak(class, Last(g[i - 1]), path[i + 1].label))
  <2>1. g[i - 1] \in V /\ g[i] = step[i][g[i - 1]]
    <3>. HIDE DEF step, V
    <3>. QED  BY <1>2, <1>3
  <2>2. (i + 1) - 1 = i
    OBVIOUS
  <2>. HIDE DEF V
  <2>. QED  BY <2>1, <2>2
<1>. HIDE DEF step
<1>. QED  BY <1>1, <1>2, <1>3, <1>4 DEF base

(* The names of a stop with one more point. *)
LEMMA NamesGrow ==
  ASSUME NEW path, NEW stop \in Nonempty(Nat), NEW i \in Nat
  PROVE  /\ Names(path, Append(stop, i)) = Append(Names(path, stop), Shown(path[i].label))
         /\ Names(path, <<i>>) = <<Shown(path[i].label)>>
         /\ Len(Append(stop, i)) > 1
         /\ \E q \in DOMAIN Append(stop, i) : Append(stop, i)[q] = i
         /\ GammaAtBreak(path, stop) => GammaAtBreak(path, Append(stop, i))
<1>. DEFINE n == Len(stop)
            S == {Shown(path[j].label) : j \in Nat}
            more == Append(stop, i)
<1>1. /\ n \in Nat /\ n > 0 /\ DOMAIN stop = 1..n /\ \A q \in 1..n : stop[q] \in Nat
      /\ DOMAIN more = 1..n + 1 /\ Len(more) = n + 1 /\ more[n + 1] = i
      /\ \A q \in 1..n : more[q] = stop[q]
  BY DEF Nonempty
<1>. HIDE DEF n, more
<1>2. \A j \in Nat : Shown(path[j].label) \in S
  OBVIOUS
<1>3. Names(path, <<i>>) = <<Shown(path[i].label)>>
  BY DEF Names
<1>4. /\ Names(path, stop) = [q \in 1..n |-> Shown(path[stop[q]].label)]
      /\ Names(path, more) = [q \in 1..n + 1 |-> Shown(path[more[q]].label)]
  BY <1>1 DEF Names
<1>. HIDE DEF S
<1>5. /\ Names(path, stop) \in Seq(S) /\ Len(Names(path, stop)) = n
      /\ \A q \in 1..n : Names(path, stop)[q] = Shown(path[stop[q]].label)
  BY <1>1, <1>2, <1>4
<1>. DEFINE x == Shown(path[i].label)
            longer == Append(Names(path, stop), x)
<1>6. x \in S
  BY <1>2
<1>. HIDE DEF x
<1>7. /\ longer \in Seq(S) /\ Len(longer) = n + 1 /\ longer[n + 1] = x
      /\ \A q \in 1..n : longer[q] = Shown(path[stop[q]].label)
  BY <1>1, <1>5, <1>6
<1>. HIDE DEF longer
<1>8. \A q \in 1..n + 1 : Names(path, more)[q] = longer[q]
  <2>. SUFFICES ASSUME NEW q \in 1..n + 1 PROVE Names(path, more)[q] = longer[q]
    OBVIOUS
  <2>1. CASE q = n + 1
    BY <2>1, <1>1, <1>4, <1>7 DEF x
  <2>2. CASE q # n + 1
    <3>1. q \in 1..n
      BY <2>2, <1>1
    <3>. QED  BY <3>1, <1>1, <1>4, <1>7
  <2>. QED  BY <2>1, <2>2
<1>9. Names(path, more) = longer
  <2>1. longer = [q \in 1..n + 1 |-> longer[q]]
    BY <1>1, <1>7
  <2>. QED  BY <2>1, <1>4, <1>8
<1>10. Len(more) > 1 /\ n + 1 \in DOMAIN more
  BY <1>1
<1>11. GammaAtBreak(path, stop) => GammaAtBreak(path, more)
  <2>. SUFFICES ASSUME NEW q \in DOMAIN stop, path[stop[q]].label = "GAMMA"
                PROVE  \E r \in DOMAIN more : path[more[r]].label = "GAMMA"
    BY <1>10 DEF GammaAtBreak
  <2>1. q \in DOMAIN more /\ more[q] = stop[q]
    BY <1>1
  <2>. QED  BY <2>1
<1>. QED  BY <1>1, <1>3, <1>9, <1>10, <1>11 DEF more, longer, x

(* A tic by links that says what it should. *)
Named(path, class, label, stop) ==
    \/ label = Names(path, stop)
    \/ class \in {"abinit", "siesta", "octopus"} /\ GammaAtBreak(path, stop)

(* A point after a break is added to the stop, and its name to the label.  *)
LEMMA NamedAtBreak ==
  ASSUME NEW path, NEW class \in {"abinit", "siesta", "qe", "vasp", "octopus"},
         NEW label, NEW stop \in Nonempty(Nat), NEW i \in Nat, Named(path, class, label, stop)
  PROVE  Named(path, class, AtBreak(class, label, path[i].label), Append(stop, i))
<1>. DEFINE next == path[i].label
            more == Append(stop, i)
<1>1. /\ Names(path, more) = Append(Names(path, stop), Shown(next)) /\ Len(more) > 1
      /\ \E q \in DOMAIN more : more[q] = i
      /\ GammaAtBreak(path, stop) => GammaAtBreak(path, more)
  BY NamesGrow
<1>2. next = "GAMMA" => GammaAtBreak(path, more)
  BY <1>1 DEF GammaAtBreak
<1>. HIDE DEF more, next
<1>3. Named(path, class, AtBreak(class, label, next), more)
  <2>1. CASE class \in {"qe", "vasp"}
    <3>1. AtBreak(class, label, next) = Append(label, Shown(next)) /\ label = Names(path, stop)
      BY <2>1 DEF AtBreak, BothNames, Named
    <3>. QED  BY <3>1, <1>1 DEF Named
  <2>2. CASE class \in {"abinit", "siesta", "octopus"}
    <3>1. CASE next = "GAMMA" \/ GammaAtBreak(path, stop)
      BY <3>1, <2>2, <1>1, <1>2 DEF Named
    <3>2. CASE next # "GAMMA" /\ ~ GammaAtBreak(path, stop)
      <4>1. /\ AtBreak(class, label, next) = Append(label, next)
            /\ label = Names(path, stop) /\ Shown(next) = next
        BY <3>2, <2>2 DEF AtBreak, GammaAlone, Named, Shown
      <4>. QED  BY <4>1, <1>1 DEF Named
    <3>. QED  BY <3>1, <3>2
  <2>. QED  BY <2>1, <2>2
<1>. QED  BY <1>3 DEF more, next

(* The names by links are those of the stops. *)
LEMMA LinksName ==
  ASSUME NEW path \in Seq(Points), Len(path) # 0,
         NEW class \in {"abinit", "siesta", "qe", "vasp", "octopus"}
  PROVE  /\ DOMAIN ByLinks(path, class) = DOMAIN Stops(path)
         /\ \A t \in DOMAIN Stops(path) :
               Named(path, class, ByLinks(path, class)[t], Stops(path)[t])
<1>. DEFINE n == Len(path)
<1>1. n \in Nat /\ n # 0 /\ n - 1 \in Nat
  OBVIOUS
<1>2. PICK g : /\ g[0] = <<<<1>>>> /\ Stops(path) = g[n - 1]
               /\ \A i \in 0..n - 1 : g[i] \in Nonempty(Nonempty(Nat))
               /\ \A i \in 1..n - 1 : g[i] = IF path[i].link # 0 THEN Append(g[i - 1], <<i + 1>>)
                                             ELSE Append(Front(g[i - 1]), Append(Last(g[i - 1]), i + 1))
  BY <1>1, StopsDefined
<1>3. PICK f : /\ f[0] = <<<<Shown(path[1].label)>>>> /\ ByLinks(path, class) = f[n - 1]
               /\ \A i \in 0..n - 1 : f[i] \in Nonempty(Seq(Letters))
               /\ \A i \in 1..n - 1 :
                     f[i] = IF path[i].link # 0 THEN Append(f[i - 1], <<Shown(path[i + 1].label)>>)
                            ELSE Append(Front(f[i - 1]),
                                        AtBreak(class, Last(f[i - 1]), path[i + 1].label))
  BY <1>1, LinksDefined
<1>. DEFINE I == {i \in 0..n - 1 :
                    /\ Len(f[i]) = Len(g[i])
                    /\ \A t \in 1..Len(g[i]) : Named(path, class, f[i][t], g[i][t])}
<1>. HIDE DEF n
<1>4. 0 \in I
  <2>1. f[0][1] = <<Shown(path[1].label)>> /\ g[0][1] = <<1>> /\ Len(f[0]) = 1 /\ Len(g[0]) = 1
    BY <1>2, <1>3
  <2>2. Names(path, <<1>>) = <<Shown(path[1].label)>>
    <3>1. <<1>> \in Nonempty(Nat)
      BY DEF Nonempty
    <3>. QED  BY <3>1, NamesGrow
  <2>3. \A t \in 1..Len(g[0]) : Named(path, class, f[0][t], g[0][t])
    <3>1. \A t \in 1..Len(g[0]) : t = 1
      BY <2>1
    <3>. QED  BY <3>1, <2>1, <2>2 DEF Named
  <2>4. 0 \in 0..n - 1
    BY <1>1
  <2>. QED  BY <2>1, <2>3, <2>4
<1>5. ASSUME NEW i \in 1..n - 1, i - 1 \in I PROVE i \in I
  <2>. DEFINE a == f[i - 1]
              b == g[i - 1]
              m == Len(b)
  <2>1. /\ i - 1 \in 0..n - 1 /\ i \in 0..n - 1 /\ i + 1 \in Nat /\ i + 1 \in 1..n
    BY <1>1
  <2>2. /\ a \in Nonempty(Seq(Letters)) /\ b \in Nonempty(Nonempty(Nat))
        /\ Len(a) = m /\ \A t \in 1..m : Named(path, class, a[t], b[t])
    BY <2>1, <1>2, <1>3, <1>5
  <2>3. m \in Nat /\ m # 0
    <3>. HIDE DEF b
    <3>. QED  BY <2>2 DEF Nonempty
  <2>. DEFINE x == IF path[i].link # 0 THEN <<Shown(path[i + 1].label)>>
                   ELSE AtBreak(class, Last(a), path[i + 1].label)
              y == IF path[i].link # 0 THEN <<i + 1>> ELSE Append(Last(b), i + 1)
  <2>4. x \in Seq(Letters) /\ y \in Nonempty(Nat)
    <3>. HIDE DEF a, b
    <3>1. Shown(path[i + 1].label) \in Letters /\ path[i + 1].label \in {"GAMMA", "X", "Y", "Z"}
      BY <2>1, PointsOf DEF n
    <3>2. Last(a) \in Seq(Letters) /\ Last(b) \in Nonempty(Nat)
      <4>1. \A S : \A s \in Nonempty(S) : Last(s) \in S
        BY LastOf
      <4>. QED  BY <4>1, <2>2
    <3>3. <<Shown(path[i + 1].label)>> \in Seq(Letters) /\ <<i + 1>> \in Nonempty(Nat)
      BY <3>1, <2>1 DEF Nonempty
    <3>4. AtBreak(class, Last(a), path[i + 1].label) \in Seq(Letters)
      BY <3>1, <3>2, NamesAtBreak
    <3>5. Append(Last(b), i + 1) \in Nonempty(Nat)
      BY <3>2, <2>1, OneMore
    <3>. QED  BY <3>3, <3>4, <3>5
  <2>5. CASE path[i].link # 0
    <3>1. f[i] = Append(a, x) /\ g[i] = Append(b, y)
      BY <2>5, <1>2, <1>3
    <3>2. Named(path, class, x, y)
      <4>1. y = <<i + 1>> /\ x = <<Shown(path[i + 1].label)>>
        BY <2>5
      <4>2. Names(path, <<i + 1>>) = <<Shown(path[i + 1].label)>>
        <5>1. <<1>> \in Nonempty(Nat)
          BY DEF Nonempty
        <5>. QED  BY <5>1, <2>1, NamesGrow
      <4>. QED  BY <4>1, <4>2 DEF Named
    <3>. HIDE DEF a, b, x, y
    <3>3. /\ Len(f[i]) = m + 1 /\ f[i][m + 1] = x /\ \A t \in 1..m : f[i][t] = a[t]
      BY <3>1, <2>2, <2>4, OneMore
    <3>4. /\ Len(g[i]) = m + 1 /\ g[i][m + 1] = y /\ \A t \in 1..m : g[i][t] = b[t]
      BY <3>1, <2>2, <2>4, OneMore
    <3>. HIDE DEF m
    <3>5. \A t \in 1..m + 1 : Named(path, class, f[i][t], g[i][t])
      <4>1. \A t \in 1..m + 1 : t \in 1..m \/ t = m + 1
        BY <2>3
      <4>. QED  BY <4>1, <2>2, <3>2, <3>3, <3>4
    <3>. QED  BY <3>3, <3>4, <3>5, <2>1
  <2>6. CASE path[i].link = 0
    <3>1. f[i] = Append(Front(a), x) /\ g[i] = Append(Front(b), y)
      BY <2>6, <1>2, <1>3
    <3>2. Last(a) = a[m] /\ Last(b) = b[m] /\ Last(b) \in Nonempty(Nat)
      <4>. HIDE DEF a, b
      <4>1. \A S : \A s \in Nonempty(S) : Last(s) \in S /\ Last(s) = s[Len(s)]
        BY LastOf
      <4>. QED  BY <4>1, <2>2
    <3>3. Named(path, class, x, y)
      <4>1. Named(path, class, Last(a), Last(b))
        BY <3>2, <2>2, <2>3
      <4>. HIDE DEF a, b
      <4>2. x = AtBreak(class, Last(a), path[i + 1].label) /\ y = Append(Last(b), i + 1)
        BY <2>6
      <4>. QED  BY <4>1, <4>2, <3>2, <2>1, NamedAtBreak
    <3>. HIDE DEF a, b, x, y
    <3>4. /\ Len(f[i]) = m /\ f[i][m] = x /\ \A t \in 1..m - 1 : f[i][t] = a[t]
      <4>. DEFINE S == Seq(Letters)
      <4>1. a \in Nonempty(S) /\ x \in S /\ Len(a) = m
        BY <2>2, <2>4
      <4>. HIDE DEF S, m
      <4>2. \A t : t = Append(Front(a), x) =>
               /\ Len(t) = Len(a) /\ t[Len(a)] = x
               /\ \A r \in 1..Len(a) - 1 : t[r] = a[r]
        BY <4>1, OtherLastIs
      <4>. QED  BY <3>1, <4>1, <4>2
    <3>5. /\ Len(g[i]) = m /\ g[i][m] = y /\ \A t \in 1..m - 1 : g[i][t] = b[t]
      <4>. DEFINE S == Nonempty(Nat)
      <4>1. b \in Nonempty(S) /\ y \in S /\ Len(b) = m
        BY <2>2, <2>4
      <4>. HIDE DEF S, m
      <4>2. \A t : t = Append(Front(b), y) =>
               /\ Len(t) = Len(b) /\ t[Len(b)] = y
               /\ \A r \in 1..Len(b) - 1 : t[r] = b[r]
        BY <4>1, OtherLastIs
      <4>. QED  BY <3>1, <4>1, <4>2
    <3>. HIDE DEF m
    <3>6. \A t \in 1..m : Named(path, class, f[i][t], g[i][t])
      <4>1. \A t \in 1..m : t \in 1..m - 1 \/ t = m
        BY <2>3
      <4>. QED  BY <4>1, <2>2, <3>3, <3>4, <3>5
    <3>. QED  BY <3>4, <3>5, <3>6, <2>1
  <2>. QED  BY <2>5, <2>6
<1>. HIDE DEF I
<1>6. \A i \in 0..n - 1 : i \in I
  <2>. DEFINE k == n - 1
  <2>1. k \in Nat
    BY <1>1
  <2>2. \A i \in 1..k : i - 1 \in I => i \in I
    BY <1>5
  <2>. HIDE DEF k
  <2>3. \A i \in 0..k : i \in I
    BY <2>1, <2>2, <1>4, InductionUpTo
  <2>. QED  BY <2>3 DEF k
<1>7. n - 1 \in 0..n - 1
  BY <1>1
<1>8. /\ Len(f[n - 1]) = Len(g[n - 1])
      /\ \A t \in 1..Len(g[n - 1]) : Named(path, class, f[n - 1][t], g[n - 1][t])
  BY <1>6, <1>7 DEF I
<1>9. DOMAIN f[n - 1] = 1..Len(f[n - 1]) /\ DOMAIN g[n - 1] = 1..Len(g[n - 1])
  <2>1. \A S : \A s \in Nonempty(S) : DOMAIN s = 1..Len(s)
    BY LastOf
  <2>2. f[n - 1] \in Nonempty(Seq(Letters)) /\ g[n - 1] \in Nonempty(Nonempty(Nat))
    BY <1>2, <1>3, <1>7
  <2>. QED  BY <2>1, <2>2
<1>. QED  BY <1>2, <1>3, <1>8, <1>9

-----------------------------------------------------------------------------
(* The sets of CP2K, and the segments of band.yaml: the joined segments of *)
(* the path in their order.                                                *)
LEMMA NumbersKept ==
  ASSUME NEW s \in Seq(Nat), \A i \in 1..Len(s) : s[i] = i, NEW T
  PROVE  \E g : /\ g[0] = <<>> /\ Only(s, T) = g[Len(s)]
                /\ \A i \in 0..Len(s) : g[i] \in Seq(Nat)
                /\ \A i \in 1..Len(s) : g[i] = IF i \in T THEN Append(g[i - 1], i) ELSE g[i - 1]
<1>. DEFINE n == Len(s)
            V == Seq(Nat)
            step == [i \in 1..Len(s) |-> [k \in V |-> IF s[i] \in T THEN Append(k, s[i]) ELSE k]]
<1>1. PICK g : Iterates(g, Len(s), V, <<>>, step) /\ Only(s, T) = g[Len(s)]
  BY OnlySteps
<1>2. g \in [0..n -> V] /\ g[0] = <<>> /\ \A i \in 1..n : g[i] = step[i][g[i - 1]]
  <2>. HIDE DEF step, V
  <2>. QED  BY <1>1 DEF Iterates
<1>3. \A i \in 0..n : g[i] \in V
  <2>. HIDE DEF V
  <2>. QED  BY <1>2
<1>4. ASSUME NEW i \in 1..n
      PROVE  g[i] = IF i \in T THEN Append(g[i - 1], i) ELSE g[i - 1]
  <2>1. g[i - 1] \in V /\ g[i] = step[i][g[i - 1]] /\ i \in 1..Len(s) /\ s[i] = i
    <3>. HIDE DEF step, V
    <3>. QED  BY <1>2, <1>3
  <2>. HIDE DEF V
  <2>. QED  BY <2>1
<1>. HIDE DEF step
<1>. QED  BY <1>1, <1>2, <1>3, <1>4

(* c[i] of the first i segments are joined; the c[i]-th joined one is i.   *)
LEMMA JoinedAre ==
  ASSUME NEW path \in Seq(Points), NEW n \in Nat, n # 0, Len(path) = n
  PROVE  \E c : /\ c[0] = 0 /\ Joined(path) \in Seq(Nat) /\ Len(Joined(path)) = c[n - 1]
                /\ \A i \in 0..n - 1 : c[i] \in Nat
                /\ \A i \in 1..n - 1 :
                      /\ c[i] = IF path[i].link # 0 THEN c[i - 1] + 1 ELSE c[i - 1]
                      /\ path[i].link # 0 => c[i] \in 1..c[n - 1] /\ Joined(path)[c[i]] = i
<1>. DEFINE k == n - 1
            s == [i \in Segments(path) |-> i]
            T == {i \in Segments(path) : path[i].link # 0}
<1>1. /\ k \in Nat /\ s \in Seq(Nat) /\ Len(s) = k /\ \A i \in 1..k : s[i] = i
      /\ \A i \in 1..k : i \in T <=> path[i].link # 0
  BY DEF Segments
<1>2. Joined(path) = Only(s, T)
  BY DEF Joined
<1>. HIDE DEF k, s, T
<1>3. s \in Seq(Nat) /\ \A i \in 1..Len(s) : s[i] = i
  BY <1>1
<1>4. PICK g : /\ g[0] = <<>> /\ Only(s, T) = g[Len(s)]
               /\ \A i \in 0..Len(s) : g[i] \in Seq(Nat)
               /\ \A i \in 1..Len(s) : g[i] = IF i \in T THEN Append(g[i - 1], i) ELSE g[i - 1]
  <2>1. \A U : \E g : /\ g[0] = <<>> /\ Only(s, U) = g[Len(s)]
                      /\ \A i \in 0..Len(s) : g[i] \in Seq(Nat)
                      /\ \A i \in 1..Len(s) : g[i] = IF i \in U THEN Append(g[i - 1], i) ELSE g[i - 1]
    BY <1>3, NumbersKept, Zenon
  <2>. QED  BY <2>1
<1>5. /\ g[0] = <<>> /\ Only(s, T) = g[k]
      /\ \A i \in 0..k : g[i] \in Seq(Nat)
      /\ \A i \in 1..k : g[i] = IF i \in T THEN Append(g[i - 1], i) ELSE g[i - 1]
  BY <1>1, <1>4
<1>. DEFINE c == [i \in 0..k |-> Len(g[i])]
            I == {i \in 0..k : \A j \in 1..i : j \in T => c[j] \in 1..c[i] /\ g[i][c[j]] = j}
<1>6. \A i \in 0..k : c[i] = Len(g[i]) /\ c[i] \in Nat
  BY <1>5
<1>. HIDE DEF c
<1>7. ASSUME NEW i \in 1..k
      PROVE  /\ i - 1 \in 0..k /\ i \in 0..k
             /\ c[i] = IF i \in T THEN c[i - 1] + 1 ELSE c[i - 1]
             /\ \A q \in 1..c[i - 1] : g[i][q] = g[i - 1][q]
             /\ i \in T => g[i][c[i]] = i
  <2>1. i - 1 \in 0..k /\ i \in 0..k /\ i \in Nat
    BY <1>1
  <2>2. g[i - 1] \in Seq(Nat) /\ Len(g[i - 1]) = c[i - 1] /\ c[i] = Len(g[i])
    BY <2>1, <1>5, <1>6
  <2>3. g[i] = IF i \in T THEN Append(g[i - 1], i) ELSE g[i - 1]
    BY <1>5
  <2>4. CASE i \in T
    <3>1. g[i] = Append(g[i - 1], i)
      BY <2>3, <2>4
    <3>. QED  BY <3>1, <2>1, <2>2, <2>4
  <2>5. CASE i \notin T
    BY <2>1, <2>2, <2>3, <2>5
  <2>. QED  BY <2>4, <2>5
<1>8. 0 \in I
  BY <1>1
<1>9. ASSUME NEW i \in 1..k, i - 1 \in I PROVE i \in I
  <2>1. \A j \in 1..i - 1 : j \in T => c[j] \in 1..c[i - 1] /\ g[i - 1][c[j]] = j
    BY <1>9
  <2>2. c[i - 1] \in Nat /\ c[i] \in Nat /\ c[i - 1] <= c[i] /\ (i \in T => c[i] = c[i - 1] + 1)
    BY <1>6, <1>7
  <2>3. ASSUME NEW j \in 1..i, j \in T PROVE c[j] \in 1..c[i] /\ g[i][c[j]] = j
    <3>1. CASE j = i
      BY <3>1, <2>2, <2>3, <1>7
    <3>2. CASE j # i
      <4>1. c[j] \in 1..c[i - 1] /\ g[i - 1][c[j]] = j
        BY <3>2, <2>1, <2>3
      <4>. QED  BY <4>1, <2>2, <1>7
    <3>. QED  BY <3>1, <3>2
  <2>. QED  BY <2>3, <1>7
<1>. HIDE DEF I
<1>10. \A i \in 0..k : i \in I
  BY <1>1, <1>8, <1>9, InductionUpTo
<1>11. \A j \in 1..k : j \in T => c[j] \in 1..c[k] /\ g[k][c[j]] = j
  BY <1>1, <1>10 DEF I
<1>12. c[0] = 0 /\ Len(Joined(path)) = c[k] /\ Joined(path) = g[k] /\ g[k] \in Seq(Nat)
  <2>1. 0 \in 0..k /\ k \in 0..k
    BY <1>1
  <2>. QED  BY <2>1, <1>2, <1>5, <1>6
<1>13. \E d : /\ d[0] = 0 /\ Joined(path) \in Seq(Nat) /\ Len(Joined(path)) = d[k]
              /\ \A i \in 0..k : d[i] \in Nat
              /\ \A i \in 1..k :
                    /\ d[i] = IF path[i].link # 0 THEN d[i - 1] + 1 ELSE d[i - 1]
                    /\ path[i].link # 0 => d[i] \in 1..d[k] /\ Joined(path)[d[i]] = i
  <2>1. \A i \in 1..k : /\ c[i] = IF path[i].link # 0 THEN c[i - 1] + 1 ELSE c[i - 1]
                        /\ path[i].link # 0 => c[i] \in 1..c[k] /\ Joined(path)[c[i]] = i
    BY <1>1, <1>7, <1>11, <1>12
  <2>. WITNESS c
  <2>. QED  BY <2>1, <1>6, <1>12
<1>. QED  BY <1>13 DEF k

Segment == [size : Nat, from : {"GAMMA", "X", "Y", "Z"}, to : {"GAMMA", "X", "Y", "Z"}]

(* c[i] of the first i segments make sets; the c[i]-th set is segment i.   *)
LEMMA SetsAre ==
  ASSUME NEW path \in Seq(Points), NEW n \in Nat, n # 0, Len(path) = n
  PROVE  \E c : /\ c[0] = 0 /\ Sets(path) \in Seq(Segment)
                /\ Len(Sets(path)) = c[n - 1]
                /\ \A i \in 0..n - 1 : c[i] \in Nat
                /\ \A i \in 1..n - 1 :
                      /\ c[i] = IF path[i].link # 0 THEN c[i - 1] + 1 ELSE c[i - 1]
                      /\ path[i].link # 0 => /\ c[i] \in 1..c[n - 1]
                                             /\ Sets(path)[c[i]].from = path[i].label
                                             /\ Sets(path)[c[i]].to = path[i + 1].label
<1>. DEFINE J == Joined(path)
<1>1. PICK c : /\ c[0] = 0 /\ J \in Seq(Nat) /\ Len(J) = c[n - 1]
               /\ \A i \in 0..n - 1 : c[i] \in Nat
               /\ \A i \in 1..n - 1 :
                     /\ c[i] = IF path[i].link # 0 THEN c[i - 1] + 1 ELSE c[i - 1]
                     /\ path[i].link # 0 => c[i] \in 1..c[n - 1] /\ J[c[i]] = i
  BY JoinedAre
<1>2. \A s \in 1..Len(J) : J[s] \in 1..n - 1
  <2>1. [i \in Segments(path) |-> i] \in Seq(1..n - 1)
    BY DEF Segments
  <2>2. J \in Seq(1..n - 1)
    BY <2>1, OnlyTyped DEF Joined
  <2>. HIDE DEF J
  <2>. QED  BY <2>2
<1>3. Sets(path) = [s \in 1..Len(J) |-> [size |-> path[J[s]].link, from |-> path[J[s]].label,
                                          to |-> path[J[s] + 1].label]]
  BY <1>1 DEF Sets
<1>. HIDE DEF J
<1>4. ASSUME NEW s \in 1..Len(J)
      PROVE  [size |-> path[J[s]].link, from |-> path[J[s]].label, to |-> path[J[s] + 1].label]
             \in Segment
  <2>1. J[s] \in 1..Len(path) /\ J[s] + 1 \in 1..Len(path)
    BY <1>2
  <2>2. path[J[s]].link \in Nat /\ path[J[s]].label \in {"GAMMA", "X", "Y", "Z"}
        /\ path[J[s] + 1].label \in {"GAMMA", "X", "Y", "Z"}
    BY <2>1, PointsOf
  <2>. QED  BY <2>2 DEF Segment
<1>5. /\ Sets(path) \in Seq(Segment)
      /\ Len(Sets(path)) = Len(J)
  <2>. DEFINE r(s) == [size |-> path[J[s]].link, from |-> path[J[s]].label, to |-> path[J[s] + 1].label]
  <2>1. \A s \in 1..Len(J) : r(s) \in Segment
    BY <1>4
  <2>2. Sets(path) = [s \in 1..Len(J) |-> r(s)] /\ Len(J) \in Nat
    BY <1>1, <1>3
  <2>. HIDE DEF r
  <2>. QED  BY <2>1, <2>2
<1>6. ASSUME NEW i \in 1..n - 1, path[i].link # 0
      PROVE  /\ c[i] \in 1..c[n - 1] /\ Sets(path)[c[i]].from = path[i].label
             /\ Sets(path)[c[i]].to = path[i + 1].label
  <2>1. c[i] \in 1..Len(J) /\ J[c[i]] = i
    BY <1>1, <1>6
  <2>2. Sets(path)[c[i]] = [size |-> path[i].link, from |-> path[i].label, to |-> path[i + 1].label]
    BY <2>1, <1>3
  <2>. QED  BY <2>1, <2>2, <1>1
<1>. WITNESS c
<1>. QED  BY <1>1, <1>5, <1>6

(* A path whose points are each joined to another. *)
Connected(path, n) ==
    /\ n > 1 /\ path[1].link # 0 /\ path[n - 1].link # 0
    /\ \A i \in 2..n - 1 : path[i].link # 0 \/ path[i - 1].link # 0
    /\ \A i \in 1..n - 1 : path[i].label # path[i + 1].label

(* The sets of its joined segments; c counts these. *)
SetsAlong(path, n, sets, c) ==
    /\ c[0] = 0
    /\ \A i \in 0..n - 1 : c[i] \in Nat
    /\ \A i \in 1..n - 1 : /\ c[i] = IF path[i].link # 0 THEN c[i - 1] + 1 ELSE c[i - 1]
                           /\ path[i].link # 0 => /\ c[i] \in 1..c[n - 1]
                                                  /\ sets[c[i]].from = path[i].label
                                                  /\ sets[c[i]].to = path[i + 1].label

(* SetsAre, as the other lemmas need it.                                   *)
LEMMA SetsAreAlong ==
  ASSUME NEW path \in Seq(Points), NEW n \in Nat, n # 0, Len(path) = n
  PROVE  \E c : /\ SetsAlong(path, n, Sets(path), c) /\ Sets(path) \in Seq(Segment)
                /\ Len(Sets(path)) = c[n - 1]
<1>1. PICK c : /\ c[0] = 0 /\ Sets(path) \in Seq(Segment)
               /\ Len(Sets(path)) = c[n - 1]
               /\ \A i \in 0..n - 1 : c[i] \in Nat
               /\ \A i \in 1..n - 1 :
                     /\ c[i] = IF path[i].link # 0 THEN c[i - 1] + 1 ELSE c[i - 1]
                     /\ path[i].link # 0 => /\ c[i] \in 1..c[n - 1]
                                            /\ Sets(path)[c[i]].from = path[i].label
                                            /\ Sets(path)[c[i]].to = path[i + 1].label
  BY SetsAre, ZenonT(40)
<1>2. SetsAlong(path, n, Sets(path), c)
  BY <1>1, ZenonT(40) DEF SetsAlong
<1>. QED  BY <1>1, <1>2, ZenonT(40)

(* The labels after each of m sets; a break of the path has a label. *)
LabelsAlong(m, sets, labels, breaks) ==
    /\ \A s \in 0..m - 1 : labels[s] \in Nonempty(Seq(Letters))
    /\ \A s \in 1..m - 1 : breaks[s] \in Seq(Letters)
    /\ \A s \in 1..m - 1 :
          labels[s] = Append(IF sets[s + 1].from = sets[s].to THEN labels[s - 1]
                             ELSE Append(Front(labels[s - 1]), breaks[s]),
                             <<Shown(sets[s + 1].to)>>)

(* One label for each stop, and the right one. *)
Agree(right, a, b) ==
    /\ a \in Nonempty(Seq(Letters)) /\ b \in Nonempty(Nonempty(Nat)) /\ Len(a) = Len(b)
    /\ \A t \in 1..Len(b) : <<t, a[t], b[t]>> \in right

(* A label and a stop that belong together are added to both.              *)
LEMMA AgreeLonger ==
  ASSUME NEW Right, NEW a, NEW b, NEW x \in Seq(Letters), NEW y \in Nonempty(Nat),
         Agree(Right, a, b),
         \A t \in Nat : <<t, x, y>> \in Right
  PROVE  Agree(Right, Append(a, x), Append(b, y))
<1>. DEFINE N == Nonempty(Nat)
            W == Seq(Letters)
            p == Append(a, x)
            q == Append(b, y)
            m == Len(b)
<1>1. x \in W /\ y \in N /\ a \in Nonempty(W) /\ b \in Nonempty(N) /\ Len(a) = m
      /\ \A t \in 1..m : <<t, a[t], b[t]>> \in Right
  BY DEF Agree
<1>. HIDE DEF N, W
<1>2. p \in Nonempty(W) /\ q \in Nonempty(N) /\ m \in Nat
  BY <1>1, OneMore
<1>3. \A r : r = p => Len(r) = Len(a) + 1 /\ r[Len(a) + 1] = x /\ \A t \in 1..Len(a) : r[t] = a[t]
  BY <1>1, OneMoreIs
<1>4. \A r : r = q => Len(r) = Len(b) + 1 /\ r[Len(b) + 1] = y /\ \A t \in 1..Len(b) : r[t] = b[t]
  BY <1>1, OneMoreIs
<1>. HIDE DEF p, q
<1>5. Len(p) = m + 1 /\ p[m + 1] = x /\ \A t \in 1..m : p[t] = a[t]
  BY <1>1, <1>3
<1>6. Len(q) = m + 1 /\ q[m + 1] = y /\ \A t \in 1..m : q[t] = b[t]
  BY <1>4
<1>. HIDE DEF m
<1>7. ASSUME NEW t \in 1..m + 1 PROVE <<t, p[t], q[t]>> \in Right
  <2>1. CASE t = m + 1
    <3>1. t \in Nat /\ p[t] = x /\ q[t] = y
      BY <2>1, <1>5, <1>6
    <3>. QED  BY <3>1
  <2>2. CASE t # m + 1
    <3>1. t \in 1..m
      BY <2>2, <1>2
    <3>2. p[t] = a[t] /\ q[t] = b[t]
      BY <3>1, <1>5, <1>6
    <3>. QED  BY <3>1, <3>2, <1>1
  <2>. QED  BY <2>1, <2>2
<1>8. Agree(Right, p, q)
  BY <1>2, <1>5, <1>6, <1>7 DEF Agree, N, W
<1>. QED  BY <1>8 DEF p, q

(* The last label and the last stop are both replaced.                     *)
LEMMA AgreeOther ==
  ASSUME NEW Right, NEW a, NEW b, NEW x \in Seq(Letters), NEW y \in Nonempty(Nat),
         Agree(Right, a, b),
         \A t \in Nat : <<t, x, y>> \in Right
  PROVE  Agree(Right, Append(Front(a), x), Append(Front(b), y))
<1>. DEFINE N == Nonempty(Nat)
            W == Seq(Letters)
            p == Append(Front(a), x)
            q == Append(Front(b), y)
            m == Len(b)
<1>1. x \in W /\ y \in N /\ a \in Nonempty(W) /\ b \in Nonempty(N) /\ Len(a) = m
      /\ \A t \in 1..m : <<t, a[t], b[t]>> \in Right
  BY DEF Agree
<1>. HIDE DEF N, W
<1>2. p \in Nonempty(W) /\ q \in Nonempty(N) /\ m \in Nat
  BY <1>1, OtherLast
<1>3. \A r : r = p => Len(r) = Len(a) /\ r[Len(a)] = x /\ \A t \in 1..Len(a) - 1 : r[t] = a[t]
  <2>1. a \in Nonempty(W) /\ x \in W
    BY <1>1
  <2>. QED  BY <2>1, OtherLastIs, SMTT(40)
<1>4. \A r : r = q => Len(r) = Len(b) /\ r[Len(b)] = y /\ \A t \in 1..Len(b) - 1 : r[t] = b[t]
  <2>1. b \in Nonempty(N) /\ y \in N
    BY <1>1
  <2>. QED  BY <2>1, OtherLastIs
<1>. HIDE DEF p, q
<1>5. Len(p) = m /\ p[m] = x /\ \A t \in 1..m - 1 : p[t] = a[t]
  BY <1>1, <1>3
<1>6. Len(q) = m /\ q[m] = y /\ \A t \in 1..m - 1 : q[t] = b[t]
  BY <1>4
<1>. HIDE DEF m
<1>7. ASSUME NEW t \in 1..m PROVE <<t, p[t], q[t]>> \in Right
  <2>1. CASE t = m
    <3>1. t \in Nat /\ p[t] = x /\ q[t] = y
      BY <2>1, <1>5, <1>6
    <3>. QED  BY <3>1
  <2>2. CASE t # m
    <3>1. t \in 1..m - 1
      BY <2>2, <1>2
    <3>2. p[t] = a[t] /\ q[t] = b[t]
      BY <3>1, <1>5, <1>6
    <3>. QED  BY <3>1, <3>2, <1>1
  <2>. QED  BY <2>1, <2>2
<1>8. Agree(Right, p, q)
  BY <1>2, <1>5, <1>6, <1>7 DEF Agree, N, W
<1>. QED  BY <1>8 DEF p, q

(* A sequence of two elements.                                             *)
LEMMA AppendToOne ==
  ASSUME NEW S, NEW u \in S, NEW v \in S
  PROVE  Append(<<u>>, v) = <<u, v>>
<1>1. <<u>> \in Seq(S) /\ Len(<<u>>) = 1 /\ <<u>>[1] = u
  OBVIOUS
<1>2. Append(<<u>>, v) = [i \in 1..2 |-> IF i = 2 THEN v ELSE u]
  BY <1>1
<1>3. <<u, v>> = [i \in 1..2 |-> IF i = 2 THEN v ELSE u]
  OBVIOUS
<1>. QED  BY <1>2, <1>3

(* The labels made set by set are one for each stop.  Right has the        *)
(* triples of a position, a label and a stop that belong together: the end *)
(* of a set and a stop of one point, a break and a stop of two.            *)
LEMMA SetsName ==
  ASSUME NEW path \in Seq(Points), NEW n \in Nat, Len(path) = n, Connected(path, n),
         NEW sets, NEW c, SetsAlong(path, n, sets, c),
         NEW labels, NEW breaks, LabelsAlong(c[n - 1], sets, labels, breaks),
         NEW Right, Agree(Right, labels[0], << << 1 >>, << 2 >> >>),
         \A i \in 1..n - 1 : \A t \in Nat : <<t, <<Shown(path[i + 1].label)>>, <<i + 1>>>> \in Right,
         \A i \in 2..n - 2 : path[i].link = 0 =>
             \A t \in Nat : <<t, breaks[c[i]], <<i, i + 1>>>> \in Right
  PROVE  Agree(Right, labels[c[n - 1] - 1], Stops(path))
<1>. DEFINE N == Nonempty(Nat)
            W == Seq(Letters)
<1>1. PICK g : /\ g[0] = <<<<1>>>> /\ Stops(path) = g[n - 1]
               /\ \A i \in 0..n - 1 : g[i] \in Nonempty(N)
               /\ \A i \in 1..n - 1 : g[i] = IF path[i].link # 0 THEN Append(g[i - 1], <<i + 1>>)
                                             ELSE Append(Front(g[i - 1]), Append(Last(g[i - 1]), i + 1))
  <2>1. n # 0
    BY DEF Connected
  <2>. QED  BY <2>1, StopsDefined
<1>2. n - 1 \in Nat /\ n - 1 \in 1..n - 1 /\ 1 \in 1..n - 1 /\ n - 1 \in 0..n - 1
  BY DEF Connected
<1>3. \A i \in 1..n - 1 : <<Shown(path[i + 1].label)>> \in W /\ <<i + 1>> \in N
  <2>1. \A i \in 1..n - 1 : Shown(path[i + 1].label) \in Letters
    <3>1. \A i \in 1..n - 1 : i + 1 \in 1..Len(path)
      OBVIOUS
    <3>. QED  BY <3>1, PointsOf
  <2>2. \A l \in Letters : <<l>> \in W
    OBVIOUS
  <2>3. \A i \in 1..n - 1 : <<i + 1>> \in N
    BY DEF Nonempty
  <2>. HIDE DEF W, N
  <2>. QED  BY <2>1, <2>2, <2>3
<1>. HIDE DEF N, W
<1>4. ASSUME NEW i \in 1..n - 1, path[i].link # 0
      PROVE  Last(g[i]) = <<i + 1>> /\ g[i] = Append(g[i - 1], <<i + 1>>)
  <2>1. g[i] = Append(g[i - 1], <<i + 1>>)
    BY <1>1, <1>4
  <2>2. g[i - 1] \in Nonempty(N) /\ g[i] \in Nonempty(N) /\ <<i + 1>> \in N
    <3>1. i - 1 \in 0..n - 1 /\ i \in 0..n - 1
      OBVIOUS
    <3>. QED  BY <3>1, <1>1, <1>3
  <2>3. \A t : t = Append(g[i - 1], <<i + 1>>) =>
                  Len(t) = Len(g[i - 1]) + 1 /\ t[Len(g[i - 1]) + 1] = <<i + 1>>
    BY <2>2, OneMoreIs
  <2>4. Last(g[i]) = g[i][Len(g[i])]
    BY <2>2, LastOf
  <2>. QED  BY <2>1, <2>3, <2>4
<1>5. g[1] = <<<<1>>, <<2>>>>
  <2>1. path[1].link # 0
    BY DEF Connected
  <2>2. g[1] = Append(g[0], <<2>>)
    BY <2>1, <1>2, <1>4
  <2>3. Append(<<<<1>>>>, <<2>>) = <<<<1>>, <<2>>>>
    <3>1. <<1>> \in Seq(Nat) /\ <<2>> \in Seq(Nat)
      OBVIOUS
    <3>. QED  BY <3>1, AppendToOne
  <2>. QED  BY <2>2, <2>3, <1>1
<1>. DEFINE I == {i \in 0..n - 1 :
                     \A j \in 1..i : path[j].link # 0 => Agree(Right, labels[c[j] - 1], g[j])}
<1>6. ASSUME NEW i \in 1..n - 1, i - 1 \in I, path[i].link # 0
      PROVE  Agree(Right, labels[c[i] - 1], g[i])
  <2>. DEFINE x == <<Shown(path[i + 1].label)>>
              y == <<i + 1>>
  <2>1. x \in W /\ y \in N /\ (\A t \in Nat : <<t, x, y>> \in Right) /\ g[i] = Append(g[i - 1], y)
    BY <1>3, <1>4, <1>6
  <2>2. \A j \in 1..i - 1 : path[j].link # 0 => Agree(Right, labels[c[j] - 1], g[j])
    BY <1>6
  <2>3. /\ c[i] \in 1..c[n - 1] /\ sets[c[i]].from = path[i].label /\ sets[c[i]].to = path[i + 1].label
        /\ c[i] = c[i - 1] + 1 /\ c[i - 1] \in Nat /\ c[n - 1] \in Nat
    <3>1. i - 1 \in 0..n - 1
      OBVIOUS
    <3>. QED  BY <3>1, <1>2, <1>6 DEF SetsAlong
  <2>. HIDE DEF I
  <2>4. CASE i = 1
    <3>1. c[i] - 1 = 0
      BY <2>3, <2>4 DEF SetsAlong
    <3>. QED  BY <3>1, <2>4, <1>5
  <2>5. CASE i # 1 /\ path[i - 1].link # 0
    <3>. DEFINE s == c[i - 1]
                j == i - 1
    <3>1. j \in 1..n - 1 /\ j \in 1..i - 1 /\ j + 1 = i /\ path[j].link # 0 /\ s = c[j] /\ j = i - 1
      BY <2>5
    <3>. HIDE DEF s, j, x, y
    <3>2. s \in 1..c[n - 1] /\ sets[s].to = path[i].label
      BY <3>1 DEF SetsAlong
    <3>3. s \in 1..c[n - 1] - 1 /\ s + 1 = c[i] /\ s = c[i] - 1
      BY <3>2, <2>3 DEF s
    <3>4. sets[s + 1].from = sets[s].to /\ sets[s + 1].to = path[i + 1].label
      BY <3>2, <3>3, <2>3
    <3>5. labels[s] = Append(labels[s - 1], x)
      BY <3>3, <3>4 DEF LabelsAlong, x
    <3>6. Agree(Right, labels[s - 1], g[j])
      BY <3>1, <2>2
    <3>7. Agree(Right, Append(labels[s - 1], x), Append(g[j], y))
      BY <3>6, <2>1, AgreeLonger DEF W, N
    <3>. QED  BY <3>1, <3>3, <3>5, <3>7, <2>1
  <2>6. CASE i # 1 /\ path[i - 1].link = 0
    <3>. DEFINE s == c[i - 1]
                j == i - 1
                h == i - 2
    <3>1. /\ j \in 1..n - 1 /\ path[j].link = 0 /\ j + 1 = i /\ s = c[j] /\ j = i - 1 /\ j \in Nat
      BY <2>6
    <3>2. j # 1 /\ j # n - 1
      BY <3>1 DEF Connected
    <3>3. /\ j \in 2..n - 1 /\ j \in 2..n - 2 /\ h \in 1..n - 1 /\ h \in 1..i - 1 /\ h + 1 = j
          /\ j - 1 = h
      BY <3>1, <3>2
    <3>. HIDE DEF s, j, h, x, y
    <3>4. path[h].link # 0
      <4>1. path[j].link # 0 \/ path[j - 1].link # 0
        BY <3>3 DEF Connected
      <4>. QED  BY <4>1, <3>1, <3>3
    <3>5. s = c[h]
      <4>1. c[j] = c[j - 1]
        BY <3>1 DEF SetsAlong
      <4>. QED  BY <4>1, <3>1, <3>3
    <3>6. s \in 1..c[n - 1] /\ sets[s].to = path[j].label
      <4>1. c[h] \in 1..c[n - 1] /\ sets[c[h]].to = path[h + 1].label
        BY <3>3, <3>4 DEF SetsAlong
      <4>. QED  BY <4>1, <3>3, <3>5
    <3>7. s \in 1..c[n - 1] - 1 /\ s + 1 = c[i] /\ s = c[i] - 1
      BY <3>6, <2>3, SMTT(40) DEF s
    <3>8. sets[s + 1].from # sets[s].to /\ sets[s + 1].to = path[i + 1].label
      <4>1. path[j].label # path[i].label
        BY <3>1 DEF Connected
      <4>. QED  BY <4>1, <3>6, <3>7, <2>3
    <3>9. labels[s] = Append(Append(Front(labels[s - 1]), breaks[s]), x)
      BY <3>7, <3>8 DEF LabelsAlong, x
    <3>10. Agree(Right, labels[s - 1], g[h]) /\ Last(g[h]) = <<j>>
      BY <3>3, <3>4, <3>5, <2>2, <1>4
    <3>11. g[j] = Append(Front(g[h]), <<j, i>>)
      <4>1. g[j] = Append(Front(g[j - 1]), Append(Last(g[j - 1]), j + 1))
        BY <3>1, <1>1
      <4>2. Append(<<j>>, j + 1) = <<j, i>>
        <5>1. j \in Nat /\ i \in Nat /\ j + 1 = i
          BY <3>1
        <5>. QED  BY <5>1, AppendToOne
      <4>. QED  BY <4>1, <4>2, <3>10, <3>3
    <3>12. breaks[s] \in W /\ <<j, i>> \in N /\ \A t \in Nat : <<t, breaks[s], <<j, i>>>> \in Right
      <4>1. breaks[s] \in W
        BY <3>7 DEF W, LabelsAlong
      <4>2. <<j, i>> \in N
        BY <3>1 DEF N, Nonempty
      <4>3. \A t \in Nat : <<t, breaks[c[j]], <<j, j + 1>>>> \in Right
        BY <3>1, <3>3
      <4>. QED  BY <4>1, <4>2, <4>3, <3>1
    <3>13. Agree(Right, Append(Front(labels[s - 1]), breaks[s]), g[j])
      <4>1. Agree(Right, Append(Front(labels[s - 1]), breaks[s]), Append(Front(g[h]), <<j, i>>))
        BY <3>10, <3>12, AgreeOther DEF W, N
      <4>. QED  BY <4>1, <3>11
    <3>14. Agree(Right, Append(Append(Front(labels[s - 1]), breaks[s]), x), Append(g[j], y))
      BY <3>13, <2>1, AgreeLonger DEF W, N
    <3>. QED  BY <3>1, <3>7, <3>9, <3>14, <2>1
  <2>. QED  BY <2>4, <2>5, <2>6
<1>7. \A i \in 0..n - 1 : i \in I
  <2>. DEFINE k == n - 1
  <2>1. k \in Nat /\ 0 \in I
    BY <1>2
  <2>2. ASSUME NEW i \in 1..k, i - 1 \in I PROVE i \in I
    <3>1. \A j \in 1..i - 1 : path[j].link # 0 => Agree(Right, labels[c[j] - 1], g[j])
      BY <2>2
    <3>2. path[i].link # 0 => Agree(Right, labels[c[i] - 1], g[i])
      BY <2>2, <1>6
    <3>3. \A j \in 1..i : j \in 1..i - 1 \/ j = i
      OBVIOUS
    <3>. QED  BY <3>1, <3>2, <3>3
  <2>. HIDE DEF k, I
  <2>3. \A i \in 0..k : i \in I
    BY <2>1, <2>2, InductionUpTo
  <2>. QED  BY <2>3 DEF k
<1>8. path[n - 1].link # 0
  BY DEF Connected
<1>. QED  BY <1>1, <1>2, <1>7, <1>8

(* The groups of band.conf, one segment after the other.                   *)
LEMMA GroupsDefined ==
  ASSUME NEW path \in Seq(Points), NEW n \in Nat, n # 0, Len(path) = n
  PROVE  \E g : /\ g[0] = <<<<1>>>> /\ BandConf(path) = g[n - 1]
                /\ \A i \in 0..n - 1 : g[i] \in Nonempty(Nonempty(Nat))
                /\ \A i \in 1..n - 1 :
                      g[i] = IF path[i].link # 0 THEN Append(Front(g[i - 1]), Append(Last(g[i - 1]), i + 1))
                             ELSE Append(g[i - 1], <<i + 1>>)
<1>. DEFINE V == Nonempty(Nonempty(Nat))
            step == [i \in 1..n - 1 |-> [a \in V |->
                       (IF path[i].link # 0 THEN Append(Front(a), Append(Last(a), i + 1))
                        ELSE Append(a, <<i + 1>>))]]
<1>1. PICK g : Iterates(g, n - 1, V, <<<<1>>>>, step) /\ BandConf(path) = g[n - 1]
  BY GroupSteps
<1>2. /\ g \in [0..n - 1 -> V] /\ g[0] = <<<<1>>>>
      /\ \A i \in 1..n - 1 : g[i] = step[i][g[i - 1]]
  <2>. HIDE DEF step, V
  <2>. QED  BY <1>1 DEF Iterates
<1>3. \A i \in 0..n - 1 : g[i] \in V
  <2>. HIDE DEF V
  <2>. QED  BY <1>2
<1>4. ASSUME NEW i \in 1..n - 1
      PROVE  g[i] = IF path[i].link # 0 THEN Append(Front(g[i - 1]), Append(Last(g[i - 1]), i + 1))
                    ELSE Append(g[i - 1], <<i + 1>>)
  <2>1. g[i - 1] \in V /\ g[i] = step[i][g[i - 1]]
    <3>. HIDE DEF step, V
    <3>. QED  BY <1>2, <1>3
  <2>2. (i + 1) - 1 = i
    OBVIOUS
  <2>. HIDE DEF V
  <2>. QED  BY <2>1, <2>2
<1>. HIDE DEF step
<1>. QED  BY <1>1, <1>2, <1>3, <1>4

(* Phonopy computes bands only along paths whose points are all joined to  *)
(* another: the group of one that is not has one point.                    *)
LEMMA BandOfJoined ==
  ASSUME NEW path \in Seq(Points), NEW n \in Nat, n # 0, Len(path) = n, path[n].link = 0,
         TakesBand(BandConf(path))
  PROVE  \A i \in 1..n : ~ Lone(path, i)
<1>. DEFINE N == Nonempty(Nat)
<1>1. PICK g : /\ g[0] = <<<<1>>>> /\ BandConf(path) = g[n - 1]
               /\ \A i \in 0..n - 1 : g[i] \in Nonempty(N)
               /\ \A i \in 1..n - 1 :
                     g[i] = IF path[i].link # 0 THEN Append(Front(g[i - 1]), Append(Last(g[i - 1]), i + 1))
                            ELSE Append(g[i - 1], <<i + 1>>)
  BY GroupsDefined
<1>. DEFINE One(s, q) == Len(s[q]) = 1
            A(i) == i = 0 \/ path[i].link = 0 => One(g[i], Len(g[i]))
            B(i) == (\E j \in 1..i : Lone(path, j)) => \E q \in 1..Len(g[i]) - 1 : One(g[i], q)
            I == {i \in 0..n - 1 : A(i) /\ B(i)}
<1>2. 0 \in I
  <2>1. Len(g[0]) = 1 /\ g[0][1] = <<1>> /\ Len(<<1>>) = 1
    BY <1>1
  <2>2. A(0)
    BY <2>1
  <2>3. B(0)
    OBVIOUS
  <2>4. 0 \in 0..n - 1
    OBVIOUS
  <2>. HIDE DEF A, B
  <2>. QED  BY <2>2, <2>3, <2>4
<1>. HIDE DEF A, B, One
<1>3. ASSUME NEW i \in 1..n - 1, i - 1 \in I PROVE i \in I
  <2>1. /\ i - 1 \in 0..n - 1 /\ i \in 0..n - 1 /\ g[i - 1] \in Nonempty(N) /\ g[i] \in Nonempty(N)
        /\ A(i - 1) /\ B(i - 1)
    BY <1>1, <1>3
  <2>. DEFINE a == g[i - 1]
              b == g[i]
  <2>2. <<i + 1>> \in N /\ Len(<<i + 1>>) = 1
    BY DEF Nonempty
  <2>3. Len(a) \in Nat \ {0} /\ Len(b) \in Nat \ {0} /\ Last(a) \in N
    <3>. HIDE DEF a, b, N
    <3>1. a \in Nonempty(N) /\ b \in Nonempty(N)
      BY <2>1 DEF a, b
    <3>. QED  BY <3>1, LastOf
  <2>4. Append(Last(a), i + 1) \in N
    <3>. HIDE DEF a
    <3>. QED  BY <2>3, OneMore
  <2>. HIDE DEF N
  <2>5. CASE path[i].link = 0
    <3>1. b = Append(a, <<i + 1>>)
      BY <2>5, <1>1
    <3>2. \A t : t = Append(a, <<i + 1>>) =>
             Len(t) = Len(a) + 1 /\ t[Len(a) + 1] = <<i + 1>> /\ \A q \in 1..Len(a) : t[q] = a[q]
      BY <2>1, <2>2, OneMoreIs
    <3>3. Len(b) = Len(a) + 1 /\ b[Len(b)] = <<i + 1>> /\ \A q \in 1..Len(a) : b[q] = a[q]
      BY <3>1, <3>2
    <3>4. A(i)
      BY <3>3, <2>2 DEF A, One
    <3>5. B(i)
      <4>. SUFFICES ASSUME NEW j \in 1..i, Lone(path, j)
                    PROVE  \E q \in 1..Len(b) - 1 : One(b, q)
        BY DEF B
      <4>1. CASE j = i
        <5>1. i - 1 = 0 \/ path[i - 1].link = 0
          BY <4>1 DEF Lone
        <5>2. One(a, Len(a))
          BY <5>1, <2>1 DEF A
        <5>3. Len(a) \in 1..Len(b) - 1 /\ b[Len(a)] = a[Len(a)]
          <6>. HIDE DEF a, b
          <6>. QED  BY <3>3, <2>3
        <5>4. One(b, Len(a))
          BY <5>2, <5>3 DEF One
        <5>. QED  BY <5>3, <5>4
      <4>2. CASE j # i
        <5>1. j \in 1..i - 1
          BY <4>2
        <5>2. PICK q \in 1..Len(a) - 1 : One(a, q)
          BY <5>1, <2>1 DEF B
        <5>3. q \in 1..Len(b) - 1 /\ b[q] = a[q]
          BY <3>3, <2>3, SMTT(40)
        <5>4. One(b, q)
          BY <5>2, <5>3 DEF One
        <5>. QED  BY <5>3, <5>4
      <4>. QED  BY <4>1, <4>2
    <3>. QED  BY <3>4, <3>5, <2>1
  <2>6. CASE path[i].link # 0
    <3>1. b = Append(Front(a), Append(Last(a), i + 1))
      BY <2>6, <1>1
    <3>2. \A t : t = Append(Front(a), Append(Last(a), i + 1)) =>
             Len(t) = Len(a) /\ \A q \in 1..Len(a) - 1 : t[q] = a[q]
      <4>. DEFINE x == Append(Last(a), i + 1)
      <4>1. a \in Nonempty(N) /\ x \in N
        BY <2>1, <2>4
      <4>. HIDE DEF x, a
      <4>2. \A t : t = Append(Front(a), x) =>
               Len(t) = Len(a) /\ \A q \in 1..Len(a) - 1 : t[q] = a[q]
        BY <4>1, OtherLastIs, SMTT(40)
      <4>. QED  BY <4>2 DEF x
    <3>3. Len(b) = Len(a) /\ \A q \in 1..Len(a) - 1 : b[q] = a[q]
      BY <3>1, <3>2
    <3>4. A(i)
      BY <2>6 DEF A
    <3>5. B(i)
      <4>. SUFFICES ASSUME NEW j \in 1..i, Lone(path, j)
                    PROVE  \E q \in 1..Len(b) - 1 : One(b, q)
        BY DEF B
      <4>1. j # i
        BY <2>6 DEF Lone
      <4>2. j \in 1..i - 1
        BY <4>1
      <4>3. PICK q \in 1..Len(a) - 1 : One(a, q)
        BY <4>2, <2>1 DEF B
      <4>. QED  BY <4>3, <3>3, <2>3 DEF One
    <3>. QED  BY <3>4, <3>5, <2>1
  <2>. QED  BY <2>5, <2>6
<1>4. \A i \in 0..n - 1 : i \in I
  <2>. DEFINE k == n - 1
  <2>1. k \in Nat /\ (\A i \in 1..k : i - 1 \in I => i \in I)
    BY <1>3
  <2>. HIDE DEF k, I
  <2>2. \A i \in 0..k : i \in I
    BY <2>1, <1>2, InductionUpTo
  <2>. QED  BY <2>2 DEF k
<1>5. n - 1 \in 0..n - 1 /\ A(n - 1) /\ B(n - 1)
  <2>1. n - 1 \in 0..n - 1
    OBVIOUS
  <2>. QED  BY <2>1, <1>4
<1>6. DOMAIN g[n - 1] = 1..Len(g[n - 1]) /\ Len(g[n - 1]) \in Nat \ {0}
  <2>1. g[n - 1] \in Nonempty(N)
    BY <1>1, <1>5
  <2>. HIDE DEF N
  <2>. QED  BY <2>1, LastOf
<1>7. \A q \in 1..Len(g[n - 1]) : ~ One(g[n - 1], q)
  <2>. SUFFICES ASSUME NEW q \in 1..Len(g[n - 1]) PROVE Len(g[n - 1][q]) # 1
    BY DEF One
  <2>1. Len(g[n - 1][q]) > 1
    BY <1>1, <1>6 DEF TakesBand
  <2>2. \A l : l > 1 => l # 1
    OBVIOUS
  <2>. QED  BY <2>1, <2>2, Zenon
<1>8. ~ (n - 1 = 0 \/ path[n - 1].link = 0)
  <2>1. Len(g[n - 1]) \in 1..Len(g[n - 1])
    BY <1>6
  <2>. QED  BY <2>1, <1>5, <1>7 DEF A
<1>9. ASSUME NEW i \in 1..n, Lone(path, i) PROVE FALSE
  <2>1. i # n
    BY <1>8, <1>9 DEF Lone
  <2>2. i \in 1..n - 1
    BY <2>1
  <2>3. PICK q \in 1..Len(g[n - 1]) - 1 : One(g[n - 1], q)
    BY <2>2, <1>9, <1>5 DEF B
  <2>4. q \in 1..Len(g[n - 1])
    BY <1>6
  <2>. QED  BY <2>3, <2>4, <1>7
<1>. QED  BY <1>9

(* A path that is proper, in which two points are joined and none alone.   *)
LEMMA ConnectedIf ==
  ASSUME NEW path \in Seq(Points), NEW n \in Nat, n # 0, Len(path) = n, path[n].link = 0,
         \A i \in 1..n - 1 : path[i].label # path[i + 1].label,
         \A i \in 1..n : ~ Lone(path, i),
         \E i \in 1..n - 1 : path[i].link # 0
  PROVE  Connected(path, n)
<1>1. n > 1
  OBVIOUS
<1>2. path[1].link # 0
  <2>1. 1 \in 1..n
    BY <1>1
  <2>. QED  BY <2>1 DEF Lone
<1>3. path[n - 1].link # 0
  <2>1. n \in 1..n /\ n # 1
    BY <1>1
  <2>. QED  BY <2>1 DEF Lone
<1>4. \A i \in 2..n - 1 : path[i].link # 0 \/ path[i - 1].link # 0
  <2>1. \A i \in 2..n - 1 : i \in 1..n
    OBVIOUS
  <2>. QED  BY <2>1 DEF Lone
<1>. QED  BY <1>1, <1>2, <1>3, <1>4 DEF Connected

(* The first set, and the two sets at a break. *)
LEMMA FirstSet ==
  ASSUME NEW path, NEW n \in Nat, Connected(path, n), NEW sets, NEW c, SetsAlong(path, n, sets, c)
  PROVE  /\ c[n - 1] \in Nat /\ c[n - 1] >= 1
         /\ sets[1].from = path[1].label /\ sets[1].to = path[2].label
<1>1. n - 1 \in 1..n - 1 /\ 1 \in 1..n - 1 /\ n - 1 \in 0..n - 1 /\ path[1].link # 0
  BY DEF Connected
<1>2. c[1] = 1 /\ c[1] \in 1..c[n - 1] /\ c[n - 1] \in Nat
  BY <1>1 DEF SetsAlong
<1>3. sets[c[1]].from = path[1].label /\ sets[c[1]].to = path[1 + 1].label
  BY <1>1 DEF SetsAlong
<1>. QED  BY <1>2, <1>3

(* At a break of a connected path the two sets next to it are known.       *)
LEMMA BreakOfSets ==
  ASSUME NEW path, NEW n \in Nat, Connected(path, n), NEW sets, NEW c, SetsAlong(path, n, sets, c),
         NEW i \in 2..n - 2, path[i].link = 0
  PROVE  /\ c[i] \in 1..c[n - 1] - 1 /\ path[i].label # path[i + 1].label
         /\ sets[c[i]].to = path[i].label /\ sets[c[i] + 1].from = path[i + 1].label
<1>. DEFINE h == i - 1
            j == i + 1
<1>1. h \in 1..n - 1 /\ i \in 1..n - 1 /\ j \in 1..n - 1 /\ j - 1 = i
      /\ i - 1 = h /\ h + 1 = i /\ j \in 2..n - 1
      /\ i \in 2..n - 1 /\ i + 1 = j /\ n - 1 \in 0..n - 1
  OBVIOUS
<1>. HIDE DEF h, j
<1>2. path[h].link # 0
  <2>1. path[i].link # 0 \/ path[i - 1].link # 0
    BY <1>1 DEF Connected
  <2>. QED  BY <1>1, <2>1
<1>3. path[j].link # 0
  <2>1. path[j].link # 0 \/ path[j - 1].link # 0
    BY <1>1 DEF Connected
  <2>. QED  BY <1>1, <2>1
<1>4. c[i] = c[h]
  <2>1. c[i] = c[i - 1]
    BY <1>1 DEF SetsAlong
  <2>. QED  BY <1>1, <2>1
<1>5. c[j] = c[i] + 1
  <2>1. c[j] = c[j - 1] + 1
    BY <1>1, <1>3 DEF SetsAlong
  <2>. QED  BY <1>1, <2>1
<1>6. c[h] \in 1..c[n - 1] /\ sets[c[h]].to = path[h + 1].label
  BY <1>1, <1>2 DEF SetsAlong
<1>7. c[j] \in 1..c[n - 1] /\ sets[c[j]].from = path[j].label
  BY <1>1, <1>3 DEF SetsAlong
<1>8. path[i].label # path[i + 1].label
  BY <1>1 DEF Connected
<1>9. c[n - 1] \in Nat
  BY <1>1 DEF SetsAlong
<1>10. c[i] \in 1..c[n - 1] - 1
  BY <1>4, <1>5, <1>6, <1>7, <1>9
<1>11. sets[c[i]].to = path[i].label
  BY <1>1, <1>4, <1>6
<1>12. sets[c[i] + 1].from = path[i + 1].label
  BY <1>1, <1>5, <1>7
<1>. QED  BY <1>8, <1>10, <1>11, <1>12

(* The labels of CP2K's sets, and of band.yaml's segments, along them.     *)
LEMMA NamesOfSegment ==
  ASSUME NEW sets \in Seq(Segment), NEW s \in 1..Len(sets)
  PROVE  /\ sets[s].from \in {"GAMMA", "X", "Y", "Z"} /\ sets[s].to \in {"GAMMA", "X", "Y", "Z"}
         /\ sets[s].from \in Letters /\ Shown(sets[s].from) \in Letters
         /\ sets[s].to \in Letters /\ Shown(sets[s].to) \in Letters
<1>1. sets[s] \in Segment
  OBVIOUS
<1>2. sets[s].from \in {"GAMMA", "X", "Y", "Z"} /\ sets[s].to \in {"GAMMA", "X", "Y", "Z"}
  BY <1>1 DEF Segment
<1>3. \A l \in {"GAMMA", "X", "Y", "Z"} : l \in Letters /\ Shown(l) \in Letters
  BY DEF Shown, Letters
<1>. QED  BY <1>2, <1>3

(* Of CP2K. *)
LEMMA SetLabelsDefined ==
  ASSUME NEW sets \in Seq(Segment), NEW m \in Nat, m # 0, Len(sets) = m
  PROVE  \E g : /\ g[0] = <<<<Shown(sets[1].from)>>, <<Shown(sets[1].from)>>>>
                /\ SetLabels(sets) = g[m - 1]
                /\ LabelsAlong(m, sets, g, [s \in 1..m - 1 |-> <<sets[s].to, Shown(sets[s + 1].from)>>])
<1>. DEFINE V == Nonempty(Seq(Letters))
            base == <<<<Shown(sets[1].from)>>, <<Shown(sets[1].from)>>>>
            breaks == [s \in 1..m - 1 |-> <<sets[s].to, Shown(sets[s + 1].from)>>]
            step == [i \in 1..(m - 1) |-> [a \in V |->
                       Append(IF sets[i + 1].from = sets[i].to THEN a
                              ELSE Append(Front(a), <<sets[i].to, Shown(sets[i + 1].from)>>),
                              <<Shown(sets[i + 1].to)>>)]]
<1>1. \A s \in 1..m : /\ sets[s].from \in Letters /\ Shown(sets[s].from) \in Letters
                      /\ sets[s].to \in Letters /\ Shown(sets[s].to) \in Letters
  BY NamesOfSegment
<1>2. PICK g : Iterates(g, (m - 1), V, base, step) /\ SetLabels(sets) = g[m - 1]
  BY <1>1, SetLabelSteps
<1>. HIDE DEF base
<1>3. /\ g \in [0..m - 1 -> V] /\ g[0] = base
      /\ \A i \in 1..m - 1 : g[i] = step[i][g[i - 1]]
  <2>. HIDE DEF step, V
  <2>. QED  BY <1>2 DEF Iterates
<1>4. \A i \in 0..m - 1 : g[i] \in V
  <2>. HIDE DEF V
  <2>. QED  BY <1>3
<1>5. ASSUME NEW s \in 1..m - 1
      PROVE  /\ breaks[s] \in Seq(Letters)
             /\ g[s] = Append(IF sets[s + 1].from = sets[s].to THEN g[s - 1]
                              ELSE Append(Front(g[s - 1]), breaks[s]),
                              <<Shown(sets[s + 1].to)>>)
  <2>1. g[s - 1] \in V /\ g[s] = step[s][g[s - 1]]
    <3>. HIDE DEF step, V
    <3>. QED  BY <1>3, <1>4
  <2>2. (s + 1) - 1 = s /\ s \in 1..m /\ s + 1 \in 1..m
    OBVIOUS
  <2>4. breaks[s] \in Seq(Letters)
    <3>1. \A l \in Letters : \A k \in Letters : <<l, k>> \in Seq(Letters)
      OBVIOUS
    <3>. QED  BY <3>1, <2>2, <1>1
  <2>. HIDE DEF V
  <2>5. g[s] = Append(IF sets[s + 1].from = sets[s].to THEN g[s - 1]
                      ELSE Append(Front(g[s - 1]), breaks[s]),
                      <<Shown(sets[s + 1].to)>>)
    BY <2>1, <2>2
  <2>. QED  BY <2>4, <2>5
<1>. HIDE DEF step
<1>6. LabelsAlong(m, sets, g, breaks)
  BY <1>4, <1>5 DEF LabelsAlong
<1>. HIDE DEF breaks
<1>7. \E h : h[0] = base /\ SetLabels(sets) = h[m - 1] /\ LabelsAlong(m, sets, h, breaks)
  BY <1>2, <1>3, <1>6
<1>. QED  BY <1>7 DEF base, breaks

(* Of band.yaml. *)
LEMMA PhononLabelsDefined ==
  ASSUME NEW sets \in Seq(Segment), NEW m \in Nat, m # 0, Len(sets) = m
  PROVE  \E g : /\ g[0] = <<<<Shown(sets[1].from)>>, <<Shown(sets[1].to)>>>>
                /\ PhononLabels(sets) = g[m - 1]
                /\ LabelsAlong(m, sets, g, [s \in 1..m - 1 |-> <<Shown(sets[s].to), sets[s + 1].from>>])
<1>. DEFINE V == Nonempty(Seq(Letters))
            base == <<<<Shown(sets[1].from)>>, <<Shown(sets[1].to)>>>>
            breaks == [s \in 1..m - 1 |-> <<Shown(sets[s].to), sets[s + 1].from>>]
            step == [i \in 1..(m - 1) |-> [a \in V |->
                       Append(IF i + 1 \in Breaks(sets)
                              THEN Append(Front(a), <<Shown(sets[i].to), sets[i + 1].from>>) ELSE a,
                              <<Shown(sets[i + 1].to)>>)]]
<1>1. \A s \in 1..m : /\ sets[s].from \in Letters /\ Shown(sets[s].from) \in Letters
                      /\ sets[s].to \in Letters /\ Shown(sets[s].to) \in Letters
  BY NamesOfSegment
<1>2. PICK g : Iterates(g, (m - 1), V, base, step) /\ PhononLabels(sets) = g[m - 1]
  BY <1>1, PhononLabelSteps
<1>. HIDE DEF base
<1>3. /\ g \in [0..m - 1 -> V] /\ g[0] = base
      /\ \A i \in 1..m - 1 : g[i] = step[i][g[i - 1]]
  <2>. HIDE DEF step, V
  <2>. QED  BY <1>2 DEF Iterates
<1>4. \A i \in 0..m - 1 : g[i] \in V
  <2>. HIDE DEF V
  <2>. QED  BY <1>3
<1>5. ASSUME NEW s \in 1..m - 1
      PROVE  /\ breaks[s] \in Seq(Letters)
             /\ g[s] = Append(IF sets[s + 1].from = sets[s].to THEN g[s - 1]
                              ELSE Append(Front(g[s - 1]), breaks[s]),
                              <<Shown(sets[s + 1].to)>>)
  <2>1. g[s - 1] \in V /\ g[s] = step[s][g[s - 1]]
    <3>. HIDE DEF step, V
    <3>. QED  BY <1>3, <1>4
  <2>2. (s + 1) - 1 = s /\ s \in 1..m /\ s + 1 \in 1..m
    OBVIOUS
  <2>3. (s + 1) \in Breaks(sets) <=> sets[s + 1].from # sets[s].to
    BY <2>2 DEF Breaks
  <2>4. breaks[s] \in Seq(Letters)
    <3>1. \A l \in Letters : \A k \in Letters : <<l, k>> \in Seq(Letters)
      OBVIOUS
    <3>. QED  BY <3>1, <2>2, <1>1
  <2>. HIDE DEF V
  <2>5. g[s] = Append(IF sets[s + 1].from = sets[s].to THEN g[s - 1]
                      ELSE Append(Front(g[s - 1]), breaks[s]),
                      <<Shown(sets[s + 1].to)>>)
    BY <2>1, <2>2, <2>3
  <2>. QED  BY <2>4, <2>5
<1>. HIDE DEF step
<1>6. LabelsAlong(m, sets, g, breaks)
  BY <1>4, <1>5 DEF LabelsAlong
<1>. HIDE DEF breaks
<1>7. \E h : h[0] = base /\ PhononLabels(sets) = h[m - 1] /\ LabelsAlong(m, sets, h, breaks)
  BY <1>2, <1>3, <1>6
<1>. QED  BY <1>7 DEF base, breaks

(* CP2K's tics by its sets. *)
LEMMA Cp2kNames ==
  ASSUME NEW path \in Seq(Points), NEW n \in Nat, n # 0, Len(path) = n, Connected(path, n)
  PROVE  /\ DOMAIN SetLabels(Sets(path)) = DOMAIN Stops(path)
         /\ \A t \in DOMAIN Stops(path) :
               \/ t = 2 \/ SetLabels(Sets(path))[t] = Names(path, Stops(path)[t])
               \/ GammaAtBreak(path, Stops(path)[t])
<1>. DEFINE sets == Sets(path)
            R == {r \in Nat \X Seq(Letters) \X Nonempty(Nat) :
                    r[1] = 2 \/ r[2] = Names(path, r[3]) \/ GammaAtBreak(path, r[3])}
<1>1. PICK c : SetsAlong(path, n, sets, c) /\ sets \in Seq(Segment) /\ Len(sets) = c[n - 1]
  BY SetsAreAlong, ZenonT(40)
<1>. HIDE DEF sets
<1>2. /\ c[n - 1] \in Nat /\ c[n - 1] # 0
      /\ sets[1].from = path[1].label /\ sets[1].to = path[2].label
  BY <1>1, FirstSet
<1>. DEFINE m == c[n - 1]
            breaks == [s \in 1..m - 1 |-> <<sets[s].to, Shown(sets[s + 1].from)>>]
<1>3. PICK g : /\ g[0] = <<<<Shown(sets[1].from)>>, <<Shown(sets[1].from)>>>>
               /\ SetLabels(sets) = g[m - 1] /\ LabelsAlong(m, sets, g, breaks)
  BY <1>1, <1>2, SetLabelsDefined
<1>4. \A t, x, y : <<t, x, y>> \in R <=> /\ t \in Nat /\ x \in Seq(Letters) /\ y \in Nonempty(Nat)
                                         /\ t = 2 \/ x = Names(path, y) \/ GammaAtBreak(path, y)
  OBVIOUS
<1>. HIDE DEF R, breaks
<1>5. \A i \in 1..n : /\ path[i].label \in Letters /\ Shown(path[i].label) \in Letters
                      /\ path[i].label \in {"GAMMA", "X", "Y", "Z"}
  BY PointsOf
<1>6. /\ \A l \in Letters : <<l>> \in Seq(Letters) /\ \A k \in Letters : <<l, k>> \in Seq(Letters)
      /\ \A i \in Nat : <<i>> \in Nonempty(Nat) /\ \A j \in Nat : <<i, j>> \in Nonempty(Nat)
  BY DEF Nonempty
<1>7. \A i \in 1..n : \A t \in Nat : <<t, <<Shown(path[i].label)>>, <<i>>>> \in R
  <2>. SUFFICES ASSUME NEW i \in 1..n, NEW t \in Nat
                PROVE  <<t, <<Shown(path[i].label)>>, <<i>>>> \in R
    OBVIOUS
  <2>1. <<Shown(path[i].label)>> \in Seq(Letters) /\ <<i>> \in Nonempty(Nat) /\ i \in Nat
    BY <1>5, <1>6
  <2>2. Names(path, <<i>>) = <<Shown(path[i].label)>>
    BY <2>1, NamesGrow
  <2>. QED  BY <1>4, <2>1, <2>2, ZenonT(40)
<1>8. Agree(R, g[0], <<<<1>>, <<2>>>>)
  <2>. DEFINE x == <<Shown(path[1].label)>>
  <2>1. 1 \in 1..n /\ 2 \in 1..n
    BY DEF Connected
  <2>2. g[0] = <<x, x>> /\ x \in Seq(Letters)
    BY <1>2, <1>3, <1>5, <1>6, <2>1
  <2>3. <<1, x, <<1>>>> \in R /\ <<2, x, <<2>>>> \in R
    <3>1. <<2>> \in Nonempty(Nat) /\ x \in Seq(Letters)
      BY <1>6, <2>2
    <3>. QED  BY <3>1, <1>4, <1>7, <2>1, SMTT(40)
  <2>. HIDE DEF x
  <2>. DEFINE b == <<<<1>>, <<2>>>>
              W == Seq(Letters)
              N == Nonempty(Nat)
  <2>4. <<1>> \in N /\ <<2>> \in N /\ x \in W
    BY <1>6, <2>2
  <2>. HIDE DEF W, N
  <2>5. <<x, x>> \in Nonempty(W) /\ b \in Nonempty(N) /\ Len(<<x, x>>) = 2 /\ Len(b) = 2
    BY <2>4 DEF Nonempty
  <2>6. \A t \in 1..2 : t = 1 \/ t = 2
    OBVIOUS
  <2>7. \A t \in 1..Len(b) : <<t, <<x, x>>[t], b[t]>> \in R
    BY <2>3, <2>5, <2>6
  <2>. HIDE DEF b
  <2>8. Agree(R, <<x, x>>, b)
    BY <2>5, <2>7 DEF Agree, W, N
  <2>. QED  BY <2>2, <2>8 DEF b
<1>9. \A i \in 1..n - 1 : \A t \in Nat : <<t, <<Shown(path[i + 1].label)>>, <<i + 1>>>> \in R
  <2>1. \A i \in 1..n - 1 : i + 1 \in 1..n
    OBVIOUS
  <2>. QED  BY <2>1, <1>7
<1>10. ASSUME NEW i \in 2..n - 2, path[i].link = 0, NEW t \in Nat
       PROVE  <<t, breaks[c[i]], <<i, i + 1>>>> \in R
  <2>. DEFINE u == path[i].label
              v == path[i + 1].label
  <2>1. /\ c[i] \in 1..m - 1 /\ sets[c[i]].to = u /\ sets[c[i] + 1].from = v
    BY <1>1, <1>10, BreakOfSets
  <2>2. breaks[c[i]] = <<u, Shown(v)>>
    BY <2>1 DEF breaks
  <2>3. i \in 1..n /\ i + 1 \in 1..n /\ i \in Nat /\ i + 1 \in Nat
    OBVIOUS
  <2>4. u \in Letters /\ Shown(u) \in Letters /\ Shown(v) \in Letters
    BY <2>3, <1>5
  <2>5. <<u, Shown(v)>> \in Seq(Letters) /\ <<i>> \in Nonempty(Nat) /\ <<i, i + 1>> \in Nonempty(Nat)
    BY <2>3, <2>4, <1>6
  <2>6. /\ <<i, i + 1>> = Append(<<i>>, i + 1)
        /\ Append(<<Shown(u)>>, Shown(v)) = <<Shown(u), Shown(v)>>
    <3>1. <<i, i + 1>> = Append(<<i>>, i + 1)
      BY <2>3, AppendToOne
    <3>2. Append(<<Shown(u)>>, Shown(v)) = <<Shown(u), Shown(v)>>
      BY <2>4, AppendToOne
    <3>. QED  BY <3>1, <3>2
  <2>7. Names(path, <<i, i + 1>>) = <<Shown(u), Shown(v)>>
    <3>1. Names(path, Append(<<i>>, i + 1)) = Append(Names(path, <<i>>), Shown(path[i + 1].label))
      BY <2>3, <2>5, NamesGrow
    <3>2. Names(path, <<i>>) = <<Shown(path[i].label)>>
      BY <2>3, <2>5, NamesGrow
    <3>. QED  BY <3>1, <3>2, <2>6
  <2>8. u = "GAMMA" => GammaAtBreak(path, <<i, i + 1>>)
    BY DEF GammaAtBreak
  <2>9. u # "GAMMA" => Shown(u) = u
    BY DEF Shown
  <2>. HIDE DEF u, v
  <2>. QED  BY <2>2, <2>5, <2>7, <2>8, <2>9, <1>4
<1>11. Agree(R, g[m - 1], Stops(path))
  BY <1>1, <1>3, <1>8, <1>9, <1>10, SetsName
<1>. HIDE DEF m
<1>12. \A a, b : Agree(R, a, b) =>
                    DOMAIN a = DOMAIN b /\ \A t \in DOMAIN b : <<t, a[t], b[t]>> \in R
  <2>1. \A S : \A s \in Nonempty(S) : DOMAIN s = 1..Len(s)
    BY LastOf
  <2>. QED  BY <2>1 DEF Agree
<1>13. DOMAIN SetLabels(sets) = DOMAIN Stops(path)
       /\ \A t \in DOMAIN Stops(path) : <<t, SetLabels(sets)[t], Stops(path)[t]>> \in R
  BY <1>3, <1>11, <1>12
<1>. QED  BY <1>4, <1>13 DEF sets

(* Other numbers of k-points, the same names and breaks.                   *)
LEMMA EvenlyIs ==
  ASSUME NEW path \in Seq(Points), NEW n \in Nat, Len(path) = n
  PROVE  /\ Evenly(path) \in Seq(Points) /\ Len(Evenly(path)) = n
         /\ \A i \in 1..n : /\ Evenly(path)[i].label = path[i].label
                            /\ Evenly(path)[i].link # 0 <=> path[i].link # 0
<1>. DEFINE e(i) == [path[i] EXCEPT !.link = IF @ = 0 THEN 0 ELSE BandPoints]
<1>1. ASSUME NEW p \in Points
      PROVE  LET q == [p EXCEPT !.link = IF @ = 0 THEN 0 ELSE BandPoints]
             IN q \in Points /\ q.label = p.label /\ (q.link # 0 <=> p.link # 0)
  <2>1. BandPoints \in Nat /\ BandPoints # 0
    BY DEF BandPoints
  <2>. QED  BY <2>1 DEF Points
<1>2. \A i \in 1..n : path[i] \in Points
  OBVIOUS
<1>3. \A i \in 1..n : e(i) \in Points /\ e(i).label = path[i].label /\ (e(i).link # 0 <=> path[i].link # 0)
  BY <1>1, <1>2
<1>4. Evenly(path) = [i \in 1..n |-> e(i)]
  BY DEF Evenly
<1>. HIDE DEF e
<1>. QED  BY <1>3, <1>4

(* The tics of phonons by the segments of band.yaml. *)
LEMMA PhononNames ==
  ASSUME NEW path \in Seq(Points), NEW n \in Nat, n # 0, Len(path) = n, Connected(path, n),
         ~ LooksPastEnd(Sets(Evenly(path)))
  PROVE  /\ DOMAIN PhononLabels(Sets(Evenly(path))) = DOMAIN Stops(path)
         /\ \A t \in DOMAIN Stops(path) :
               PhononLabels(Sets(Evenly(path)))[t] = Names(path, Stops(path)[t])
<1>. DEFINE sets == Sets(Evenly(path))
            R == {r \in Nat \X Seq(Letters) \X Nonempty(Nat) : r[2] = Names(path, r[3])}
<1>1. PICK c : SetsAlong(path, n, sets, c) /\ sets \in Seq(Segment) /\ Len(sets) = c[n - 1]
  <2>. DEFINE even == Evenly(path)
  <2>1. /\ even \in Seq(Points) /\ Len(even) = n
        /\ \A i \in 1..n : even[i].label = path[i].label /\ (even[i].link # 0 <=> path[i].link # 0)
    BY EvenlyIs
  <2>. HIDE DEF even
  <2>2. \E c : /\ SetsAlong(even, n, Sets(even), c) /\ Sets(even) \in Seq(Segment)
               /\ Len(Sets(even)) = c[n - 1]
    <3>1. even \in Seq(Points) /\ Len(even) = n
      BY <2>1
    <3>. QED  BY <3>1, SetsAreAlong, ZenonT(40)
  <2>3. \A c : SetsAlong(even, n, Sets(even), c) => SetsAlong(path, n, Sets(even), c)
    <3>1. \A i \in 1..n - 1 : i \in 1..n /\ i + 1 \in 1..n
      OBVIOUS
    <3>2. \A i \in 1..n - 1 : /\ even[i].label = path[i].label /\ even[i + 1].label = path[i + 1].label
                              /\ even[i].link # 0 <=> path[i].link # 0
      BY <2>1, <3>1
    <3>. QED  BY <3>2 DEF SetsAlong
  <2>. QED  BY <2>2, <2>3 DEF even
<1>. HIDE DEF sets
<1>2. /\ c[n - 1] \in Nat /\ c[n - 1] # 0
      /\ sets[1].from = path[1].label /\ sets[1].to = path[2].label
  BY <1>1, FirstSet
<1>. DEFINE m == c[n - 1]
            breaks == [s \in 1..m - 1 |-> <<Shown(sets[s].to), sets[s + 1].from>>]
<1>3. PICK g : /\ g[0] = <<<<Shown(sets[1].from)>>, <<Shown(sets[1].to)>>>>
               /\ PhononLabels(sets) = g[m - 1] /\ LabelsAlong(m, sets, g, breaks)
  BY <1>1, <1>2, PhononLabelsDefined
<1>4. \A t, x, y : <<t, x, y>> \in R <=> /\ t \in Nat /\ x \in Seq(Letters) /\ y \in Nonempty(Nat)
                                         /\ x = Names(path, y)
  OBVIOUS
<1>. HIDE DEF R, breaks
<1>5. \A i \in 1..n : /\ path[i].label \in Letters /\ Shown(path[i].label) \in Letters
                      /\ path[i].label \in {"GAMMA", "X", "Y", "Z"}
  BY PointsOf
<1>6. /\ \A l \in Letters : <<l>> \in Seq(Letters) /\ \A k \in Letters : <<l, k>> \in Seq(Letters)
      /\ \A i \in Nat : <<i>> \in Nonempty(Nat) /\ \A j \in Nat : <<i, j>> \in Nonempty(Nat)
  BY DEF Nonempty
<1>7. \A i \in 1..n : \A t \in Nat : <<t, <<Shown(path[i].label)>>, <<i>>>> \in R
  <2>. SUFFICES ASSUME NEW i \in 1..n, NEW t \in Nat
                PROVE  <<t, <<Shown(path[i].label)>>, <<i>>>> \in R
    OBVIOUS
  <2>1. <<Shown(path[i].label)>> \in Seq(Letters) /\ <<i>> \in Nonempty(Nat) /\ i \in Nat
    BY <1>5, <1>6
  <2>2. Names(path, <<i>>) = <<Shown(path[i].label)>>
    BY <2>1, NamesGrow
  <2>. QED  BY <1>4, <2>1, <2>2
<1>8. Agree(R, g[0], <<<<1>>, <<2>>>>)
  <2>. DEFINE x == <<Shown(path[1].label)>>
              y == <<Shown(path[2].label)>>
  <2>1. 1 \in 1..n /\ 2 \in 1..n
    BY DEF Connected
  <2>2. g[0] = <<x, y>> /\ x \in Seq(Letters) /\ y \in Seq(Letters)
    BY <1>2, <1>3, <1>5, <1>6, <2>1
  <2>3. <<1, x, <<1>>>> \in R /\ <<2, y, <<2>>>> \in R
    BY <1>7, <2>1
  <2>. HIDE DEF x, y
  <2>. DEFINE a == <<x, y>>
              b == <<<<1>>, <<2>>>>
              W == Seq(Letters)
              N == Nonempty(Nat)
  <2>4. <<1>> \in N /\ <<2>> \in N /\ x \in W /\ y \in W
    BY <1>6, <2>2
  <2>. HIDE DEF W, N
  <2>5. a \in Nonempty(W) /\ b \in Nonempty(N) /\ Len(a) = 2 /\ Len(b) = 2
    BY <2>4 DEF Nonempty
  <2>6. \A t \in 1..2 : t = 1 \/ t = 2
    OBVIOUS
  <2>7. \A t \in 1..Len(b) : <<t, a[t], b[t]>> \in R
    BY <2>3, <2>5, <2>6
  <2>. HIDE DEF a, b
  <2>8. Agree(R, a, b)
    BY <2>5, <2>7 DEF Agree, W, N
  <2>. QED  BY <2>2, <2>8 DEF a, b
<1>9. \A i \in 1..n - 1 : \A t \in Nat : <<t, <<Shown(path[i + 1].label)>>, <<i + 1>>>> \in R
  <2>1. \A i \in 1..n - 1 : i + 1 \in 1..n
    OBVIOUS
  <2>. QED  BY <2>1, <1>7
<1>10. ASSUME NEW i \in 2..n - 2, path[i].link = 0, NEW t \in Nat
       PROVE  <<t, breaks[c[i]], <<i, i + 1>>>> \in R
  <2>. DEFINE u == path[i].label
              v == path[i + 1].label
  <2>1. /\ c[i] \in 1..m - 1 /\ sets[c[i]].to = u /\ sets[c[i] + 1].from = v
    BY <1>1, <1>10, BreakOfSets
  <2>2. breaks[c[i]] = <<Shown(u), v>>
    BY <2>1 DEF breaks
  <2>3. i \in 1..n /\ i + 1 \in 1..n /\ i \in Nat /\ i + 1 \in Nat
    OBVIOUS
  <2>4. v \in Letters /\ Shown(u) \in Letters /\ Shown(v) \in Letters
    BY <2>3, <1>5
  <2>5. <<Shown(u), v>> \in Seq(Letters) /\ <<i>> \in Nonempty(Nat) /\ <<i, i + 1>> \in Nonempty(Nat)
    BY <2>3, <2>4, <1>6
  <2>6. /\ <<i, i + 1>> = Append(<<i>>, i + 1)
        /\ Append(<<Shown(u)>>, Shown(v)) = <<Shown(u), Shown(v)>>
    <3>1. <<i, i + 1>> = Append(<<i>>, i + 1)
      BY <2>3, AppendToOne
    <3>2. Append(<<Shown(u)>>, Shown(v)) = <<Shown(u), Shown(v)>>
      BY <2>4, AppendToOne
    <3>. QED  BY <3>1, <3>2
  <2>7. Names(path, <<i, i + 1>>) = <<Shown(u), Shown(v)>>
    <3>1. Names(path, Append(<<i>>, i + 1)) = Append(Names(path, <<i>>), Shown(path[i + 1].label))
      BY <2>3, <2>5, NamesGrow
    <3>2. Names(path, <<i>>) = <<Shown(path[i].label)>>
      BY <2>3, <2>5, NamesGrow
    <3>. QED  BY <3>1, <3>2, <2>6
  <2>8. Shown(v) = v
    <3>1. u # v
      BY <1>1, <1>10, BreakOfSets
    <3>2. c[i] + 1 \in 2..Len(sets) /\ (c[i] + 1) - 1 = c[i]
      BY <2>1, <1>1, <1>2
    <3>. DEFINE s == c[i] + 1
    <3>. HIDE DEF s, u, v
    <3>3. s \in 2..Len(sets) /\ sets[s].from = v /\ sets[s - 1].to = u
      BY <2>1, <3>2 DEF s
    <3>4. s \in Breaks(sets)
      BY <3>1, <3>3 DEF Breaks
    <3>5. ~ (v = "GAMMA" /\ u # "GAMMA")
      BY <3>3, <3>4 DEF LooksPastEnd, sets
    <3>. QED  BY <3>1, <3>5 DEF Shown
  <2>. HIDE DEF u, v
  <2>. QED  BY <2>2, <2>5, <2>7, <2>8, <1>4
<1>11. Agree(R, g[m - 1], Stops(path))
  BY <1>1, <1>3, <1>8, <1>9, <1>10, SetsName
<1>. HIDE DEF m
<1>12. \A a, b : Agree(R, a, b) =>
                    DOMAIN a = DOMAIN b /\ \A t \in DOMAIN b : <<t, a[t], b[t]>> \in R
  <2>1. \A S : \A s \in Nonempty(S) : DOMAIN s = 1..Len(s)
    BY LastOf
  <2>. QED  BY <2>1 DEF Agree
<1>13. DOMAIN PhononLabels(sets) = DOMAIN Stops(path)
       /\ \A t \in DOMAIN Stops(path) : <<t, PhononLabels(sets)[t], Stops(path)[t]>> \in R
  BY <1>3, <1>11, <1>12
<1>. QED  BY <1>4, <1>13 DEF sets

-----------------------------------------------------------------------------
(* What a plot says at a stop. *)
LEMMA LabelOfTic ==
  ASSUME NEW k, NEW labels, NEW places, NEW t \in DOMAIN labels
  PROVE  PlotWith(k, labels, places).tics[t].label = labels[t]
BY DEF PlotWith, Tics

TicsSay(path, tics) ==
    \A t \in DOMAIN Stops(path) :
        \/ tics[t].label = Names(path, Stops(path)[t])
        \/ program \in {"abinit", "siesta", "octopus", "cp2k"} /\ GammaAtBreak(path, Stops(path)[t])
        \/ program = "cp2k" /\ (t = 2 \/ \E i \in DOMAIN path : Lone(path, i))

(* The plots whose labels are made by links name their stops.              *)
LEMMA LinksSay ==
  ASSUME NEW path \in Seq(Points), Len(path) # 0,
         program \in {"abinit", "siesta", "qe", "vasp", "octopus"}, NEW k, NEW places
  PROVE  TicsSay(path, PlotWith(k, ByLinks(path, program), places).tics)
<1>1. /\ DOMAIN ByLinks(path, program) = DOMAIN Stops(path)
      /\ \A t \in DOMAIN Stops(path) :
            Named(path, program, ByLinks(path, program)[t], Stops(path)[t])
  BY LinksName
<1>2. \A t \in DOMAIN Stops(path) :
         PlotWith(k, ByLinks(path, program), places).tics[t].label = ByLinks(path, program)[t]
  BY <1>1, LabelOfTic
<1>. QED  BY <1>1, <1>2 DEF TicsSay, Named

(* What each program's plot says at its stops, of a path as one writes it. *)
LEMMA PlotsSay ==
  ASSUME ProperPaths, NEW path \in Paths \cup Others, NEW rows,
         program \in Programs, program # "elk", program \notin Densities,
         program = "cp2k" => kept = None,
         program \in Phonons => TakesBand(BandConf(path)) /\ ~ LooksPastEnd(Sets(Evenly(path)))
  PROVE  TicsSay(path, PlotOf(path, rows).tics)
<1>. DEFINE n == Len(path)
<1>1. /\ path \in Seq(Points) /\ n \in Nat /\ path[n].link = 0
      /\ \A i \in 1..n - 1 : path[i].label # path[i + 1].label
      /\ \E i \in 1..n - 1 : path[i].link # 0
  BY PathsAssumption DEF ProperPaths, Segments
<1>2. n # 0 /\ DOMAIN path = 1..n
  BY <1>1
<1>. HIDE DEF n
<1>3. program \in {"abinit", "siesta", "qe", "vasp", "octopus", "cp2k"} \cup Phonons
  BY PathsAssumption
<1>4. CASE program = "abinit"
  <2>1. PlotOf(path, rows) = AbinitPlot(path)
    BY <1>4 DEF PlotOf, Phonons
  <2>2. \E k, places : AbinitPlot(path) = PlotWith(k, ByLinks(path, "abinit"), places)
    BY Zenon DEF AbinitPlot
  <2>. QED  BY <2>1, <2>2, <1>1, <1>2, <1>4, LinksSay DEF n
<1>5. CASE program = "siesta"
  <2>1. PlotOf(path, rows) = SiestaPlot(path)
    BY <1>5 DEF PlotOf, Phonons
  <2>2. \E k, places : SiestaPlot(path) = PlotWith(k, ByLinks(path, "siesta"), places)
    BY Zenon DEF SiestaPlot
  <2>. QED  BY <2>1, <2>2, <1>1, <1>2, <1>5, LinksSay DEF n
<1>6. CASE program = "qe"
  <2>1. PlotOf(path, rows) = QePlot(path, rows)
    BY <1>6 DEF PlotOf, Phonons
  <2>2. \E k, places : QePlot(path, rows) = PlotWith(k, ByLinks(path, "qe"), places)
    BY Zenon DEF QePlot
  <2>. QED  BY <2>1, <2>2, <1>1, <1>2, <1>6, LinksSay DEF n
<1>7. CASE program = "vasp"
  <2>1. PlotOf(path, rows) = VaspPlot(path)
    BY <1>7 DEF PlotOf, Phonons
  <2>2. \E k, places : VaspPlot(path) = PlotWith(k, ByLinks(path, "vasp"), places)
    BY Zenon DEF VaspPlot
  <2>. QED  BY <2>1, <2>2, <1>1, <1>2, <1>7, LinksSay DEF n
<1>8. CASE program = "octopus"
  <2>1. PlotOf(path, rows) = OctopusPlot(path, rows)
    BY <1>8 DEF PlotOf, Phonons
  <2>2. \E k, places : OctopusPlot(path, rows) = PlotWith(k, ByLinks(path, "octopus"), places)
    BY Zenon DEF OctopusPlot
  <2>. QED  BY <2>1, <2>2, <1>1, <1>2, <1>8, LinksSay DEF n
<1>9. CASE program = "cp2k"
  <2>1. CASE \E i \in 1..n : Lone(path, i)
    BY <2>1, <1>2, <1>9 DEF TicsSay
  <2>2. CASE \A i \in 1..n : ~ Lone(path, i)
    <3>1. Connected(path, n)
      BY <2>2, <1>1, <1>2, ConnectedIf DEF n
    <3>2. Sets(path) \in Seq(Segment)
      BY <1>1, <1>2, SetsAre DEF n
    <3>3. kept \o Sets(path) = Sets(path)
      BY <3>2, <1>9 DEF None
    <3>. DEFINE labels == SetLabels(Sets(path))
    <3>4. \E k, places : PlotOf(path, rows) = PlotWith(k, labels, places)
      <4>1. PlotOf(path, rows) = Cp2kPlot(path)
        BY <1>9 DEF PlotOf, Phonons
      <4>2. \E k, places : Cp2kPlot(path) = PlotWith(k, SetLabels(kept \o Sets(path)), places)
        BY Zenon DEF Cp2kPlot
      <4>. QED  BY <4>1, <4>2, <3>3
    <3>5. /\ DOMAIN labels = DOMAIN Stops(path)
          /\ \A t \in DOMAIN Stops(path) :
                \/ t = 2 \/ labels[t] = Names(path, Stops(path)[t])
                \/ GammaAtBreak(path, Stops(path)[t])
      BY <3>1, <1>1, <1>2, Cp2kNames DEF n
    <3>. HIDE DEF labels
    <3>6. \A t \in DOMAIN Stops(path) : PlotOf(path, rows).tics[t].label = labels[t]
      BY <3>4, <3>5, LabelOfTic
    <3>. QED  BY <3>5, <3>6, <1>9 DEF TicsSay
  <2>. QED  BY <2>1, <2>2
<1>10. CASE program \in Phonons
  <2>1. \A i \in 1..n : ~ Lone(path, i)
    BY <1>1, <1>2, <1>10, BandOfJoined DEF n
  <2>2. Connected(path, n)
    BY <2>1, <1>1, <1>2, ConnectedIf DEF n
  <2>. DEFINE labels == PhononLabels(Sets(Evenly(path)))
  <2>3. \E k, places : PlotOf(path, rows) = PlotWith(k, labels, places)
    <3>1. PlotOf(path, rows) = PhononPlot(path)
      BY <1>10 DEF PlotOf, Phonons
    <3>. QED  BY <3>1 DEF PhononPlot, ExtractOf, ExtractData, VaspExtractData
  <2>4. /\ DOMAIN labels = DOMAIN Stops(path)
        /\ \A t \in DOMAIN Stops(path) : labels[t] = Names(path, Stops(path)[t])
    BY <2>2, <1>1, <1>2, <1>10, PhononNames DEF n
  <2>. HIDE DEF labels
  <2>5. \A t \in DOMAIN Stops(path) : PlotOf(path, rows).tics[t].label = labels[t]
    BY <2>3, <2>4, LabelOfTic
  <2>. QED  BY <2>4, <2>5 DEF TicsSay
<1>. QED  BY <1>3, <1>4, <1>5, <1>6, <1>7, <1>8, <1>9, <1>10

(* The paths in the state are paths that were given, phonopy has computed  *)
(* a band only along one it takes, and an object of CP2K's class that has  *)
(* not plotted yet holds no sets; a density of states is no such plot.     *)
PathsInv ==
    /\ program \in Programs
    /\ plots \in Nat
    /\ program \notin Densities => given \in Paths \cup Others
    /\ program \in Phonons => input \in Paths \cup Others
    /\ band # None => /\ band.of \in Paths \cup Others
                      /\ program \in Phonons => TakesBand(BandConf(band.of))
    /\ program = "cp2k" /\ plots = 0 => kept = None
    /\ program \in Densities => plot = None

(* The tics of the last plot, if it did not fail, and of CP2K's class if   *)
(* its object had not plotted before.                                      *)
TicsInv ==
    /\ plot # None /\ ~ plot.failed
    /\ program # "elk" /\ program \notin Densities
    /\ program = "cp2k" => plots = 1
    => TicsSay(plot.band.of, plot.tics)

(* At first a path is given and nothing is computed or drawn.              *)
LEMMA TicsInvInit == Init => PathsInv /\ TicsInv
<1>. SUFFICES ASSUME Init PROVE PathsInv /\ TicsInv
  OBVIOUS
<1>1. program \notin Densities => given \in Paths
  BY DEF Init
<1>2. program \in Programs /\ input = given /\ band = None /\ kept = None /\ plots = 0 /\ plot = None
  BY DEF Init
<1>3. program \in Phonons => program \notin Densities
  BY DEF Phonons, Densities
<1>. QED  BY <1>1, <1>2, <1>3 DEF PathsInv, TicsInv

(* Each call leaves paths that were given in the state.                    *)
LEMMA PathsInvNext ==
  PathsInv /\ [Next]_vars => PathsInv'
<1>. SUFFICES ASSUME PathsInv, [Next]_vars PROVE PathsInv'
  OBVIOUS
<1>0. program \in Phonons => program \notin Densities /\ program \notin {"siesta", "octopus", "cp2k"}
  BY DEF Phonons, Densities
<1>1. ASSUME NEW path \in Others, SetKpath(path) PROVE PathsInv'
  <2>1. program \in Phonons => input' = path
    BY <1>0, <1>1 DEF SetKpath, Document
  <2>2. given' = path /\ UNCHANGED <<program, band, kept, plots, plot>>
    BY <1>1 DEF SetKpath
  <2>. QED  BY <2>1, <2>2 DEF PathsInv
<1>2. CASE Calculate
  <2>1. /\ program \notin Phonons \cup Densities /\ band'.of = given
        /\ UNCHANGED <<program, input, given, kept, plots, plot>>
    BY <1>2 DEF Calculate
  <2>. QED  BY <2>1 DEF PathsInv
<1>3. CASE Construct
  <2>1. kept' = None /\ plots' = 0 /\ UNCHANGED <<program, input, given, band, plot>>
    BY <1>3 DEF Construct
  <2>. QED  BY <2>1 DEF PathsInv
<1>4. CASE Plot
  <2>1. program \notin Densities /\ plots' = plots + 1 /\ UNCHANGED <<program, input, given, band>>
    BY <1>4 DEF Plot
  <2>2. plots' \in Nat /\ plots' # 0
    BY <2>1 DEF PathsInv
  <2>. QED  BY <2>1, <2>2 DEF PathsInv
<1>5. CASE Analyse
  <2>1. program \in Phonons /\ UNCHANGED <<program, input, given, kept, plots>>
    BY <1>5 DEF Analyse
  <2>2. \/ band' = band
        \/ band'.of = input /\ TakesBand(RunOf(program, cells, input).conf)
    BY <1>5 DEF Analyse
  <2>3. RunOf(program, cells, input).conf = BandConf(input)
    BY <2>1 DEF Phonons, RunOf, VaspRun, AbinitRun, SiestaRun, ElkRun, QeRun, Cp2kRun, Analysis
  <2>. QED  BY <1>0, <2>1, <2>2, <2>3 DEF PathsInv
<1>6. CASE UNCHANGED <<program, input, given, band, kept, plots, plot>>
  BY <1>6 DEF PathsInv
<1>. QED
  <2>1. \/ \E path \in Others : SetKpath(path)
        \/ Calculate \/ Construct \/ Plot \/ Analyse
        \/ UNCHANGED <<program, input, given, band, kept, plots, plot>>
    BY DEF Next, vars, Displace, Project, PlotDensity
  <2>. QED  BY <1>1, <1>2, <1>3, <1>4, <1>5, <1>6, <2>1

(* What a drawn plot holds. *)
LEMMA DrawnIs ==
  ASSUME NEW computed, NEW directory, NEW fails, ~ Drawn(computed, directory, fails).failed
  PROVE  /\ ~ fails
         /\ Drawn(computed, directory, fails).band = computed
         /\ Drawn(computed, directory, fails).tics = PlotOf(computed.of, computed.rows).tics
<1>1. ~ fails
  BY Zenon DEF Drawn
<1>2. Drawn(computed, directory, fails).band = computed
  BY Zenon DEF Drawn
<1>3. Drawn(computed, directory, fails).tics
      = IF fails THEN None ELSE PlotOf(computed.of, computed.rows).tics
  BY Zenon DEF Drawn
<1>. QED  BY <1>1, <1>2, <1>3, Zenon

(* A plot is drawn of the path that was computed; no other call draws one. *)
LEMMA TicsInvNext ==
  ProperPaths /\ PathsInv /\ TicsInv /\ [Next]_vars => TicsInv'
<1>. SUFFICES ASSUME ProperPaths, PathsInv, TicsInv, [Next]_vars PROVE TicsInv'
  OBVIOUS
<1>1. CASE Plot
  <2>. DEFINE fails == Fails(band.of, band.rows)
  <2>1. /\ program' = program /\ program \notin Phonons \cup Densities /\ band # None /\ plots' = plots + 1
        /\ plot' = Drawn(band, cells, fails)
    BY <1>1 DEF Plot
  <2>. HIDE DEF fails
  <2>. SUFFICES ASSUME ~ plot'.failed, program # "elk", program = "cp2k" => plots' = 1
                PROVE  TicsSay(plot.band.of, plot.tics)'
    BY <2>1 DEF TicsInv
  <2>2. plot'.band = band /\ plot'.tics = PlotOf(band.of, band.rows).tics
    <3>1. ~ Drawn(band, cells, fails).failed
      BY <2>1, Zenon
    <3>2. /\ Drawn(band, cells, fails).band = band
          /\ Drawn(band, cells, fails).tics = PlotOf(band.of, band.rows).tics
      BY <3>1, DrawnIs
    <3>. QED  BY <2>1, <3>2, Zenon
  <2>3. /\ band.of \in Paths \cup Others /\ program \in Programs
        /\ program = "cp2k" => kept = None
    BY <2>1 DEF PathsInv
  <2>4. TicsSay(band.of, PlotOf(band.of, band.rows).tics)
    BY <2>1, <2>3, PlotsSay
  <2>. QED  BY <2>1, <2>2, <2>4 DEF TicsSay
<1>2. CASE Analyse
  <2>. DEFINE crashes == RunOf(program, cells, input).crashes
              fails == \/ crashes \/ band' = None \/ program \notin Extracts
                       \/ Fails(band'.of, band'.rows)
  <2>1. program' = program /\ program \in Phonons /\ plot' = Drawn(band', cells, fails)
    BY <1>2 DEF Analyse
  <2>2. PathsInv'
    BY PathsInvNext
  <2>. HIDE DEF crashes, fails
  <2>. SUFFICES ASSUME ~ plot'.failed
                PROVE  TicsSay(plot.band.of, plot.tics)'
    BY <2>1 DEF TicsInv
  <2>3. ~ fails /\ plot'.band = band' /\ plot'.tics = PlotOf(band'.of, band'.rows).tics
    <3>1. ~ Drawn(band', cells, fails).failed
      BY <2>1, Zenon
    <3>2. /\ ~ fails /\ Drawn(band', cells, fails).band = band'
          /\ Drawn(band', cells, fails).tics = PlotOf(band'.of, band'.rows).tics
      BY <3>1, DrawnIs
    <3>. QED  BY <2>1, <3>2, Zenon
  <2>4. band' # None /\ ~ LooksPastEnd(Sets(Evenly(band'.of)))
    BY <2>1, <2>3 DEF fails, Fails
  <2>5. /\ band'.of \in Paths \cup Others /\ program \in Programs /\ TakesBand(BandConf(band'.of))
    BY <2>1, <2>2, <2>4 DEF PathsInv
  <2>6. program # "elk" /\ program # "cp2k" /\ program \notin Densities
    BY <2>1 DEF Phonons, Densities
  <2>7. TicsSay(band'.of, PlotOf(band'.of, band'.rows).tics)
    BY <2>4, <2>5, <2>6, PlotsSay
  <2>. QED  BY <2>1, <2>3, <2>7 DEF TicsSay
<1>3. CASE Construct
  <2>1. program' = program /\ plot' = plot /\ plots' = 0 /\ plots > 0
    BY <1>3 DEF Construct
  <2>. QED  BY <2>1 DEF TicsInv, TicsSay
<1>4. CASE UNCHANGED <<program, plots, plot>>
  BY <1>4 DEF TicsInv, TicsSay
<1>. QED
  <2>1. Construct \/ Plot \/ Analyse \/ UNCHANGED <<program, plots, plot>>
    BY DEF Next, vars, SetKpath, Calculate, Displace, Project, PlotDensity
  <2>. QED  BY <1>1, <1>2, <1>3, <1>4, <2>1

(* A tic has the names of all points of its stop, but for the tics         *)
(* TicsNameStops lists: for any paths as one writes them, of any length,   *)
(* in the plots of Abinit, SIESTA, Quantum ESPRESSO, VASP, Octopus, CP2K   *)
(* and the phonons (the label loops of bands.cpp, band.cpp, post.py and    *)
(* phonopy.cpp).                                                           *)
THEOREM TicsAreNamed ==
    ASSUME ProperPaths
    PROVE  Spec => []TicsNameStops
<1>1. PathsInv /\ TicsInv => TicsNameStops
  <2>. SUFFICES ASSUME PathsInv, TicsInv, Good, program # "elk"
                PROVE  TicsSay(plot.band.of, plot.tics)
    BY DEF TicsNameStops, TicsSay
  <2>1. CASE program \notin Densities
    BY <2>1 DEF TicsInv, Good
  <2>2. CASE program \in Densities
    BY <2>2 DEF PathsInv, Good
  <2>. QED  BY <2>1, <2>2
<1>. QED  BY <1>1, TicsInvInit, PathsInvNext, TicsInvNext, PTL DEF Spec
=============================================================================
