--------------------------- MODULE PostRunsProofs --------------------------
(***************************************************************************)
(* Theorems about PostRuns: the shares of the threads, the structures that *)
(* CP2K's classes put together from files that are still being written,    *)
(* the tree that the threads fill against a reader that applies the rules  *)
(* one after another, the name of the structure that is saved, and how     *)
(* often a list of the tree repeats the steps an object has read.          *)
(***************************************************************************)
EXTENDS PostRuns, RecursionLemmas, FiniteSetTheorems

-----------------------------------------------------------------------------
(* Lines and rules.  Of the rules of a class at most one matches a line.   *)

(* Of rules with only one that matches a line, this one is applied.        *)
LEMMA OneRuleApplies ==
  ASSUME NEW S, NEW rules \in Seq(S), NEW tree, NEW line,
         NEW a \in 0..Len(rules),
         \A i \in 1..Len(rules) : line.line \in rules[i].lines <=> i = a
  PROVE  ApplyRules(tree, rules, line) = IF a = 0 THEN tree ELSE ApplyRule(tree, rules[a], line)
<1>. DEFINE n == Len(rules)
            does == ApplyRule(tree, rules[a], line)
            P(G) == G = [X \in SUBSET DOMAIN rules |->
                          IF X = {} THEN tree
                          ELSE IF line.line \in rules[Max(X)].lines
                               THEN ApplyRule(G[X \ {Max(X)}], rules[Max(X)], line)
                               ELSE G[X \ {Max(X)}]]
            C == CHOOSE G : P(G)
            F == [X \in SUBSET (1..n) |-> IF a \in X THEN does ELSE tree]
<1>1. n \in Nat /\ DOMAIN rules = 1..n /\ a \in 0..n
  OBVIOUS
<1>2. \A i \in 1..n : line.line \in rules[i].lines <=> i = a
  OBVIOUS
<1>3. ApplyRules(tree, rules, line) = C[DOMAIN rules]
  BY DEF ApplyRules, FoldLeft, MapThenFoldSet
<1>. HIDE DEF n
<1>4. ASSUME NEW X \in SUBSET (1..n), X # {}
      PROVE  F[X] = IF line.line \in rules[Max(X)].lines
                    THEN ApplyRule(F[X \ {Max(X)}], rules[Max(X)], line)
                    ELSE F[X \ {Max(X)}]
  <2>. DEFINE m == Max(X)
              U == X \ {m}
  <2>1. m \in 1..n /\ m \in X
    BY <1>1, <1>4, MaxOfNumbers
  <2>2. U \in SUBSET (1..n) /\ a \notin {m} => (a \in X <=> a \in U)
    OBVIOUS
  <2>3. F[U] = IF a \in U THEN does ELSE tree
    BY <2>2
  <2>. HIDE DEF m, does
  <2>4. CASE a = m
    <3>1. a \notin U /\ a \in X /\ line.line \in rules[m].lines
      BY <1>2, <2>1, <2>4
    <3>2. F[X] = ApplyRule(tree, rules[m], line)
      BY <2>4, <3>1 DEF does
    <3>. QED  BY <2>3, <3>1, <3>2 DEF m
  <2>5. CASE a # m
    <3>1. a \in U <=> a \in X
      BY <2>5
    <3>2. line.line \notin rules[m].lines
      BY <1>2, <2>1, <2>5
    <3>. QED  BY <2>3, <3>1, <3>2 DEF m
  <2>. QED  BY <2>4, <2>5
<1>5. F[{}] = tree /\ DOMAIN F = SUBSET (1..n)
  OBVIOUS
<1>. HIDE DEF F
<1>6. P(F)
  BY <1>1, <1>4, <1>5, Zenon DEF F
<1>7. P(C)
  <2>. HIDE DEF P
  <2>. QED  BY <1>6
<1>. HIDE DEF C
<1>8. C[1..n] = F[1..n]
  <2>. DEFINE I == {i \in 0..n : C[1..i] = F[1..i]}
  <2>1. 0 \in I
    <3>1. 1..0 = {}
      OBVIOUS
    <3>. QED  BY <1>1, <1>5, <1>7, <3>1
  <2>2. ASSUME NEW i \in 1..n, i - 1 \in I PROVE i \in I
    <3>1. 1..i \in SUBSET (1..n) /\ 1..i # {} /\ Max(1..i) = i /\ (1..i) \ {i} = 1..i - 1
      BY <1>1, FoldSteps
    <3>2. C[1..i] = IF line.line \in rules[i].lines THEN ApplyRule(C[1..i - 1], rules[i], line)
                                                    ELSE C[1..i - 1]
      BY <1>1, <1>7, <3>1
    <3>3. F[1..i] = IF line.line \in rules[i].lines THEN ApplyRule(F[1..i - 1], rules[i], line)
                                                    ELSE F[1..i - 1]
      <4>. DEFINE X == 1..i
      <4>. HIDE DEF X
      <4>1. F[X] = IF line.line \in rules[Max(X)].lines
                   THEN ApplyRule(F[X \ {Max(X)}], rules[Max(X)], line)
                   ELSE F[X \ {Max(X)}]
        BY <1>4, <3>1 DEF X
      <4>2. Max(X) = i /\ X \ {i} = 1..i - 1
        BY <3>1 DEF X
      <4>. QED  BY <4>1, <4>2 DEF X
    <3>. QED  BY <2>2, <3>2, <3>3
  <2>. HIDE DEF I
  <2>3. n \in 0..n
    BY <1>1
  <2>4. n \in I
    BY <1>1, <2>1, <2>2, <2>3, InductionUpTo
  <2>. QED  BY <2>4 DEF I
<1>9. F[1..n] = IF a = 0 THEN tree ELSE does
  BY <1>1 DEF F
<1>. QED  BY <1>1, <1>3, <1>8, <1>9

(* What every write of a rule keeps, the rule keeps.                       *)
LEMMA ApplyRuleStays ==
  ASSUME NEW S, NEW rule, rule.keys \in Seq(S), NEW line, NEW V, NEW tree \in V,
         \A t \in V : \A key \in Range(rule.keys) \cup {line.line} :
             (rule.keys = <<>> \/ key \in Range(rule.keys)) =>
                 Write(t, rule.how, key, Value(line)) \in V
  PROVE  ApplyRule(tree, rule, line) \in V
<1>. DEFINE keys == IF rule.keys = <<>> THEN <<line.line>> ELSE rule.keys
            n == Len(keys)
            step == [i \in 1..n |-> [t \in V |-> Write(t, rule.how, keys[i], Value(line))]]
            P(G) == G = [X \in SUBSET DOMAIN keys |->
                          IF X = {} THEN tree
                          ELSE Write(G[X \ {Max(X)}], rule.how, keys[Max(X)], Value(line))]
            C == CHOOSE G : P(G)
<1>1. n \in Nat /\ DOMAIN keys = 1..n
  <2>1. <<line.line>> \in Seq({line.line}) /\ rule.keys \in Seq(S)
    OBVIOUS
  <2>2. \A T : \A s \in Seq(T) : Len(s) \in Nat /\ DOMAIN s = 1..Len(s)
    OBVIOUS
  <2>3. \E T : keys \in Seq(T)
    BY <2>1
  <2>. HIDE DEF keys
  <2>. QED  BY <2>2, <2>3
<1>2. \A i \in 1..n : \A t \in V : Write(t, rule.how, keys[i], Value(line)) \in V
  <2>1. CASE rule.keys = <<>>
    BY <2>1
  <2>2. CASE rule.keys # <<>>
    BY <1>1, <2>2 DEF Range
  <2>. QED  BY <2>1, <2>2
<1>3. ApplyRule(tree, rule, line) = C[DOMAIN keys]
  BY DEF ApplyRule, FoldLeft, MapThenFoldSet
<1>. HIDE DEF keys, n
<1>4. step \in [1..n -> [V -> V]]
  BY <1>2
<1>5. PICK F : FoldsOver(F, n, V, tree, step)
  <2>. HIDE DEF step
  <2>. QED  BY <1>1, <1>4, FoldDefines
<1>6. ASSUME NEW X \in SUBSET (1..n), X # {}
      PROVE  F[X] = Write(F[X \ {Max(X)}], rule.how, keys[Max(X)], Value(line))
  <2>1. Max(X) \in 1..n
    BY <1>1, <1>6, MaxOfNumbers
  <2>2. F[X \ {Max(X)}] \in V /\ F[X] = step[Max(X)][F[X \ {Max(X)}]]
    <3>. HIDE DEF step
    <3>. QED  BY <1>5, <1>6 DEF FoldsOver
  <2>. QED  BY <2>1, <2>2
<1>7. F[{}] = tree /\ F \in [SUBSET (1..n) -> V]
  <2>. HIDE DEF step
  <2>. QED  BY <1>5 DEF FoldsOver
<1>8. P(F)
  <2>. HIDE DEF step
  <2>. QED  BY <1>1, <1>6, <1>7
<1>9. P(C)
  <2>. HIDE DEF P
  <2>. QED  BY <1>8
<1>. HIDE DEF C
<1>10. C[1..n] \in V
  <2>. DEFINE g == [i \in 0..n |-> C[1..i]]
  <2>1. g[0] \in V
    <3>1. 1..0 = {} /\ 0 \in 0..n
      BY <1>1
    <3>. QED  BY <1>1, <1>9, <3>1
  <2>2. ASSUME NEW i \in 1..n, g[i - 1] \in V PROVE g[i] \in V
    <3>1. 1..i \in SUBSET (1..n) /\ 1..i # {} /\ Max(1..i) = i /\ (1..i) \ {i} = 1..i - 1
      BY <1>1, FoldSteps
    <3>2. C[1..i] = Write(C[1..i - 1], rule.how, keys[i], Value(line))
      BY <1>1, <1>9, <3>1
    <3>3. i - 1 \in 0..n /\ i \in 0..n
      BY <1>1
    <3>. QED  BY <1>2, <2>2, <3>2, <3>3
  <2>. HIDE DEF g
  <2>3. \A i \in 0..n : g[i] \in V
    BY <1>1, <2>1, <2>2, StaysIn
  <2>4. n \in 0..n
    BY <1>1
  <2>. QED  BY <2>3, <2>4 DEF g
<1>. QED  BY <1>1, <1>3, <1>10

(* No line is matched by two rules. *)
Apart(rules) ==
    \A i, j \in 1..Len(rules) : \A l \in rules[i].lines : l \in rules[j].lines => i = j

IsSeq(s) == \E S : s \in Seq(S)

(* A rule writes in one of the three ways, under the names of a sequence.  *)
Ordinary(rule) == rule.how \in {"put", "push", "renew"} /\ IsSeq(rule.keys)

Sound(rules) ==
    /\ rules \in Seq(Range(rules))
    /\ Apart(rules)
    /\ \A i \in 1..Len(rules) : Ordinary(rules[i])

LEMMA RulesAreOrdinary ==
  ASSUME NEW l
  PROVE  /\ Ordinary(Scalar(l)) /\ Ordinary(List(l)) /\ Ordinary(Renews(l)) /\ Ordinary(ClockTimes)
         /\ \A x : Ordinary(Puts(l, <<x>>)) /\ Ordinary(Pushes(l, <<x>>))
         /\ \A x, y : Ordinary(Puts(l, <<x, y>>)) /\ Ordinary(Pushes(l, <<x, y>>))
         /\ \A x, y, z : Ordinary(Puts(l, <<x, y, z>>))
<1>1. \A x, y, z : /\ <<>> \in Seq({x}) /\ <<x>> \in Seq({x})
                   /\ <<x, y>> \in Seq({x, y}) /\ <<x, y, z>> \in Seq({x, y, z})
  OBVIOUS
<1>. QED  BY <1>1 DEF Ordinary, IsSeq, Rule, Puts, Pushes, Renews, Scalar, List, ClockTimes

LEMMA Listed ==
  ASSUME NEW n \in Nat, NEW f, f = [i \in 1..n |-> f[i]]
  PROVE  f \in Seq(Range(f))
<1>. DEFINE S == Range(f)
<1>1. DOMAIN f = 1..n
  OBVIOUS
<1>2. \A i \in 1..n : f[i] \in S
  BY <1>1 DEF Range
<1>. HIDE DEF S
<1>3. [i \in 1..n |-> f[i]] \in Seq(S)
  BY <1>2
<1>. QED  BY <1>3 DEF S

LEMMA RuleLines ==
  ASSUME NEW l, NEW keys
  PROVE  /\ Scalar(l).lines = {l} /\ List(l).lines = {l} /\ Renews(l).lines = {l}
         /\ Puts(l, keys).lines = {l} /\ Pushes(l, keys).lines = {l}
         /\ ClockTimes.lines = {"STARTED_AT", "ENDED_AT"}
BY DEF Rule, Puts, Pushes, Renews, Scalar, List, ClockTimes

LEMMA OptRules == Sound(Cp2kOpt.rules)
<1>1. SUFFICES ASSUME NEW rules,
                      rules = <<ClockTimes, Scalar("Mixing_method:"), Scalar("eps_scf:"),
                                Scalar("eps_diis:"), List("ENERGY|_Total"), List("SCF_run_converged_in"),
                                Puts("minimum", <<"optimized">>)>>
               PROVE  Sound(rules)
  BY DEF Cp2kOpt
<1>2. Len(rules) = 7 /\ DOMAIN rules = 1..7
  BY <1>1
<1>3. /\ rules[1].lines = {"STARTED_AT", "ENDED_AT"}
      /\ rules[2].lines = {"Mixing_method:"} /\ rules[3].lines = {"eps_scf:"}
      /\ rules[4].lines = {"eps_diis:"} /\ rules[5].lines = {"ENERGY|_Total"}
      /\ rules[6].lines = {"SCF_run_converged_in"}
      /\ rules[7].lines = {"minimum"}
  BY <1>1, RuleLines
<1>4. \A i \in 1..7 : i = 1 \/ i = 2 \/ i = 3 \/ i = 4 \/ i = 5 \/ i = 6
                       \/ i = 7
  OBVIOUS
<1>5. Apart(rules)
  <2>1. \A i, j \in 1..7 : \A l \in rules[i].lines : l \in rules[j].lines => i = j
    BY <1>3, <1>4
  <2>. QED  BY <1>2, <2>1 DEF Apart
<1>6. \A i \in 1..7 : Ordinary(rules[i])
  BY <1>1, <1>4, RulesAreOrdinary
<1>7. rules \in Seq(Range(rules))
  <2>1. rules = [i \in 1..7 |-> rules[i]]
    BY <1>1, <1>2
  <2>. QED  BY <2>1, Listed
<1>. QED  BY <1>2, <1>5, <1>6, <1>7 DEF Sound

LEMMA MdRules == Sound(Cp2kMd.rules)
<1>1. SUFFICES ASSUME NEW rules,
                      rules = <<ClockTimes, Scalar("THERMOSTAT|_Type_of_thermostat"),
                                Scalar("MD_VEL|_Initial_temperature_[K]"), Renews("MD_VEL|_COM_velocity"),
                                Scalar("Mixing_method:"), Scalar("eps_scf:"), Scalar("eps_diis:"),
                                Scalar("MD_PAR|_Ensemble_type"), Scalar("MD_PAR|_Number_of_time_steps"),
                                Scalar("MD_PAR|_Time_step_[fs]"), Renews("ROT|_Eigenvalues"),
                                Renews("ROT|_x"), Renews("ROT|_y"), Renews("ROT|_z"),
                                Scalar("DOF|_Degrees_of_freedom"), List("ENERGY|_Total"),
                                List("SCF_run_converged_in"), List("MD|_Time_[fs]"),
                                Pushes("MD|_Temperature_[K]",
                                <<"Instantaneous_Temperature", "Average_Temperature">>),
                                Pushes("MD|_Kinetic_energy_[hartree]",
                                <<"Instantaneous_Kinetic", "Average_Kinetic">>)>>
               PROVE  Sound(rules)
  BY DEF Cp2kMd
<1>2. Len(rules) = 20 /\ DOMAIN rules = 1..20
  BY <1>1
<1>3. /\ rules[1].lines = {"STARTED_AT", "ENDED_AT"}
      /\ rules[2].lines = {"THERMOSTAT|_Type_of_thermostat"}
      /\ rules[3].lines = {"MD_VEL|_Initial_temperature_[K]"}
      /\ rules[4].lines = {"MD_VEL|_COM_velocity"}
      /\ rules[5].lines = {"Mixing_method:"} /\ rules[6].lines = {"eps_scf:"}
      /\ rules[7].lines = {"eps_diis:"}
      /\ rules[8].lines = {"MD_PAR|_Ensemble_type"}
      /\ rules[9].lines = {"MD_PAR|_Number_of_time_steps"}
      /\ rules[10].lines = {"MD_PAR|_Time_step_[fs]"}
      /\ rules[11].lines = {"ROT|_Eigenvalues"}
      /\ rules[12].lines = {"ROT|_x"} /\ rules[13].lines = {"ROT|_y"}
      /\ rules[14].lines = {"ROT|_z"}
      /\ rules[15].lines = {"DOF|_Degrees_of_freedom"}
      /\ rules[16].lines = {"ENERGY|_Total"}
      /\ rules[17].lines = {"SCF_run_converged_in"}
      /\ rules[18].lines = {"MD|_Time_[fs]"}
      /\ rules[19].lines = {"MD|_Temperature_[K]"}
      /\ rules[20].lines = {"MD|_Kinetic_energy_[hartree]"}
  BY <1>1, RuleLines
<1>4. \A i \in 1..20 : i = 1 \/ i = 2 \/ i = 3 \/ i = 4 \/ i = 5 \/ i = 6
                       \/ i = 7 \/ i = 8 \/ i = 9 \/ i = 10 \/ i = 11 \/ i = 12
                       \/ i = 13 \/ i = 14 \/ i = 15 \/ i = 16 \/ i = 17
                       \/ i = 18 \/ i = 19 \/ i = 20
  OBVIOUS
<1>5. Apart(rules)
  <2>1. \A i, j \in 1..20 : \A l \in rules[i].lines : l \in rules[j].lines => i = j
    BY <1>3, <1>4
  <2>. QED  BY <1>2, <2>1 DEF Apart
<1>6. \A i \in 1..20 : Ordinary(rules[i])
  BY <1>1, <1>4, RulesAreOrdinary
<1>7. rules \in Seq(Range(rules))
  <2>1. rules = [i \in 1..20 |-> rules[i]]
    BY <1>1, <1>2
  <2>. QED  BY <2>1, Listed
<1>. QED  BY <1>2, <1>5, <1>6, <1>7 DEF Sound

LEMMA QeRules == Sound(QeOpt.rules)
<1>1. SUFFICES ASSUME NEW rules,
                      rules = <<Puts("starts_on", <<"qe-version", "start-date", "start-time">>),
                                Puts("terminated_on", <<"end-date", "end-time">>),
                                Puts("number_of_atoms/cell", <<"num-atoms-per-cell">>),
                                Puts("lattice_parameter_(alat)", <<"alat">>),
                                Pushes("!_total_energy", <<"energy">>)>>
               PROVE  Sound(rules)
  BY DEF QeOpt
<1>2. Len(rules) = 5 /\ DOMAIN rules = 1..5
  BY <1>1
<1>3. /\ rules[1].lines = {"starts_on"} /\ rules[2].lines = {"terminated_on"}
      /\ rules[3].lines = {"number_of_atoms/cell"}
      /\ rules[4].lines = {"lattice_parameter_(alat)"}
      /\ rules[5].lines = {"!_total_energy"}
  BY <1>1, RuleLines
<1>4. \A i \in 1..5 : i = 1 \/ i = 2 \/ i = 3 \/ i = 4 \/ i = 5
  OBVIOUS
<1>5. Apart(rules)
  <2>1. \A i, j \in 1..5 : \A l \in rules[i].lines : l \in rules[j].lines => i = j
    BY <1>3, <1>4
  <2>. QED  BY <1>2, <2>1 DEF Apart
<1>6. \A i \in 1..5 : Ordinary(rules[i])
  BY <1>1, <1>4, RulesAreOrdinary
<1>7. rules \in Seq(Range(rules))
  <2>1. rules = [i \in 1..5 |-> rules[i]]
    BY <1>1, <1>2
  <2>. QED  BY <2>1, Listed
<1>. QED  BY <1>2, <1>5, <1>6, <1>7 DEF Sound

LEMMA ElkRules == Sound(ElkOpt.rules)
<1>1. SUFFICES ASSUME NEW rules,
                      rules = <<Puts("Elk_code_version", <<"elk-version">>),
                                Puts("Total_number_of_threads", <<"threads">>)>>
               PROVE  Sound(rules)
  BY DEF ElkOpt
<1>2. Len(rules) = 2 /\ DOMAIN rules = 1..2
  BY <1>1
<1>3. /\ rules[1].lines = {"Elk_code_version"}
      /\ rules[2].lines = {"Total_number_of_threads"}
  BY <1>1, RuleLines
<1>4. \A i \in 1..2 : i = 1 \/ i = 2
  OBVIOUS
<1>5. Apart(rules)
  <2>1. \A i, j \in 1..2 : \A l \in rules[i].lines : l \in rules[j].lines => i = j
    BY <1>3, <1>4
  <2>. QED  BY <1>2, <2>1 DEF Apart
<1>6. \A i \in 1..2 : Ordinary(rules[i])
  BY <1>1, <1>4, RulesAreOrdinary
<1>7. rules \in Seq(Range(rules))
  <2>1. rules = [i \in 1..2 |-> rules[i]]
    BY <1>1, <1>2
  <2>. QED  BY <2>1, Listed
<1>. QED  BY <1>2, <1>5, <1>6, <1>7 DEF Sound

LEMMA OctopusRules == Sound(OctopusOpt.rules)
<1>1. SUFFICES ASSUME NEW rules,
                      rules = <<Puts("Version", <<"octopus-version">>),
                                Puts("Calculation_started_on", <<"start-date", "start-time">>),
                                Puts("Calculation_ended_on", <<"end-date", "end-time">>),
                                Puts("Octopus_will_run_in", <<"dimension">>),
                                Puts("Symmetry_group", <<"symmetry-group">>),
                                Pushes("Energy", <<"energy">>), Pushes("Max_force", <<"max-force">>),
                                Pushes("SCF_converged_in", <<"scf-convergence">>),
                                Pushes("Max_dr", <<"max-dr">>)>>
               PROVE  Sound(rules)
  BY DEF OctopusOpt
<1>2. Len(rules) = 9 /\ DOMAIN rules = 1..9
  BY <1>1
<1>3. /\ rules[1].lines = {"Version"}
      /\ rules[2].lines = {"Calculation_started_on"}
      /\ rules[3].lines = {"Calculation_ended_on"}
      /\ rules[4].lines = {"Octopus_will_run_in"}
      /\ rules[5].lines = {"Symmetry_group"} /\ rules[6].lines = {"Energy"}
      /\ rules[7].lines = {"Max_force"}
      /\ rules[8].lines = {"SCF_converged_in"} /\ rules[9].lines = {"Max_dr"}
  BY <1>1, RuleLines
<1>4. \A i \in 1..9 : i = 1 \/ i = 2 \/ i = 3 \/ i = 4 \/ i = 5 \/ i = 6
                       \/ i = 7 \/ i = 8 \/ i = 9
  OBVIOUS
<1>5. Apart(rules)
  <2>1. \A i, j \in 1..9 : \A l \in rules[i].lines : l \in rules[j].lines => i = j
    BY <1>3, <1>4
  <2>. QED  BY <1>2, <2>1 DEF Apart
<1>6. \A i \in 1..9 : Ordinary(rules[i])
  <2>1. /\ Ordinary(rules[1]) /\ Ordinary(rules[2]) /\ Ordinary(rules[3])
        /\ Ordinary(rules[4]) /\ Ordinary(rules[5]) /\ Ordinary(rules[6])
        /\ Ordinary(rules[7]) /\ Ordinary(rules[8]) /\ Ordinary(rules[9])
    BY <1>1, RulesAreOrdinary
  <2>. QED  BY <1>4, <2>1
<1>7. rules \in Seq(Range(rules))
  <2>1. rules = [i \in 1..9 |-> rules[i]]
    BY <1>1, <1>2
  <2>. QED  BY <2>1, Listed
<1>. QED  BY <1>2, <1>5, <1>6, <1>7 DEF Sound

LEMMA GamessRules == Sound(GamessOpt.rules)
<1>1. SUFFICES ASSUME NEW rules,
                      rules = <<Puts("GAMESS_VERSION_=", <<"gamessus-version">>),
                                Puts("EXECUTION_OF_GAMESS_BEGUN", <<"start-time", "start-date">>),
                                Pushes("TOTAL_ENERGY_=", <<"energy">>)>>
               PROVE  Sound(rules)
  BY DEF GamessOpt
<1>2. Len(rules) = 3 /\ DOMAIN rules = 1..3
  BY <1>1
<1>3. /\ rules[1].lines = {"GAMESS_VERSION_="}
      /\ rules[2].lines = {"EXECUTION_OF_GAMESS_BEGUN"}
      /\ rules[3].lines = {"TOTAL_ENERGY_="}
  BY <1>1, RuleLines
<1>4. \A i \in 1..3 : i = 1 \/ i = 2 \/ i = 3
  OBVIOUS
<1>5. Apart(rules)
  <2>1. \A i, j \in 1..3 : \A l \in rules[i].lines : l \in rules[j].lines => i = j
    BY <1>3, <1>4
  <2>. QED  BY <1>2, <2>1 DEF Apart
<1>6. \A i \in 1..3 : Ordinary(rules[i])
  BY <1>1, <1>4, RulesAreOrdinary
<1>7. rules \in Seq(Range(rules))
  <2>1. rules = [i \in 1..3 |-> rules[i]]
    BY <1>1, <1>2
  <2>. QED  BY <2>1, Listed
<1>. QED  BY <1>2, <1>5, <1>6, <1>7 DEF Sound

LEMMA NwchemRules == Sound(NwchemOpt.rules)
<1>1. SUFFICES ASSUME NEW rules,
                      rules = <<Puts("Northwest_Computational_Chemistry_Package", <<"nwchem-version">>),
                                Puts("date_=", <<"start-time">>),
                                Puts("Total_times_cpu", <<"total-time">>),
                                Pushes("Total_DFT_energy_=", <<"energy">>)>>
               PROVE  Sound(rules)
  BY DEF NwchemOpt
<1>2. Len(rules) = 4 /\ DOMAIN rules = 1..4
  BY <1>1
<1>3. /\ rules[1].lines = {"Northwest_Computational_Chemistry_Package"}
      /\ rules[2].lines = {"date_="} /\ rules[3].lines = {"Total_times_cpu"}
      /\ rules[4].lines = {"Total_DFT_energy_="}
  BY <1>1, RuleLines
<1>4. \A i \in 1..4 : i = 1 \/ i = 2 \/ i = 3 \/ i = 4
  OBVIOUS
<1>5. Apart(rules)
  <2>1. \A i, j \in 1..4 : \A l \in rules[i].lines : l \in rules[j].lines => i = j
    BY <1>3, <1>4
  <2>. QED  BY <1>2, <2>1 DEF Apart
<1>6. \A i \in 1..4 : Ordinary(rules[i])
  BY <1>1, <1>4, RulesAreOrdinary
<1>7. rules \in Seq(Range(rules))
  <2>1. rules = [i \in 1..4 |-> rules[i]]
    BY <1>1, <1>2
  <2>. QED  BY <2>1, Listed
<1>. QED  BY <1>2, <1>5, <1>6, <1>7 DEF Sound

(* The rules of every class: no two match one line.                        *)
LEMMA RulesAreSound ==
  ASSUME NEW c \in DOMAIN Classes
  PROVE  Sound(Rules(c))
<1>1. DOMAIN Classes = {"opt", "vcopt", "md", "qe", "elk", "octopus", "gamessus", "nwchem"}
  BY DEF Classes
<1>2. Cp2kVcOpt.rules = Cp2kOpt.rules
  BY DEF Cp2kOpt, Cp2kVcOpt
<1>3. /\ Classes["opt"] = Cp2kOpt /\ Classes["vcopt"] = Cp2kVcOpt /\ Classes["md"] = Cp2kMd
      /\ Classes["qe"] = QeOpt /\ Classes["elk"] = ElkOpt /\ Classes["octopus"] = OctopusOpt
      /\ Classes["gamessus"] = GamessOpt /\ Classes["nwchem"] = NwchemOpt
  BY DEF Classes
<1>. QED  BY <1>1, <1>2, <1>3, OptRules, MdRules, QeRules, ElkRules, OctopusRules, GamessRules,
             NwchemRules DEF Rules

-----------------------------------------------------------------------------
(* Shares.  A line changes the tree in the share of one thread.            *)

(* n rules are shared out to four threads completely and without overlap,  *)
(* whatever n is (post.cpp:77-100).                                        *)
THEOREM ThreadsShareRules ==
  ASSUME NEW n \in Nat, NEW r \in 1..n
  PROVE  \E t \in Threads : r \in Partition(n, t) /\ \A u \in Threads : r \in Partition(n, u) => u = t
<1>. DEFINE b == n \div 4
            m == n % 4
<1>1. b \in Nat /\ m \in 0..3 /\ n = 4 * b + m
  OBVIOUS
<1>2. \A t \in Threads : Partition(n, t) = Before(n, t) + 1 .. Before(n, t) + Share(n, t)
  BY DEF Partition
<1>3. \A t \in 1..3 : Before(n, t) + Share(n, t) = Before(n, t + 1)
  BY <1>1 DEF Before, Share
<1>4. Before(n, 1) = 0 /\ Before(n, 4) + Share(n, 4) = n
  BY <1>1 DEF Before, Share
<1>5. \A t \in Threads : Before(n, t) \in Nat /\ Share(n, t) \in Nat
  BY <1>1 DEF Before, Share, Threads
<1>6. /\ Before(n, 1) + Share(n, 1) = Before(n, 2)
      /\ Before(n, 2) + Share(n, 2) = Before(n, 3)
      /\ Before(n, 3) + Share(n, 3) = Before(n, 4)
  BY <1>3
<1>7. Threads = {1, 2, 3, 4}
  BY DEF Threads
<1>. HIDE DEF b, m
<1>8. PICK t \in Threads : Before(n, t) < r /\ r <= Before(n, t) + Share(n, t)
  BY <1>4, <1>5, <1>6, <1>7
<1>9. ASSUME NEW u \in Threads, Before(n, u) < r, r <= Before(n, u) + Share(n, u)
      PROVE  u = t
  BY <1>4, <1>5, <1>6, <1>7, <1>8, <1>9
<1>10. \A u \in Threads : r \in Partition(n, u) <=> Before(n, u) < r /\ r <= Before(n, u) + Share(n, u)
  BY <1>2, <1>5
<1>. QED  BY <1>8, <1>9, <1>10


LEMMA SharesFollow ==
  ASSUME NEW n \in Nat
  PROVE  /\ \A t \in Threads : /\ Before(n, t) \in Nat /\ Share(n, t) \in Nat
                               /\ Before(n, t) + Share(n, t) <= n
         /\ \A t \in Threads : Partition(n, t) = Before(n, t) + 1 .. Before(n, t) + Share(n, t)
<1>. DEFINE b == n \div 4
            m == n % 4
<1>1. b \in Nat /\ m \in 0..3 /\ n = 4 * b + m
  OBVIOUS
<1>2. \A t \in Threads : Before(n, t) \in Nat /\ Share(n, t) \in Nat
  BY <1>1 DEF Before, Share, Threads
<1>3. \A t \in 1..3 : Before(n, t) + Share(n, t) = Before(n, t + 1)
  BY <1>1 DEF Before, Share
<1>4. Before(n, 1) = 0 /\ Before(n, 4) + Share(n, 4) = n
  BY <1>1 DEF Before, Share
<1>5. /\ Before(n, 1) + Share(n, 1) = Before(n, 2)
      /\ Before(n, 2) + Share(n, 2) = Before(n, 3)
      /\ Before(n, 3) + Share(n, 3) = Before(n, 4)
  BY <1>3
<1>6. Threads = {1, 2, 3, 4}
  BY DEF Threads
<1>. HIDE DEF b, m
<1>7. \A t \in Threads : Before(n, t) + Share(n, t) <= n
  BY <1>2, <1>4, <1>5, <1>6
<1>. QED  BY <1>2, <1>7 DEF Partition

(* The share of a thread: its rules, in their order.                       *)
LEMMA ShareOfThread ==
  ASSUME NEW S, NEW rules \in Seq(S), NEW t \in Threads
  PROVE  LET part == RulesOf(rules, t)
             b == Before(Len(rules), t)
         IN  /\ part \in Seq(S)
             /\ \A i \in 1..Len(part) : b + i \in Partition(Len(rules), t) /\ part[i] = rules[b + i]
             /\ \A r \in Partition(Len(rules), t) : r \in 1..Len(rules) /\ r - b \in 1..Len(part)
<1>. DEFINE n == Len(rules)
            b == Before(n, t)
            k == Share(n, t)
            part == RulesOf(rules, t)
<1>1. n \in Nat
  OBVIOUS
<1>2. b \in Nat /\ k \in Nat /\ b + k <= n /\ Partition(n, t) = b + 1 .. b + k
  <2>. HIDE DEF n
  <2>. QED  BY <1>1, SharesFollow
<1>3. part = SubSeq(rules, b + 1, b + k)
  BY DEF RulesOf
<1>. HIDE DEF b, k, part
<1>4. part \in Seq(S) /\ Len(part) = k
  BY <1>2, <1>3
<1>5. \A i \in 1..k : part[i] = rules[b + i]
  BY <1>2, <1>3
<1>6. \A i \in 1..k : b + i \in b + 1 .. b + k
  BY <1>2
<1>7. \A r \in b + 1 .. b + k : r \in 1..n /\ r - b \in 1..k
  BY <1>1, <1>2
<1>. QED  BY <1>2, <1>4, <1>5, <1>6, <1>7 DEF part, b

Finds(t, rules, line) == \E r \in Range(RulesOf(rules, t)) : line.line \in r.lines

LEMMA FindsInShare ==
  ASSUME NEW rules, Sound(rules), NEW t \in Threads, NEW line
  PROVE  Finds(t, rules, line) <=> \E r \in Partition(Len(rules), t) : line.line \in rules[r].lines
<1>. DEFINE part == RulesOf(rules, t)
            b == Before(Len(rules), t)
            P == Partition(Len(rules), t)
            S == Range(rules)
<1>1. rules \in Seq(S)
  BY DEF Sound
<1>2. /\ part \in Seq(S)
      /\ \A i \in 1..Len(part) : b + i \in P /\ part[i] = rules[b + i]
      /\ \A r \in P : r \in 1..Len(rules) /\ r - b \in 1..Len(part)
  <2>. HIDE DEF S
  <2>. QED  BY <1>1, ShareOfThread
<1>3. b \in Nat
  <2>1. Len(rules) \in Nat
    BY <1>1
  <2>. QED  BY <2>1, SharesFollow
<1>4. DOMAIN part = 1..Len(part)
  <2>. HIDE DEF part, S
  <2>. QED  BY <1>2
<1>. HIDE DEF part, b, P, S
<1>5. \A r \in P : r - b \in 1..Len(part) /\ part[r - b] = rules[r]
  BY <1>2, <1>3
<1>. QED  BY <1>2, <1>4, <1>5 DEF Finds, Range, part, P

(* One thread at most finds a match in a line, and what it does to the     *)
(* tree is what all the rules do.                                          *)
LEMMA OneThreadAtWork ==
  ASSUME NEW rules, Sound(rules), NEW t \in Threads, NEW line, Finds(t, rules, line), NEW tree
  PROVE  /\ \A u \in Threads : Finds(u, rules, line) => u = t
         /\ ApplyRules(tree, RulesOf(rules, t), line) = ApplyRules(tree, rules, line)
<1>. DEFINE part == RulesOf(rules, t)
            n == Len(rules)
            b == Before(n, t)
            S == Range(rules)
<1>1. rules \in Seq(S) /\ n \in Nat
  BY DEF Sound
<1>2. /\ part \in Seq(S)
      /\ \A i \in 1..Len(part) : b + i \in Partition(n, t) /\ part[i] = rules[b + i]
      /\ \A r \in Partition(n, t) : r \in 1..n /\ r - b \in 1..Len(part)
  <2>. HIDE DEF S
  <2>. QED  BY <1>1, ShareOfThread
<1>3. PICK a \in Partition(n, t) : line.line \in rules[a].lines
  BY FindsInShare
<1>4. a \in 1..n /\ a - b \in 1..Len(part) /\ b \in Nat
  BY <1>1, <1>2, <1>3, SharesFollow
<1>5. \A i \in 1..n : line.line \in rules[i].lines <=> i = a
  BY <1>3, <1>4 DEF Sound, Apart
<1>6. ASSUME NEW u \in Threads, Finds(u, rules, line) PROVE u = t
  <2>1. PICK r \in Partition(n, u) : line.line \in rules[r].lines
    BY <1>6, FindsInShare
  <2>2. r \in 1..n
    <3>. HIDE DEF S, n
    <3>1. \A q \in Partition(Len(rules), u) : q \in 1..Len(rules)
      BY <1>1, ShareOfThread
    <3>. QED  BY <2>1, <3>1 DEF n
  <2>3. r = a
    BY <1>5, <2>1, <2>2
  <2>. HIDE DEF n
  <2>4. \E v \in Threads : \A w \in Threads : a \in Partition(n, w) => w = v
    BY <1>1, <1>4, ThreadsShareRules
  <2>. QED  BY <1>3, <2>1, <2>3, <2>4
<1>7. ApplyRules(tree, rules, line) = ApplyRule(tree, rules[a], line)
  <2>. HIDE DEF S, n
  <2>1. a \in 0..Len(rules) /\ a # 0
    BY <1>1, <1>4 DEF n
  <2>2. \A i \in 1..Len(rules) : line.line \in rules[i].lines <=> i = a
    BY <1>5 DEF n
  <2>. QED  BY <1>1, <2>1, <2>2, OneRuleApplies
<1>8. ApplyRules(tree, part, line) = ApplyRule(tree, part[a - b], line)
  <2>. DEFINE c == a - b
  <2>. HIDE DEF S, n, b, part
  <2>1. c \in 0..Len(part) /\ c # 0
    BY <1>2, <1>4
  <2>2. \A i \in 1..Len(part) : b + i \in 1..n /\ part[i] = rules[b + i]
    BY <1>2
  <2>3. \A i \in 1..Len(part) : b + i = a <=> i = c
    BY <1>1, <1>4
  <2>4. \A i \in 1..Len(part) : line.line \in part[i].lines <=> i = c
    BY <1>5, <2>2, <2>3
  <2>. HIDE DEF c
  <2>5. ApplyRules(tree, part, line) = ApplyRule(tree, part[c], line)
    BY <1>2, <2>1, <2>4, OneRuleApplies
  <2>. QED  BY <2>5 DEF c
<1>9. part[a - b] = rules[a]
  <2>. HIDE DEF S, n, b, part
  <2>1. b + (a - b) = a
    BY <1>1, <1>4
  <2>. QED  BY <1>2, <1>4, <2>1
<1>. QED  BY <1>6, <1>7, <1>8, <1>9

LEMMA NoThreadAtWork ==
  ASSUME NEW rules, Sound(rules), NEW line, \A t \in Threads : ~Finds(t, rules, line), NEW tree
  PROVE  ApplyRules(tree, rules, line) = tree
<1>. DEFINE n == Len(rules)
            S == Range(rules)
<1>1. rules \in Seq(S) /\ n \in Nat
  BY DEF Sound
<1>2. ASSUME NEW r \in 1..n PROVE line.line \notin rules[r].lines
  <2>1. PICK t \in Threads : r \in Partition(n, t)
    <3>. HIDE DEF n
    <3>. QED  BY <1>1, ThreadsShareRules
  <2>. QED  BY <2>1, FindsInShare
<1>. HIDE DEF S
<1>3. 0 \in 0..Len(rules) /\ \A i \in 1..Len(rules) : line.line \in rules[i].lines <=> i = 0
  BY <1>1, <1>2
<1>. QED  BY <1>1, <1>3, OneRuleApplies

-----------------------------------------------------------------------------
(* Frames.  What the files of a calculation hold when they are read.       *)

-----------------------------------------------------------------------------
Over == phase \in {"converged", "cut"}

(* The files of a calculation are at most one step apart, and not at all   *)
(* once it is over.                                                        *)
FilesInv ==
    /\ class \in DOMAIN Classes
    /\ pass \in Nat
    /\ wrote \in [Files -> Nat]
    /\ phase \in {"none", "running", "converged", "cut"}
    /\ pass = 0 => phase = "none" /\ wrote["cell"] = 0
    /\ \A f, g \in Written(class) : StepsIn(f) <= StepsIn(g) + 1
    /\ Over => \A f \in Written(class) : StepsIn(f) = wrote["out"]

(* A frame of this execution is one the calculation has written.           *)
OfFile(x) ==
    /\ x \in Nat \X Nat
    /\ x[1] <= pass
    /\ x[1] = pass => x[2] <= StepsIn("pos")

(* Only CP2K's classes read positions and then the cell; between the two   *)
(* run() holds a frame, the last one if the calculation was over before.   *)
RunInv ==
    /\ pc \in {"pos", "cell"} => HasCp2kStructure(class)
    /\ pc \in {"out", "geometry", "min"} => ~HasCp2kStructure(class)
    /\ began \in Nat /\ began <= pass
    /\ began = pass /\ pass # 0 => Over
    /\ pc = "cell" => OfFile(frame)
    /\ pc = "cell" /\ began = pass /\ pass # 0 => frame = <<pass, StepsIn("pos")>>

Whole(s) ==
    /\ OfFile(s.frame)
    /\ s.frame[2] > 0
    /\ s.frame[1] = s.cell[1] => s.cell[2] >= s.frame[2] - 1

SavedInv == HasCp2kStructure(class) => \A name \in DOMAIN post \ {"json"} : Whole(post[name])

IInv == FilesInv /\ RunInv /\ SavedInv

-----------------------------------------------------------------------------
LEMMA ReadsAfterRules ==
  ASSUME NEW c \in DOMAIN Classes, Classes[c].after # <<>>
  PROVE  /\ Head(Classes[c].after) \in {"pos", "out", "geometry", "min"}
         /\ Head(Classes[c].after) = "pos" <=> HasCp2kStructure(c)
<1>1. DOMAIN Classes = {"opt", "vcopt", "md", "qe", "elk", "octopus", "gamessus", "nwchem"}
  BY DEF Classes
<1>2. /\ Classes["opt"].after = <<"pos", "cell">> /\ Classes["vcopt"].after = <<"pos", "cell">>
      /\ Classes["md"].after = <<>> /\ Classes["qe"].after = <<"out">>
      /\ Classes["elk"].after = <<"geometry">> /\ Classes["octopus"].after = <<"min">>
      /\ Classes["gamessus"].after = <<>> /\ Classes["nwchem"].after = <<>>
  BY DEF Classes, Cp2kOpt, Cp2kVcOpt, Cp2kMd, QeOpt, ElkOpt, OctopusOpt, GamessOpt, NwchemOpt
<1>. QED  BY <1>1, <1>2 DEF HasCp2kStructure

LEMMA WrittenFiles ==
  /\ Written(class) \subseteq Files
  /\ "out" \in Written(class)
  /\ HasCp2kStructure(class) => {"pos", "cell"} \subseteq Written(class)
  BY DEF Written, Files, HasCp2kStructure

LEMMA StepsType ==
  ASSUME wrote \in [Files -> Nat]
  PROVE  \A f \in Files : StepsIn(f) \in Nat
  BY DEF StepsIn, Files

LEMMA IInvInit == Init => IInv
<1>. SUFFICES ASSUME Init PROVE IInv
  OBVIOUS
<1>1. /\ pass = 0 /\ phase = "none" /\ wrote = [f \in Files |-> 0]
      /\ pc = "none" /\ began = 0 /\ DOMAIN post = {} /\ class \in DOMAIN Classes
  BY PostAssumption DEF Init, PostAssumption
<1>2. \A f \in Files : StepsIn(f) = 0
  BY <1>1 DEF StepsIn, Files
<1>3. FilesInv
  BY <1>1, <1>2, WrittenFiles DEF FilesInv, Over, Files
<1>4. RunInv /\ SavedInv
  BY <1>1 DEF RunInv, SavedInv
<1>. QED  BY <1>3, <1>4 DEF IInv

(* What the calculation does to its files: it starts again with empty ones *)
(* or goes on writing them, and nothing more once it is over.              *)
LEMMA CalculationGoesOn ==
  ASSUME FilesInv, Calculate
  PROVE  /\ FilesInv'
         /\ UNCHANGED <<class, pc, began, frame, post, info>>
         /\ \/ pass' = pass + 1
            \/ pass' = pass /\ ~Over /\ StepsIn("pos") <= StepsIn("pos")'
<1>0. /\ pass \in Nat /\ wrote \in [Files -> Nat] /\ class \in DOMAIN Classes
      /\ \A f \in Files : StepsIn(f) \in Nat
  BY StepsType DEF FilesInv
<1>1. CASE Start
  <2>1. wrote' = [f \in Files |-> 0] /\ pass' = pass + 1 /\ phase' = "running"
    BY <1>1 DEF Start
  <2>2. UNCHANGED <<class, pc, began, frame, post, info>>
    BY <1>1 DEF Start, object
  <2>3. \A f \in Files : StepsIn(f)' = 0
    BY <2>1 DEF StepsIn, Files
  <2>4. Written(class)' = Written(class)
    BY <2>2 DEF Written
  <2>5. FilesInv'
    BY <1>0, <2>1, <2>2, <2>3, <2>4, WrittenFiles DEF FilesInv, Over
  <2>. QED  BY <2>1, <2>2, <2>5
<1>2. ASSUME NEW f \in Files, WriteFile(f)
      PROVE  /\ FilesInv' /\ pass' = pass /\ ~Over /\ StepsIn("pos") <= StepsIn("pos")'
             /\ UNCHANGED <<class, pc, began, frame, post, info>>
  <2>1. /\ wrote' = [wrote EXCEPT ![f] = @ + 1] /\ phase = "running"
        /\ UNCHANGED <<pass, phase>> /\ f \in Written(class)
        /\ \A g \in Written(class) : StepsIn(f) <= StepsIn(g)
    BY <1>2 DEF WriteFile
  <2>2. UNCHANGED <<class, pc, began, frame, post, info>>
    BY <1>2 DEF WriteFile, object
  <2>3. wrote' \in [Files -> Nat] /\ \A g \in Files : g # f => wrote'[g] = wrote[g]
    BY <1>0, <2>1
  <2>4. wrote'[f] = wrote[f] + 1
    BY <1>0, <2>1
  <2>5. \A g \in Files : g # f => StepsIn(g)' = StepsIn(g)
    BY <2>3 DEF StepsIn, Files
  <2>6. StepsIn(f)' \in Nat /\ StepsIn(f) <= StepsIn(f)' /\ StepsIn(f)' <= StepsIn(f) + 1
    BY <1>0, <2>3, <2>4 DEF StepsIn, Files
  <2>7. Written(class)' = Written(class)
    BY <2>2 DEF Written
  <2>8. \A g, h \in Written(class) : StepsIn(g)' <= StepsIn(h)' + 1
    <3>. SUFFICES ASSUME NEW g \in Written(class), NEW h \in Written(class)
                  PROVE  StepsIn(g)' <= StepsIn(h)' + 1
      OBVIOUS
    <3>0. g \in Files /\ h \in Files
      BY WrittenFiles
    <3>1. StepsIn(g) <= StepsIn(h) + 1 /\ StepsIn(f) <= StepsIn(h)
      BY <2>1 DEF FilesInv
    <3>2. StepsIn(h) <= StepsIn(h)'
      BY <1>0, <2>5, <2>6, <3>0
    <3>3. CASE g = f
      BY <1>0, <2>5, <2>6, <3>0, <3>1, <3>2, <3>3
    <3>4. CASE g # f
      BY <1>0, <2>5, <2>6, <3>0, <3>1, <3>2, <3>4
    <3>. QED  BY <3>3, <3>4
  <2>9. pass # 0
    BY <2>1 DEF FilesInv
  <2>10. FilesInv'
    BY <1>0, <2>1, <2>2, <2>3, <2>7, <2>8, <2>9 DEF FilesInv, Over
  <2>11. StepsIn("pos") <= StepsIn("pos")'
    BY <1>0, <2>5, <2>6 DEF Files
  <2>. QED  BY <2>1, <2>2, <2>10, <2>11 DEF Over
<1>3. ASSUME NEW how \in {"converged", "cut"}, End(how)
      PROVE  /\ FilesInv' /\ pass' = pass /\ ~Over /\ StepsIn("pos") <= StepsIn("pos")'
             /\ UNCHANGED <<class, pc, began, frame, post, info>>
  <2>1. /\ UNCHANGED <<class, pass, wrote>> /\ phase = "running" /\ phase' = how
        /\ \A f \in Written(class) : StepsIn(f) = wrote["out"]
    BY <1>3 DEF End
  <2>2. UNCHANGED <<class, pc, began, frame, post, info>>
    BY <1>3 DEF End, object
  <2>3. Written(class)' = Written(class) /\ \A f \in Files : StepsIn(f)' = StepsIn(f)
    BY <2>1 DEF Written, StepsIn
  <2>4. FilesInv'
    BY <1>0, <2>1, <2>3, WrittenFiles DEF FilesInv, Over
  <2>. QED  BY <1>0, <2>1, <2>2, <2>3, <2>4 DEF Over, Files
<1>. QED  BY <1>1, <1>2, <1>3 DEF Calculate

LEMMA CalculationStays ==
  ASSUME FilesInv, UNCHANGED calculation
  PROVE  /\ FilesInv'
         /\ HasCp2kStructure(class)' = HasCp2kStructure(class)
         /\ Over' = Over
         /\ \A f \in Files : StepsIn(f)' = StepsIn(f)
         /\ \A x : OfFile(x)' = OfFile(x)
<1>1. UNCHANGED <<class, pass, wrote, phase>>
  BY DEF calculation
<1>2. \A f \in Files : StepsIn(f)' = StepsIn(f)
  BY <1>1 DEF StepsIn
<1>3. Written(class)' = Written(class) /\ HasCp2kStructure(class)' = HasCp2kStructure(class) /\ Over' = Over
  BY <1>1 DEF Written, Over
<1>4. FilesInv'
  BY <1>1, <1>2, <1>3, WrittenFiles DEF FilesInv
<1>5. \A x : OfFile(x)' = OfFile(x)
  BY <1>1, <1>2 DEF OfFile, Files
<1>. QED  BY <1>2, <1>3, <1>4, <1>5

(* Neither what was saved nor the frame run() holds is made wrong by what  *)
(* the calculation does meanwhile.                                         *)
LEMMA CalculationKeepsRuns ==
  ASSUME IInv, Calculate
  PROVE  IInv'
<1>1. /\ FilesInv' /\ UNCHANGED <<class, pc, began, frame, post, info>>
      /\ \/ pass' = pass + 1
         \/ pass' = pass /\ ~Over /\ StepsIn("pos") <= StepsIn("pos")'
  BY CalculationGoesOn DEF IInv
<1>2. /\ pass \in Nat /\ StepsIn("pos") \in Nat /\ StepsIn("pos")' \in Nat
      /\ began \in Nat /\ began <= pass
  BY <1>1, StepsType DEF IInv, FilesInv, RunInv, StepsIn, Files
<1>3. \A x : OfFile(x) => OfFile(x)'
  BY <1>1, <1>2 DEF OfFile
<1>4. ~(began' = pass' /\ pass' # 0)
  BY <1>1, <1>2 DEF IInv, RunInv
<1>5. RunInv'
  <2>1. began' \in Nat /\ began' <= pass'
    BY <1>1, <1>2
  <2>2. pc' = "cell" => OfFile(frame)'
    BY <1>1, <1>3 DEF IInv, RunInv
  <2>3. /\ pc' \in {"pos", "cell"} => HasCp2kStructure(class)'
        /\ pc' \in {"out", "geometry", "min"} => ~HasCp2kStructure(class)'
    BY <1>1 DEF IInv, RunInv
  <2>. QED  BY <1>4, <2>1, <2>2, <2>3 DEF RunInv
<1>6. SavedInv'
  BY <1>1, <1>3 DEF IInv, SavedInv, Whole
<1>. QED  BY <1>1, <1>5, <1>6 DEF IInv

(* A call of run() that leaves the calculation and the saved structures    *)
(* alone.                                                                  *)
LEMMA SavedStays ==
  ASSUME IInv, UNCHANGED calculation, post' = post \/ post' = Save("json", info)
  PROVE  SavedInv'
<1>1. /\ HasCp2kStructure(class)' = HasCp2kStructure(class)
      /\ \A x : OfFile(x)' = OfFile(x)
  BY CalculationStays DEF IInv
<1>2. \A name \in DOMAIN post' \ {"json"} : name \in DOMAIN post /\ post'[name] = post[name]
  BY DEF Save
<1>. QED  BY <1>1, <1>2 DEF IInv, SavedInv, Whole

LEMMA IInvNext == IInv /\ [Next]_vars => IInv'
<1>. SUFFICES ASSUME IInv, [Next]_vars PROVE IInv'
  OBVIOUS
<1>0. /\ FilesInv /\ RunInv /\ SavedInv /\ pass \in Nat
  BY DEF IInv, FilesInv
<1>1. CASE Calculate
  BY <1>1, CalculationKeepsRuns
<1>2. ASSUME UNCHANGED calculation
      PROVE  /\ FilesInv' /\ HasCp2kStructure(class)' = HasCp2kStructure(class) /\ Over' = Over
             /\ StepsIn("pos")' = StepsIn("pos") /\ UNCHANGED <<class, pass, wrote, phase>>
             /\ \A x : OfFile(x)' = OfFile(x)
  BY <1>0, <1>2, CalculationStays DEF Files, calculation
<1>3. ASSUME UNCHANGED <<calculation, post, began, frame>>,
             pc' \notin {"pos", "cell", "out", "geometry", "min"} \/ pc' = pc
      PROVE  IInv'
  <2>1. UNCHANGED calculation
    BY <1>3
  <2>2. SavedInv'
    BY <1>3, <2>1, SavedStays
  <2>3. RunInv'
    BY <1>0, <1>2, <1>3, <2>1 DEF RunInv
  <2>. QED  BY <1>2, <2>1, <2>2, <2>3 DEF IInv
<1>4. CASE Construct
  BY <1>3, <1>4 DEF Construct
<1>5. CASE BeginRun
  <2>1. /\ UNCHANGED calculation /\ post' = post /\ pc' = "open"
        /\ began' = IF Over THEN pass ELSE 0
    BY <1>5 DEF BeginRun, Over
  <2>2. SavedInv'
    BY <2>1, SavedStays
  <2>3. RunInv'
    BY <1>0, <1>2, <2>1 DEF RunInv
  <2>. QED  BY <1>2, <2>1, <2>2, <2>3 DEF IInv
<1>6. CASE ReadLines
  BY <1>3, <1>6 DEF ReadLines
<1>7. ASSUME NEW t \in Threads, Thread(t)
      PROVE  IInv'
  BY <1>3, <1>7 DEF Thread
<1>8. CASE Join
  BY <1>3, <1>8 DEF Join
<1>9. CASE WriteJson
  <2>1. /\ UNCHANGED <<calculation, began, frame>> /\ post' = Save("json", info)
        /\ pc' = IF Classes[class].after = <<>> THEN "idle" ELSE Head(Classes[class].after)
    BY <1>9 DEF WriteJson
  <2>2. SavedInv'
    BY <2>1, SavedStays
  <2>3. /\ pc' \in {"idle", "pos", "out", "geometry", "min"}
        /\ pc' = "pos" => HasCp2kStructure(class)
        /\ pc' \in {"out", "geometry", "min"} => ~HasCp2kStructure(class)
    BY <1>0, <2>1, ReadsAfterRules DEF FilesInv
  <2>4. RunInv'
    BY <1>0, <1>2, <2>1, <2>3 DEF RunInv
  <2>. QED  BY <1>2, <2>1, <2>2, <2>4 DEF IInv
<1>10. CASE ReadPositions
  <2>1. CASE Crash
    BY <1>3, <2>1 DEF Crash
  <2>2. CASE ~Crash
    <3>1. /\ UNCHANGED <<calculation, began, post>> /\ pc = "pos" /\ pc' = "cell"
          /\ frame' = <<pass, StepsIn("pos")>>
      BY <1>10, <2>2 DEF ReadPositions, StepsIn
    <3>2. SavedInv'
      BY <3>1, SavedStays
    <3>3. OfFile(frame')
      BY <1>0, <3>1, StepsType DEF OfFile, FilesInv, Files
    <3>4. OfFile(frame)'
      BY <1>0, <1>2, <3>1, <3>3, StepsType DEF OfFile, FilesInv, Files
    <3>5. RunInv'
      BY <1>0, <1>2, <3>1, <3>4 DEF RunInv
    <3>. QED  BY <1>2, <3>1, <3>2, <3>5 DEF IInv
  <2>. QED  BY <2>1, <2>2
<1>11. CASE ReadCell
  <2>1. CASE Crash
    BY <1>3, <2>1 DEF Crash
  <2>2. CASE ~Crash
    <3>. DEFINE saved == [frame |-> frame, cell |-> <<pass, StepsIn("cell")>>]
    <3>1. /\ UNCHANGED <<calculation, began, frame>> /\ pc = "cell" /\ pc' = "idle"
          /\ frame[2] > 0 /\ post' = Save(StructureName, saved)
      BY <1>11, <2>2 DEF ReadCell, StepsIn
    <3>2. HasCp2kStructure(class) /\ OfFile(frame)
      BY <1>0, <3>1 DEF RunInv
    <3>3. StepsIn("pos") <= StepsIn("cell") + 1
      BY <1>0, <3>2, WrittenFiles DEF FilesInv
    <3>4. StepsIn("pos") \in Nat /\ StepsIn("cell") \in Nat
      BY <1>0, StepsType DEF FilesInv, Files
    <3>5. saved.frame[1] = saved.cell[1] => saved.cell[2] >= saved.frame[2] - 1
      BY <1>0, <3>2, <3>3, <3>4 DEF OfFile
    <3>6. Whole(saved)
      BY <3>1, <3>2, <3>5 DEF Whole
    <3>7. \A name \in DOMAIN post' :
              post'[name] = saved \/ (name \in DOMAIN post /\ post'[name] = post[name])
      BY <3>1 DEF Save
    <3>. HIDE DEF saved
    <3>8. \A name \in DOMAIN post' \ {"json"} : Whole(post'[name])
      BY <1>0, <3>2, <3>6, <3>7 DEF SavedInv
    <3>9. SavedInv'
      BY <1>2, <3>1, <3>8 DEF SavedInv, Whole
    <3>10. RunInv'
      BY <1>0, <1>2, <3>1 DEF RunInv
    <3>. QED  BY <1>2, <3>1, <3>9, <3>10 DEF IInv
  <2>. QED  BY <2>1, <2>2
<1>12. CASE ReadOutAgain \/ ReadGeometry \/ ReadMin
  <2>1. CASE Crash
    BY <1>3, <2>1 DEF Crash
  <2>2. CASE ~Crash
    <3>1. \E x, y : SaveOptimized(x, y)
      BY <1>12, <2>2 DEF ReadOutAgain, ReadGeometry, ReadMin
    <3>2. UNCHANGED <<calculation, began>> /\ pc' = "idle"
      BY <3>1 DEF SaveOptimized
    <3>3. ~HasCp2kStructure(class)
      BY <1>0, <1>12 DEF RunInv, ReadOutAgain, ReadGeometry, ReadMin
    <3>4. RunInv' /\ SavedInv'
      BY <1>0, <1>2, <3>2, <3>3 DEF RunInv, SavedInv
    <3>. QED  BY <1>2, <3>2, <3>4 DEF IInv
  <2>. QED  BY <2>1, <2>2
<1>13. CASE UNCHANGED vars
  BY <1>3, <1>13 DEF vars
<1>. QED  BY <1>1, <1>4, <1>5, <1>6, <1>7, <1>8, <1>9, <1>10, <1>11, <1>12, <1>13 DEF Next, Run

LEMMA IInvAlways == Spec => []IInv
  BY IInvInit, IInvNext, PTL DEF Spec

-----------------------------------------------------------------------------
(* A structure CP2K's classes save holds a whole frame of the positions,   *)
(* and its cell is at most one step behind (opt.cpp:123-176): for every    *)
(* number of steps, executions and calls, and whatever the calculation     *)
(* does between the two reads.                                             *)
THEOREM FramesAreWhole == Spec => []PositionsAndCell
<1>1. ASSUME IInv PROVE PositionsAndCell
  <2>. SUFFICES ASSUME NEW name \in DOMAIN post \ {"json"}, HasCp2kStructure(class)
                PROVE  LET s == post[name]
                       IN /\ s.frame[1] = pass => s.frame[2] \in 1..StepsIn("pos")
                          /\ s.frame[1] = s.cell[1] => s.cell[2] >= s.frame[2] - 1
    BY DEF PositionsAndCell
  <2>1. Whole(post[name])
    BY <1>1 DEF IInv, SavedInv
  <2>2. StepsIn("pos") \in Nat
    BY <1>1, StepsType DEF IInv, FilesInv, Files
  <2>. QED  BY <2>1, <2>2 DEF Whole, OfFile
<1>. QED  BY <1>1, IInvAlways, PTL

(* If the calculation was over before run() began, and has not been        *)
(* started again, the saved positions and cell are of one step             *)
(* (opt.cpp:123-176).                                                      *)
THEOREM FinishedIsOneStep == Spec => OverIsOneStep
<1>. DEFINE OneStep == pc = "cell" /\ pc' = "idle" /\ began = pass =>
                         post'[StructureName].frame = post'[StructureName].cell
<1>1. ASSUME IInv, Next, pc = "cell", pc' = "idle", began = pass
      PROVE  post'[StructureName].frame = post'[StructureName].cell
  <2>0. FilesInv /\ RunInv
    BY <1>1 DEF IInv
  <2>1. ~Calculate
    BY <1>1, <2>0, CalculationGoesOn
  <2>2. ReadCell
    BY <1>1, <2>1 DEF Next, Run, Construct, BeginRun, ReadLines, Thread, Join, WriteJson,
                      ReadPositions, ReadOutAgain, ReadGeometry, ReadMin
  <2>3. /\ wrote["cell"] > 0
        /\ post' = Save(StructureName, [frame |-> frame, cell |-> <<pass, wrote["cell"]>>])
    BY <1>1, <2>2 DEF ReadCell, Crash
  <2>4. pass # 0
    BY <2>0, <2>3 DEF FilesInv
  <2>5. frame = <<pass, StepsIn("pos")>> /\ Over /\ HasCp2kStructure(class)
    BY <1>1, <2>0, <2>4 DEF RunInv
  <2>6. StepsIn("pos") = StepsIn("cell")
    BY <2>0, <2>5, WrittenFiles DEF FilesInv
  <2>7. StepsIn("cell") = wrote["cell"]
    BY DEF StepsIn
  <2>. QED  BY <2>3, <2>5, <2>6, <2>7 DEF Save
<1>2. IInv /\ [Next]_vars => [OneStep]_vars
  BY <1>1
<1>. QED  BY <1>2, IInvAlways, PTL DEF Spec, OverIsOneStep

-----------------------------------------------------------------------------
(* Types.  The tree and the lines stay what the rules expect.              *)

(* A tree whose names are in K. *)
Entry(K) == [key : K, val : Seq(Steps)]
IsTree(tree) == \E K : tree \in Seq(Entry(K))

LEMMA EntryChanged ==
  ASSUME NEW S, NEW s \in Seq(S), NEW k, NEW x, k \in DOMAIN s => x \in S
  PROVE  [s EXCEPT ![k] = x] \in Seq(S)
<1>. DEFINE n == Len(s)
<1>1. n \in Nat /\ DOMAIN s = 1..n /\ s \in [1..n -> S]
  OBVIOUS
<1>. HIDE DEF n
<1>2. [s EXCEPT ![k] = x] \in [1..n -> S]
  BY <1>1
<1>. QED  BY <1>1, <1>2

LEMMA ValuesChange ==
  ASSUME NEW K, NEW tree \in Seq(Entry(K)), NEW k, NEW val, k \in DOMAIN tree => val \in Seq(Steps)
  PROVE  [tree EXCEPT ![k].val = val] \in Seq(Entry(K))
<1>. DEFINE E == Entry(K)
            x == [tree[k] EXCEPT !.val = val]
<1>1. ASSUME k \in DOMAIN tree PROVE x \in E
  <2>1. tree[k] \in E
    BY <1>1, ElementsOfSeq
  <2>. QED  BY <1>1, <2>1 DEF Entry
<1>2. [tree EXCEPT ![k] = x] \in Seq(E)
  <2>. HIDE DEF x, E
  <2>1. tree \in Seq(E)
    BY DEF E
  <2>. QED  BY <1>1, <2>1, EntryChanged
<1>3. [tree EXCEPT ![k].val = val] = [tree EXCEPT ![k] = x]
  OBVIOUS
<1>. QED  BY <1>2, <1>3

LEMMA PushTyped ==
  ASSUME NEW K, NEW tree \in Seq(Entry(K)), NEW key, NEW value \in Steps
  PROVE  Push(tree, key, value) \in Seq(Entry(K))
<1>. DEFINE k == First(tree, key)
            val == Append(tree[k].val, value)
<1>1. ASSUME k \in DOMAIN tree PROVE val \in Seq(Steps)
  <2>1. tree[k] \in Entry(K)
    BY <1>1, ElementsOfSeq
  <2>2. tree[k].val \in Seq(Steps)
    BY <2>1 DEF Entry
  <2>. QED  BY <2>2
<1>2. Push(tree, key, value) = [tree EXCEPT ![k].val = val]
  BY DEF Push
<1>3. \A i, v : (i \in DOMAIN tree => v \in Seq(Steps)) => [tree EXCEPT ![i].val = v] \in Seq(Entry(K))
  BY ValuesChange
<1>. HIDE DEF k, val
<1>4. [tree EXCEPT ![k].val = val] \in Seq(Entry(K))
  BY <1>1, <1>3
<1>. QED  BY <1>2, <1>4

LEMMA WriteTyped ==
  ASSUME NEW K, NEW tree \in Seq(Entry(K)), NEW key \in K, NEW value \in Steps,
         NEW how \in {"put", "push", "renew"}
  PROVE  Write(tree, how, key, value) \in Seq(Entry(K))
<1>1. \A val \in Seq(Steps) : Append(tree, [key |-> key, val |-> val]) \in Seq(Entry(K))
  BY DEF Entry
<1>2. <<value>> \in Seq(Steps) /\ <<>> \in Seq(Steps)
  OBVIOUS
<1>3. \A t \in Seq(Entry(K)) : Push(t, key, value) \in Seq(Entry(K))
  BY PushTyped
<1>4. AddChild(tree, key) \in Seq(Entry(K))
  BY <1>1, <1>2 DEF AddChild
<1>5. Put(tree, key, value) \in Seq(Entry(K))
  <2>. DEFINE k == First(tree, key)
  <2>. HIDE DEF k
  <2>1. [tree EXCEPT ![k].val = <<value>>] \in Seq(Entry(K))
    BY <1>2, ValuesChange
  <2>. QED  BY <1>1, <1>2, <2>1 DEF Put, k
<1>. QED  BY <1>3, <1>4, <1>5 DEF Write

LEMMA TreeGrows ==
  ASSUME NEW tree, IsTree(tree), NEW T
  PROVE  \E K : T \subseteq K /\ tree \in Seq(Entry(K))
<1>1. PICK K : tree \in Seq(Entry(K))
  BY DEF IsTree
<1>. DEFINE L == K \cup T
            n == Len(tree)
<1>2. n \in Nat /\ tree = [i \in 1..n |-> tree[i]]
  BY <1>1
<1>3. \A i \in 1..n : tree[i] \in Entry(L)
  <2>1. \A i \in 1..n : tree[i] \in Entry(K)
    <3>1. DOMAIN tree = 1..n
      BY <1>1
    <3>. HIDE DEF n
    <3>. QED  BY <1>1, <3>1, ElementsOfSeq
  <2>. QED  BY <2>1 DEF Entry
<1>. DEFINE E == Entry(L)
<1>. HIDE DEF n, E
<1>5. \A i \in 1..n : tree[i] \in E
  BY <1>3 DEF E
<1>4. [i \in 1..n |-> tree[i]] \in Seq(E)
  BY <1>2, <1>5
<1>. QED  BY <1>2, <1>4 DEF E

LEMMA RuleTyped ==
  ASSUME NEW tree, IsTree(tree), NEW rule, Ordinary(rule), NEW line, line.of \in Steps
  PROVE  IsTree(ApplyRule(tree, rule, line))
<1>. DEFINE T == Range(rule.keys) \cup {line.line}
<1>1. PICK K : T \subseteq K /\ tree \in Seq(Entry(K))
  <2>. HIDE DEF T
  <2>. QED  BY TreeGrows
<1>. DEFINE V == Seq(Entry(K))
<1>2. Value(line) \in Steps
  BY DEF Value, Yes, Steps
<1>3. \A t \in V : \A key \in T : Write(t, rule.how, key, Value(line)) \in V
  BY <1>1, <1>2, WriteTyped DEF Ordinary, IsSeq
<1>4. PICK S : rule.keys \in Seq(S)
  BY DEF Ordinary, IsSeq
<1>5. ApplyRule(tree, rule, line) \in V
  <2>. HIDE DEF V
  <2>1. tree \in V
    BY <1>1 DEF V
  <2>. QED  BY <1>3, <1>4, <2>1, ApplyRuleStays
<1>. QED  BY <1>5 DEF IsTree

(* One rule at most matches a line.                                        *)
LEMMA OneRuleOrNone ==
  ASSUME NEW rules, Sound(rules), NEW line
  PROVE  \E a \in 0..Len(rules) : \A i \in 1..Len(rules) : line.line \in rules[i].lines <=> i = a
<1>. DEFINE n == Len(rules)
<1>1. n \in Nat
  BY DEF Sound
<1>2. \A i, j \in 1..n : line.line \in rules[i].lines /\ line.line \in rules[j].lines => i = j
  BY DEF Sound, Apart
<1>3. CASE \E a \in 1..n : line.line \in rules[a].lines
  BY <1>2, <1>3
<1>4. CASE \A i \in 1..n : line.line \notin rules[i].lines
  <2>1. 0 \in 0..n /\ \A i \in 1..n : i # 0
    BY <1>1
  <2>. QED  BY <1>4, <2>1
<1>. QED  BY <1>3, <1>4

LEMMA RulesTyped ==
  ASSUME NEW rules, Sound(rules), NEW tree, IsTree(tree), NEW line, line.of \in Steps
  PROVE  IsTree(ApplyRules(tree, rules, line))
<1>. DEFINE S == Range(rules)
            n == Len(rules)
<1>1. rules \in Seq(S)
  BY DEF Sound
<1>2. n \in Nat
  BY <1>1
<1>3. PICK a \in 0..n : \A i \in 1..n : line.line \in rules[i].lines <=> i = a
  BY OneRuleOrNone
<1>. HIDE DEF S
<1>4. ApplyRules(tree, rules, line) = IF a = 0 THEN tree ELSE ApplyRule(tree, rules[a], line)
  BY <1>1, <1>3, OneRuleApplies
<1>5. a # 0 => Ordinary(rules[a])
  BY <1>2 DEF Sound
<1>. QED  BY <1>4, <1>5, RuleTyped

(* More of a tree: the same entries, with values added at their ends.      *)
Extends(tree, more) ==
    \A i \in DOMAIN tree : more[i].key = tree[i].key /\ \E u \in Seq(Steps) : more[i].val = tree[i].val \o u

LEMMA EnergiesExtend ==
  ASSUME NEW tree, IsTree(tree), NEW key, wrote["out"] \in Nat, pass \in Nat
  PROVE  /\ IsTree(Energies(tree, key)) /\ DOMAIN tree \subseteq DOMAIN Energies(tree, key)
         /\ Extends(tree, Energies(tree, key))
<1>1. PICK K : {key} \subseteq K /\ tree \in Seq(Entry(K))
  BY TreeGrows
<1>. DEFINE new == [k \in 1..wrote["out"] |-> <<pass, k>>]
            E == Entry(K)
            added == AddChild(tree, key)
            f == First(added, key)
            val == added[f].val \o new
            n == Len(tree)
<1>2. new \in Seq(Steps)
  BY DEF Steps
<1>3. [key |-> key, val |-> <<>>] \in E
  BY <1>1 DEF Entry
<1>4. Energies(tree, key) = [added EXCEPT ![f].val = val]
  BY DEF Energies
<1>5. n \in Nat /\ DOMAIN tree = 1..n
  BY <1>1
<1>6. added = Append(tree, [key |-> key, val |-> <<>>])
  BY DEF AddChild
<1>7. added \in Seq(E) /\ DOMAIN added = 1..n + 1 /\ \A i \in 1..n : added[i] = tree[i]
  <2>. HIDE DEF E, added
  <2>. DEFINE e == [key |-> key, val |-> <<>>]
  <2>. HIDE DEF e
  <2>1. added = Append(tree, e) /\ e \in E /\ tree \in Seq(E)
    BY <1>1, <1>3, <1>6 DEF e, E
  <2>. QED  BY <2>1
<1>. HIDE DEF new, added, f, n
<1>8. \A i \in DOMAIN added : added[i].val \in Seq(Steps)
  <2>1. \A i \in DOMAIN added : added[i] \in E
    BY <1>7, ElementsOfSeq
  <2>. QED  BY <2>1 DEF Entry
<1>9. f \in DOMAIN added => val \in Seq(Steps)
  <2>1. \A s \in Seq(Steps) : s \o new \in Seq(Steps)
    BY <1>2
  <2>. QED  BY <1>8, <2>1
<1>. DEFINE more == [added EXCEPT ![f].val = val]
<1>10. more \in Seq(E)
  <2>1. \A i, v : (i \in DOMAIN added => v \in Seq(Steps)) => [added EXCEPT ![i].val = v] \in Seq(Entry(K))
    BY <1>7, ValuesChange
  <2>. HIDE DEF val
  <2>. QED  BY <1>9, <2>1
<1>11. DOMAIN more = 1..n + 1
  BY <1>7
<1>12. ASSUME NEW i \in 1..n
       PROVE  more[i].key = tree[i].key /\ \E u \in Seq(Steps) : more[i].val = tree[i].val \o u
  <2>1. i \in DOMAIN added /\ added[i] = tree[i] /\ added[i] \in E
    BY <1>5, <1>7, ElementsOfSeq
  <2>2. CASE i = f
    <3>1. more[i] = [added[i] EXCEPT !.val = val]
      BY <2>1, <2>2
    <3>2. added[i] = [key |-> added[i].key, val |-> added[i].val]
      BY <2>1 DEF Entry
    <3>3. more[i].key = added[i].key /\ more[i].val = val
      <4>. HIDE DEF val, more
      <4>. QED  BY <3>1, <3>2
    <3>. QED  BY <1>2, <2>1, <2>2, <3>3
  <2>3. CASE i # f
    <3>1. more[i] = added[i]
      BY <2>1, <2>3
    <3>2. \A s \in Seq(Steps) : s = s \o <<>> /\ <<>> \in Seq(Steps)
      OBVIOUS
    <3>3. tree[i].val \in Seq(Steps)
      BY <1>8, <2>1
    <3>4. <<>> \in Seq(Steps) /\ tree[i].val = tree[i].val \o <<>>
      BY <3>2, <3>3
    <3>. QED  BY <2>1, <3>1, <3>4
  <2>. QED  BY <2>2, <2>3
<1>. HIDE DEF more
<1>13. 1..n \subseteq 1..n + 1
  BY <1>5
<1>14. Extends(tree, more)
  BY <1>5, <1>12 DEF Extends
<1>15. IsTree(more)
  BY <1>10 DEF IsTree
<1>16. Energies(tree, key) = more
  BY <1>4 DEF more
<1>. QED  BY <1>5, <1>11, <1>13, <1>14, <1>15, <1>16

LEMMA ExtraInfoExtends ==
  ASSUME NEW tree, IsTree(tree), wrote["out"] \in Nat, pass \in Nat
  PROVE  /\ IsTree(ExtraInfo(tree))
         /\ \A i \in DOMAIN tree : /\ ExtraInfo(tree)[i].key = tree[i].key
                                   /\ IsPrefix(tree[i].val, ExtraInfo(tree)[i].val)
<1>1. \A s \in Seq(Steps), t \in Seq(Steps) : s \o t \in Seq(Steps) /\ IsPrefix(s, s \o t)
  <2>. TAKE s \in Seq(Steps), t \in Seq(Steps)
  <2>1. Len(s) <= Len(s \o t) /\ s \o t \in Seq(Steps)
    OBVIOUS
  <2>2. SubSeq(s \o t, 1, Len(s)) = s /\ SubSeq(s, 1, Len(s)) = s
    OBVIOUS
  <2>. QED  BY <2>1, <2>2 DEF IsPrefix
<1>2. \A i \in DOMAIN tree : tree[i].val \in Seq(Steps)
  <2>1. PICK K : tree \in Seq(Entry(K))
    BY DEF IsTree
  <2>2. \A i \in DOMAIN tree : tree[i] \in Entry(K)
    BY <2>1, ElementsOfSeq
  <2>. QED  BY <2>2 DEF Entry
<1>3. \A s \in Seq(Steps), t \in Seq(Steps), u \in Seq(Steps) : (s \o t) \o u = s \o (t \o u) /\ t \o u \in Seq(Steps)
  OBVIOUS
<1>4. <<>> \in Seq(Steps) /\ \A s \in Seq(Steps) : s = s \o <<>>
  OBVIOUS
<1>5. IsTree(ExtraInfo(tree)) /\ Extends(tree, ExtraInfo(tree))
  <2>1. CASE class = "elk"
    <3>. DEFINE one == Energies(tree, "tot-energy")
                two == Energies(one, "stress")
    <3>1. IsTree(one) /\ DOMAIN tree \subseteq DOMAIN one /\ Extends(tree, one)
      BY EnergiesExtend
    <3>. HIDE DEF one
    <3>2. IsTree(two) /\ Extends(one, two)
      BY <3>1, EnergiesExtend
    <3>. HIDE DEF two
    <3>3. ASSUME NEW i \in DOMAIN tree
          PROVE  two[i].key = tree[i].key /\ \E u \in Seq(Steps) : two[i].val = tree[i].val \o u
      <4>1. PICK u \in Seq(Steps) : one[i].val = tree[i].val \o u
        BY <3>1 DEF Extends
      <4>2. PICK v \in Seq(Steps) : two[i].val = one[i].val \o v
        BY <3>1, <3>2 DEF Extends
      <4>3. u \o v \in Seq(Steps) /\ two[i].val = tree[i].val \o (u \o v)
        <5>1. tree[i].val \in Seq(Steps)
          BY <1>2
        <5>2. (tree[i].val \o u) \o v = tree[i].val \o (u \o v) /\ u \o v \in Seq(Steps)
          BY <1>3, <5>1
        <5>. QED  BY <4>1, <4>2, <5>2
      <4>4. two[i].key = tree[i].key
        BY <3>1, <3>2 DEF Extends
      <4>. QED  BY <4>3, <4>4
    <3>4. ExtraInfo(tree) = two
      BY <2>1 DEF ExtraInfo, one, two
    <3>. QED  BY <3>2, <3>3, <3>4 DEF Extends
  <2>2. CASE class # "elk"
    <3>1. ExtraInfo(tree) = tree
      BY <2>2 DEF ExtraInfo
    <3>. QED  BY <1>2, <1>4, <3>1 DEF Extends
  <2>. QED  BY <2>1, <2>2
<1>. QED  BY <1>1, <1>2, <1>5 DEF Extends

(* The kinds of lines that the program of a class prints.                  *)
Kinds(c) == Range(Classes[c].head) \cup Range(Classes[c].step) \cup Range(Classes[c].converged)
Lines(c) == [line : Kinds(c), of : Steps]

LEMMA SeqOverRange ==
  ASSUME NEW S, NEW s \in Seq(S), NEW T, Range(s) \subseteq T
  PROVE  s \in Seq(T)
<1>. DEFINE n == Len(s)
<1>1. n \in Nat /\ DOMAIN s = 1..n /\ s = [i \in 1..n |-> s[i]]
  OBVIOUS
<1>. HIDE DEF n
<1>2. \A i \in 1..n : s[i] \in T
  BY <1>1 DEF Range
<1>3. [i \in 1..n |-> s[i]] \in Seq(T)
  BY <1>1, <1>2
<1>. QED  BY <1>1, <1>3

LEMMA ShortTuples ==
  IsSeq(<<>>) /\ \A x, y : IsSeq(<<x>>) /\ IsSeq(<<x, y>>)
<1>1. \A x, y : <<>> \in Seq({x}) /\ <<x>> \in Seq({x}) /\ <<x, y>> \in Seq({x, y})
  OBVIOUS
<1>. QED  BY <1>1 DEF IsSeq

LEMMA TextsOfClasses ==
  ASSUME NEW c \in DOMAIN Classes
  PROVE  {Classes[c].head, Classes[c].step, Classes[c].converged} \subseteq Seq(Kinds(c))
<1>1. DOMAIN Classes = {"opt", "vcopt", "md", "qe", "elk", "octopus", "gamessus", "nwchem"}
  BY DEF Classes
<1>3. IsSeq(Classes[c].head)
  <2>1. /\ Classes["opt"].head = <<"STARTED_AT", "eps_scf:">>
        /\ Classes["vcopt"].head = <<"STARTED_AT", "eps_diis:">>
        /\ Classes["md"].head = <<"STARTED_AT", "MD_VEL|_COM_velocity">>
        /\ Classes["qe"].head = <<"starts_on", "lattice_parameter_(alat)">>
        /\ Classes["elk"].head = <<"Elk_code_version">>
        /\ Classes["octopus"].head = <<"Calculation_started_on", "Symmetry_group">>
        /\ Classes["gamessus"].head = <<"GAMESS_VERSION_=", "EXECUTION_OF_GAMESS_BEGUN">>
        /\ Classes["nwchem"].head = <<"Northwest_Computational_Chemistry_Package", "date_=">>
    BY DEF Classes, Cp2kOpt, Cp2kVcOpt, Cp2kMd, QeOpt, ElkOpt, OctopusOpt, GamessOpt, NwchemOpt
  <2>. QED  BY <1>1, <2>1, ShortTuples
<1>4. IsSeq(Classes[c].step)
  <2>1. /\ Classes["opt"].step = <<"SCF_run_converged_in", "ENERGY|_Total">>
        /\ Classes["vcopt"].step = <<"SCF_run_converged_in", "ENERGY|_Total">>
        /\ Classes["md"].step = <<"ENERGY|_Total", "MD|_Temperature_[K]">>
        /\ Classes["qe"].step = <<"!_total_energy">>
        /\ Classes["elk"].step = <<"loop">>
        /\ Classes["octopus"].step = <<"Energy", "Max_force">>
        /\ Classes["gamessus"].step = <<"TOTAL_ENERGY_=">>
        /\ Classes["nwchem"].step = <<"Total_DFT_energy_=">>
    BY DEF Classes, Cp2kOpt, Cp2kVcOpt, Cp2kMd, QeOpt, ElkOpt, OctopusOpt, GamessOpt, NwchemOpt
  <2>. QED  BY <1>1, <2>1, ShortTuples
<1>5. IsSeq(Classes[c].converged)
  <2>1. /\ Classes["opt"].converged = <<"minimum", "ENDED_AT">>
        /\ Classes["vcopt"].converged = <<"minimum", "ENDED_AT">>
        /\ Classes["md"].converged = <<"ENDED_AT">>
        /\ Classes["qe"].converged = <<"End_final_coordinates", "terminated_on">>
        /\ Classes["elk"].converged = <<>>
        /\ Classes["octopus"].converged = <<"Calculation_ended_on">>
        /\ Classes["gamessus"].converged = <<>>
        /\ Classes["nwchem"].converged = <<"Total_times_cpu">>
    BY DEF Classes, Cp2kOpt, Cp2kVcOpt, Cp2kMd, QeOpt, ElkOpt, OctopusOpt, GamessOpt, NwchemOpt
  <2>. QED  BY <1>1, <2>1, ShortTuples
<1>. QED  BY <1>3, <1>4, <1>5, SeqOverRange DEF Kinds, IsSeq

LEMMA LinesOf ==
  ASSUME NEW c, NEW texts \in Seq(Kinds(c)), NEW value \in Steps
  PROVE  Of(texts, value) \in Seq(Lines(c))
<1>. DEFINE n == Len(texts)
            L == Lines(c)
<1>1. n \in Nat /\ DOMAIN texts = 1..n
  OBVIOUS
<1>2. \A i \in 1..n : [line |-> texts[i], of |-> value] \in L
  BY <1>1, ElementsOfSeq DEF Lines
<1>. HIDE DEF n, L
<1>3. [i \in 1..n |-> [line |-> texts[i], of |-> value]] \in Seq(L)
  BY <1>1, <1>2
<1>. QED  BY <1>1, <1>3 DEF Of, L

-----------------------------------------------------------------------------
(* Refinement.  The threads fill the tree the way the reader of PostReader does. *)

(* What the threads have left of a line: the tree is the one before the    *)
(* line, or, when the thread that finds a match is through, the one after. *)
ThreadInv ==
    pc = "rules" =>
        /\ at \in 1..Len(lines) + 1
        /\ \A t \in AtWork(lines, at) :
               info = IF t \in busy THEN settled
                      ELSE ApplyRules(settled, RulesOf(Rules(class), t), lines[at])
        /\ busy \subseteq AtWork(lines, at)
        /\ AtWork(lines, at) = {} => info = settled

ReadInv ==
    /\ out \in Seq(Lines(class)) /\ lines \in Seq(Lines(class))
    /\ IsTree(info) /\ IsTree(settled)
    /\ pc # "rules" => info = settled
    /\ ThreadInv

Typed == class \in DOMAIN Classes /\ pass \in Nat /\ wrote["out"] \in Nat /\ (pass = 0 => phase = "none")

LEMMA TypedOf == FilesInv => Typed
  BY DEF FilesInv, Typed, Files

LEMMA ListsOfClasses ==
  ASSUME NEW c \in DOMAIN Classes
  PROVE  \E n \in Nat : DOMAIN Classes[c].lists = 1..n
<1>1. DOMAIN Classes = {"opt", "vcopt", "md", "qe", "elk", "octopus", "gamessus", "nwchem"}
  BY DEF Classes
<1>2. /\ DOMAIN Classes["opt"].lists = 1..2 /\ DOMAIN Classes["vcopt"].lists = 1..2
      /\ DOMAIN Classes["md"].lists = 1..7 /\ DOMAIN Classes["qe"].lists = 1..1
      /\ DOMAIN Classes["elk"].lists = 1..0 /\ DOMAIN Classes["octopus"].lists = 1..4
      /\ DOMAIN Classes["gamessus"].lists = 1..1 /\ DOMAIN Classes["nwchem"].lists = 1..1
  BY DEF Classes, Cp2kOpt, Cp2kVcOpt, Cp2kMd, QeOpt, ElkOpt, OctopusOpt, GamessOpt, NwchemOpt
<1>. QED  BY <1>1, <1>2

LEMMA ConstructedTyped ==
  ASSUME class \in DOMAIN Classes
  PROVE  IsTree(Constructed(class))
<1>. DEFINE lists == Classes[class].lists
            K == Range(lists) \cup {"optimized"}
            E == Entry(K)
            first == [i \in DOMAIN lists |-> [key |-> lists[i], val |-> <<>>]]
            last == IF HasCp2kStructure(class) THEN <<[key |-> "optimized", val |-> <<No>>]>> ELSE <<>>
<1>1. PICK n \in Nat : DOMAIN lists = 1..n
  BY ListsOfClasses
<1>2. \A i \in 1..n : [key |-> lists[i], val |-> <<>>] \in E
  BY <1>1 DEF Entry, Range
<1>3. [key |-> "optimized", val |-> <<No>>] \in E
  BY DEF Entry, Steps, No
<1>4. first \in Seq(E)
  <2>. HIDE DEF E, lists
  <2>1. [i \in 1..n |-> [key |-> lists[i], val |-> <<>>]] \in Seq(E)
    BY <1>2
  <2>. QED  BY <1>1, <2>1
<1>5. last \in Seq(E)
  <2>. DEFINE e == [key |-> "optimized", val |-> <<No>>]
  <2>. HIDE DEF E, e
  <2>1. <<e>> \in Seq(E) /\ <<>> \in Seq(E)
    BY <1>3 DEF e
  <2>. QED  BY <2>1 DEF e
<1>6. Constructed(class) = first \o last
  BY DEF Constructed
<1>. HIDE DEF first, last, E
<1>7. first \o last \in Seq(E)
  BY <1>4, <1>5
<1>. QED  BY <1>6, <1>7 DEF IsTree, E

LEMMA AtWorkFinds ==
  ASSUME NEW ls, NEW i
  PROVE  AtWork(ls, i) = {t \in Threads : i <= Len(ls) /\ Finds(t, Rules(class), ls[i])}
  BY DEF AtWork, Finds

LEMMA AtMostOneAtWork ==
  ASSUME class \in DOMAIN Classes, NEW ls, NEW i, NEW t \in AtWork(ls, i), NEW tree
  PROVE  /\ \A u \in AtWork(ls, i) : u = t
         /\ i <= Len(ls)
         /\ ApplyRules(tree, RulesOf(Rules(class), t), ls[i]) = ApplyAll(tree, class, ls[i])
<1>1. Sound(Rules(class))
  BY RulesAreSound
<1>2. t \in Threads /\ Finds(t, Rules(class), ls[i]) /\ i <= Len(ls)
  BY AtWorkFinds
<1>3. \A u \in AtWork(ls, i) : u \in Threads /\ Finds(u, Rules(class), ls[i])
  BY AtWorkFinds
<1>. DEFINE rules == Rules(class)
            line == ls[i]
<1>. HIDE DEF rules, line
<1>4. /\ \A u \in Threads : Finds(u, rules, line) => u = t
      /\ ApplyRules(tree, RulesOf(rules, t), line) = ApplyRules(tree, rules, line)
  BY <1>1, <1>2, OneThreadAtWork DEF rules, line
<1>. QED  BY <1>2, <1>3, <1>4 DEF rules, line, ApplyAll

LEMMA NobodyAtWork ==
  ASSUME class \in DOMAIN Classes, NEW ls, NEW i, i <= Len(ls), AtWork(ls, i) = {}, NEW tree
  PROVE  ApplyAll(tree, class, ls[i]) = tree
<1>1. Sound(Rules(class))
  BY RulesAreSound
<1>2. \A t \in Threads : ~Finds(t, Rules(class), ls[i])
  BY AtWorkFinds
<1>. DEFINE rules == Rules(class)
            line == ls[i]
<1>. HIDE DEF rules, line
<1>3. ApplyRules(tree, rules, line) = tree
  BY <1>1, <1>2, NoThreadAtWork DEF rules, line
<1>. QED  BY <1>3 DEF rules, line, ApplyAll

(* Once all threads are through with a line, all rules have been applied.  *)
LEMMA JoinedTree ==
  ASSUME ReadInv, class \in DOMAIN Classes, pc = "rules", at <= Len(lines), busy = {}
  PROVE  info = ApplyAll(settled, class, lines[at])
<1>1. CASE AtWork(lines, at) = {}
  BY <1>1, NobodyAtWork DEF ReadInv, ThreadInv
<1>2. CASE AtWork(lines, at) # {}
  <2>1. PICK t \in AtWork(lines, at) : TRUE
    BY <1>2
  <2>2. info = ApplyRules(settled, RulesOf(Rules(class), t), lines[at])
    BY <2>1 DEF ReadInv, ThreadInv
  <2>. QED  BY <2>1, <2>2, AtMostOneAtWork
<1>. QED  BY <1>1, <1>2

(* A step that leaves the object alone, and either the threads too or is   *)
(* not theirs, is no step of the reader.                                   *)
LEMMA ReaderStays ==
  ASSUME ReadInv, UNCHANGED <<class, lines, info, settled, at, busy>>, out' \in Seq(Lines(class)),
         pc' = pc \/ (pc # "rules" /\ pc' # "rules")
  PROVE  ReadInv' /\ UNCHANGED Reader!vars
<1>1. \A ls, i : AtWork(ls, i)' = AtWork(ls, i)
  BY DEF AtWork
<1>2. ThreadInv'
  BY <1>1 DEF ReadInv, ThreadInv
<1>3. ReadInv'
  BY <1>2 DEF ReadInv
<1>. QED  BY <1>3 DEF Reader!vars

LEMMA CalculationReads ==
  ASSUME ReadInv, Typed, Calculate
  PROVE  ReadInv' /\ UNCHANGED Reader!vars
<1>. DEFINE L == Lines(class)
<1>1. \A v \in Steps : /\ Of(Classes[class].head, v) \in Seq(L)
                       /\ Of(Classes[class].step, v) \in Seq(L)
                       /\ Of(Classes[class].converged, v) \in Seq(L)
  BY TextsOfClasses, LinesOf DEF Typed
<1>2. /\ out \in Seq(L) /\ <<>> \in Seq(L)
      /\ \A s \in Seq(L), t \in Seq(L) : s \o t \in Seq(L)
  BY DEF ReadInv
<1>3. /\ pass \in Nat /\ wrote["out"] \in Nat
      /\ \A n \in Nat : <<pass, n>> \in Steps /\ <<pass + 1, n>> \in Steps
  BY DEF Typed, Steps
<1>. HIDE DEF L
<1>4. CASE Start
  <2>1. out' = (IF class \in {"opt", "vcopt", "md"} THEN out ELSE <<>>) \o Of(Classes[class].head, <<pass + 1, 0>>)
    BY <1>4 DEF Start
  <2>2. out' \in Seq(L)
    BY <1>1, <1>2, <1>3, <2>1
  <2>3. UNCHANGED <<class, pc, lines, info, settled, at, busy>>
    BY <1>4 DEF Start, object
  <2>. QED  BY <2>2, <2>3, ReaderStays DEF L
<1>5. ASSUME NEW f \in Files, WriteFile(f)
      PROVE  ReadInv' /\ UNCHANGED Reader!vars
  <2>1. out' = IF f = "out" THEN out \o Of(Classes[class].step, <<pass, wrote["out"] + 1>>) ELSE out
    BY <1>5 DEF WriteFile
  <2>2. wrote["out"] + 1 \in Nat
    BY <1>3
  <2>3. out' \in Seq(L)
    BY <1>1, <1>2, <1>3, <2>1, <2>2
  <2>4. UNCHANGED <<class, pc, lines, info, settled, at, busy>>
    BY <1>5 DEF WriteFile, object
  <2>. QED  BY <2>3, <2>4, ReaderStays DEF L
<1>6. ASSUME NEW how, End(how)
      PROVE  ReadInv' /\ UNCHANGED Reader!vars
  <2>1. out' = IF how = "converged" THEN out \o Of(Classes[class].converged, <<pass, wrote["out"]>>) ELSE out
    BY <1>6 DEF End
  <2>2. out' \in Seq(L)
    BY <1>1, <1>2, <1>3, <2>1
  <2>3. UNCHANGED <<class, pc, lines, info, settled, at, busy>>
    BY <1>6 DEF End, object
  <2>. QED  BY <2>2, <2>3, ReaderStays DEF L
<1>. QED  BY <1>4, <1>5, <1>6 DEF Calculate

LEMMA ConstructReads ==
  ASSUME ReadInv, Typed, Construct
  PROVE  ReadInv' /\ Reader!Construct
<1>1. /\ UNCHANGED <<class, out>> /\ lines' = <<>> /\ info' = Constructed(class) /\ settled' = info'
      /\ pc' = "idle"
  BY DEF Construct, calculation
<1>2. IsTree(Constructed(class))
  BY ConstructedTyped DEF Typed
<1>3. Constructed(class)' = Constructed(class)
  BY <1>1 DEF Constructed
<1>4. ReadInv'
  BY <1>1, <1>2, <1>3 DEF ReadInv, ThreadInv
<1>5. Reader!New'
  BY <1>1, <1>3 DEF Reader!New
<1>. QED  BY <1>1, <1>4, <1>5 DEF Reader!Construct

LEMMA BeginRunReads ==
  ASSUME ReadInv, Typed, BeginRun
  PROVE  ReadInv' /\ Reader!Prepare
<1>1. /\ UNCHANGED <<class, out, lines>> /\ info' = ExtraInfo(info) /\ settled' = info'
      /\ pc = "idle" /\ pc' = "open" /\ settled = info
  BY DEF BeginRun, calculation, ReadInv
<1>2. /\ IsTree(ExtraInfo(info))
      /\ \A i \in DOMAIN info : /\ ExtraInfo(info)[i].key = info[i].key
                                /\ IsPrefix(info[i].val, ExtraInfo(info)[i].val)
  BY ExtraInfoExtends DEF Typed, ReadInv
<1>3. ReadInv'
  BY <1>1, <1>2 DEF ReadInv, ThreadInv
<1>4. Reader!Prepare
  BY <1>1, <1>2 DEF Reader!Prepare, Reader!IsPrefix, IsPrefix
<1>. QED  BY <1>3, <1>4

LEMMA ReadLinesReads ==
  ASSUME ReadInv, Typed, ReadLines
  PROVE  ReadInv' /\ Reader!Read
<1>1. /\ UNCHANGED <<class, out, info, settled>> /\ lines' = lines \o out /\ at' = 1
      /\ pc = "open" /\ pc' = "rules" /\ settled = info /\ busy' = AtWork(lines', 1)
  BY DEF ReadLines, calculation, ReadInv
<1>. DEFINE L == Lines(class)
<1>2. lines \in Seq(L) /\ out \in Seq(L)
  BY DEF ReadInv
<1>3. /\ lines \o out \in Seq(L) /\ 1 \in 1..Len(lines \o out) + 1
      /\ SubSeq(lines \o out, 1, Len(lines \o out)) = lines \o out
      /\ Len(lines) <= Len(lines \o out)
      /\ SubSeq(lines \o out, 1, Len(lines)) = lines /\ SubSeq(lines, 1, Len(lines)) = lines
  <2>. HIDE DEF L
  <2>. QED  BY <1>2
<1>4. \A ls, i : AtWork(ls, i)' = AtWork(ls, i)
  BY <1>1 DEF AtWork
<1>5. ThreadInv'
  BY <1>1, <1>3, <1>4 DEF ThreadInv
<1>6. ReadInv'
  BY <1>1, <1>3, <1>5 DEF ReadInv
<1>7. IsPrefix(lines, lines')
  BY <1>1, <1>3 DEF IsPrefix
<1>8. Reader!Read
  BY <1>1, <1>3, <1>7 DEF Reader!Read, Reader!IsPrefix, IsPrefix
<1>. QED  BY <1>6, <1>8

LEMMA ThreadReads ==
  ASSUME ReadInv, Typed, NEW t \in Threads, Thread(t)
  PROVE  ReadInv' /\ UNCHANGED Reader!vars
<1>1. /\ UNCHANGED <<class, out, lines, at, settled, pc>> /\ pc = "rules" /\ t \in busy
      /\ info' = ApplyRules(info, RulesOf(Rules(class), t), lines[at]) /\ busy' = busy \ {t}
      /\ at <= Len(lines)
  BY DEF Thread, calculation
<1>2. \A ls, i : AtWork(ls, i)' = AtWork(ls, i)
  BY <1>1 DEF AtWork
<1>3. ThreadInv
  BY DEF ReadInv
<1>4. t \in AtWork(lines, at) /\ info = settled
  BY <1>1, <1>3 DEF ThreadInv
<1>5. \A u \in AtWork(lines, at) : u = t
  BY <1>4, AtMostOneAtWork DEF Typed
<1>6. ThreadInv'
  BY <1>1, <1>2, <1>3, <1>4, <1>5 DEF ThreadInv
<1>7. IsTree(info')
  <2>1. info' = ApplyAll(info, class, lines[at])
    BY <1>1, <1>4, AtMostOneAtWork DEF Typed
  <2>2. lines[at].of \in Steps
    <3>1. at \in DOMAIN lines
      BY <1>1, <1>3 DEF ThreadInv, ReadInv
    <3>2. lines[at] \in Lines(class)
      BY <3>1, ElementsOfSeq DEF ReadInv
    <3>. QED  BY <3>2 DEF Lines
  <2>3. IsTree(info) /\ Sound(Rules(class))
    BY RulesAreSound DEF ReadInv, Typed
  <2>. QED  BY <2>1, <2>2, <2>3, RulesTyped DEF ApplyAll
<1>8. ReadInv'
  BY <1>1, <1>6, <1>7 DEF ReadInv
<1>. QED  BY <1>1, <1>8 DEF Reader!vars

LEMMA RestOfSeq ==
  ASSUME NEW S, NEW s \in Seq(S), NEW i \in 1..Len(s)
  PROVE  /\ SubSeq(s, i, Len(s)) # <<>>
         /\ Head(SubSeq(s, i, Len(s))) = s[i]
         /\ Tail(SubSeq(s, i, Len(s))) = SubSeq(s, i + 1, Len(s))
<1>. DEFINE n == Len(s)
            rest == SubSeq(s, i, n)
            more == SubSeq(s, i + 1, n)
<1>1. n \in Nat /\ i \in 1..n
  OBVIOUS
<1>2. rest \in Seq(S) /\ Len(rest) = n - i + 1 /\ \A k \in 1..n - i + 1 : rest[k] = s[i + k - 1]
  BY <1>1
<1>3. more \in Seq(S) /\ Len(more) = n - i /\ \A k \in 1..n - i : more[k] = s[i + k]
  BY <1>1
<1>. HIDE DEF rest, more, n
<1>4. rest # <<>> /\ Head(rest) = s[i]
  BY <1>1, <1>2
<1>5. Tail(rest) \in Seq(S) /\ Len(Tail(rest)) = n - i
  BY <1>1, <1>2, <1>4
<1>6. \A k \in 1..n - i : Tail(rest)[k] = more[k]
  BY <1>1, <1>2, <1>3, <1>4
<1>7. Tail(rest) = more
  BY <1>1, <1>3, <1>5, <1>6
<1>. QED  BY <1>4, <1>7 DEF rest, more, n

LEMMA JoinReads ==
  ASSUME ReadInv, Typed, Join
  PROVE  ReadInv' /\ Reader!Apply
<1>1. /\ UNCHANGED <<class, out, lines, info, pc>> /\ pc = "rules" /\ busy = {} /\ at <= Len(lines)
      /\ at' = at + 1 /\ busy' = AtWork(lines, at + 1) /\ settled' = info
  BY DEF Join, calculation
<1>2. \A ls, i : AtWork(ls, i)' = AtWork(ls, i)
  BY <1>1 DEF AtWork
<1>3. info = ApplyAll(settled, class, lines[at])
  BY <1>1, JoinedTree DEF Typed
<1>. DEFINE L == Lines(class)
            todo == SubSeq(lines, at, Len(lines))
<1>4. at \in 1..Len(lines) /\ lines \in Seq(L)
  BY <1>1 DEF ReadInv, ThreadInv
<1>5. todo # <<>> /\ Head(todo) = lines[at] /\ Tail(todo) = SubSeq(lines, at + 1, Len(lines))
  <2>. HIDE DEF L
  <2>. QED  BY <1>4, RestOfSeq
<1>6. ThreadInv'
  <2>1. at' \in 1..Len(lines') + 1
    BY <1>1, <1>4
  <2>. QED  BY <1>1, <1>2, <2>1 DEF ThreadInv
<1>7. ReadInv'
  BY <1>1, <1>6 DEF ReadInv
<1>8. Reader!Apply
  BY <1>1, <1>3, <1>5 DEF Reader!Apply
<1>. QED  BY <1>7, <1>8

LEMMA WriteJsonReads ==
  ASSUME ReadInv, Typed, WriteJson
  PROVE  ReadInv' /\ UNCHANGED Reader!vars
<1>1. /\ UNCHANGED <<class, out, lines, info, settled, at>> /\ pc = "rules" /\ at > Len(lines)
      /\ pc' = IF Classes[class].after = <<>> THEN "idle" ELSE Head(Classes[class].after)
  BY DEF WriteJson, calculation
<1>2. pc' # "rules"
  BY <1>1, ReadsAfterRules DEF Typed
<1>. DEFINE L == Lines(class)
<1>3. lines \in Seq(L) /\ at \in 1..Len(lines) + 1
  BY <1>1 DEF ReadInv, ThreadInv
<1>4. SubSeq(lines, at, Len(lines)) = <<>>
  <2>. HIDE DEF L
  <2>. QED  BY <1>1, <1>3
<1>5. AtWork(lines, at) = {}
  <2>1. Len(lines) \in Nat /\ at \in Nat
    BY <1>3
  <2>. QED  BY <1>1, <2>1 DEF AtWork
<1>6. info = settled
  BY <1>1, <1>5 DEF ReadInv, ThreadInv
<1>7. ReadInv'
  BY <1>1, <1>2, <1>6 DEF ReadInv, ThreadInv
<1>. QED  BY <1>1, <1>2, <1>4, <1>7 DEF Reader!vars

LEMMA StructureReads ==
  ASSUME ReadInv, ReadPositions \/ ReadCell \/ ReadOutAgain \/ ReadGeometry \/ ReadMin
  PROVE  ReadInv' /\ UNCHANGED Reader!vars
<1>1. /\ UNCHANGED <<class, lines, info, settled, at, busy, out>> /\ pc # "rules" /\ pc' # "rules"
  BY DEF ReadPositions, ReadCell, ReadOutAgain, ReadGeometry, ReadMin, Crash, SaveOptimized,
         calculation, object
<1>2. out' \in Seq(Lines(class))
  BY <1>1 DEF ReadInv
<1>. QED  BY <1>1, <1>2, ReaderStays

LEMMA ReadInvInit == Init => ReadInv /\ Reader!New
<1>. SUFFICES ASSUME Init PROVE ReadInv /\ Reader!New
  OBVIOUS
<1>1. /\ class \in DOMAIN Classes /\ out = <<>> /\ lines = <<>> /\ pc = "none"
      /\ info = Constructed(class) /\ settled = info
  BY PostAssumption DEF Init, PostAssumption
<1>2. IsTree(info)
  BY <1>1, ConstructedTyped
<1>3. ReadInv
  BY <1>1, <1>2 DEF ReadInv, ThreadInv
<1>. QED  BY <1>1, <1>3 DEF Reader!New

LEMMA ReadInvNext ==
  ASSUME ReadInv, Typed, [Next]_vars
  PROVE  ReadInv' /\ [Reader!Next]_(Reader!vars)
<1>1. CASE Calculate
  BY <1>1, CalculationReads
<1>2. CASE Construct
  BY <1>2, ConstructReads DEF Reader!Next
<1>3. CASE BeginRun
  BY <1>3, BeginRunReads DEF Reader!Next
<1>4. CASE ReadLines
  BY <1>4, ReadLinesReads DEF Reader!Next
<1>5. ASSUME NEW t \in Threads, Thread(t)
      PROVE  ReadInv' /\ UNCHANGED Reader!vars
  BY <1>5, ThreadReads
<1>6. CASE Join
  BY <1>6, JoinReads DEF Reader!Next
<1>7. CASE WriteJson
  BY <1>7, WriteJsonReads
<1>8. CASE ReadPositions \/ ReadCell \/ ReadOutAgain \/ ReadGeometry \/ ReadMin
  BY <1>8, StructureReads
<1>9. CASE UNCHANGED vars
  <2>1. UNCHANGED <<class, lines, info, settled, at, busy, out, pc>>
    BY <1>9 DEF vars, calculation, object
  <2>2. out' \in Seq(Lines(class))
    BY <2>1 DEF ReadInv
  <2>. QED  BY <2>1, <2>2, ReaderStays
<1>. QED  BY <1>1, <1>2, <1>3, <1>4, <1>5, <1>6, <1>7, <1>8, <1>9 DEF Next, Run

(* The four threads, in whatever order they come to their shares, leave    *)
(* the tree that a reader leaves who applies all rules of the class to a   *)
(* line and goes on to the next (post.cpp:68-104), for every class, every  *)
(* output and every number of runs and of steps.  No lock is needed since  *)
(* the rules that match a line are all in one share.                       *)
THEOREM ThreadsReadSequentially == Spec => Sequential
<1>1. Init => ReadInv /\ Reader!New
  BY ReadInvInit
<1>2. IInv /\ ReadInv /\ [Next]_vars => ReadInv' /\ [Reader!Next]_(Reader!vars)
  BY ReadInvNext, TypedOf DEF IInv
<1>. QED  BY <1>1, <1>2, IInvAlways, PTL DEF Spec, Sequential, Reader!Spec

-----------------------------------------------------------------------------
(* Names.  What the tree says of the end of the calculation.               *)

Has(ls, text) == \E i \in DOMAIN ls : ls[i].line = text

LEMMA HasConcat ==
  ASSUME NEW L, NEW s \in Seq(L), NEW t \in Seq(L), NEW text
  PROVE  Has(s \o t, text) <=> Has(s, text) \/ Has(t, text)
<1>. DEFINE m == Len(s)
            n == Len(t)
            u == s \o t
<1>1. /\ m \in Nat /\ n \in Nat /\ DOMAIN s = 1..m /\ DOMAIN t = 1..n /\ DOMAIN u = 1..m + n
      /\ \A i \in 1..m : u[i] = s[i]
      /\ \A i \in 1..n : u[m + i] = t[i]
  OBVIOUS
<1>. HIDE DEF m, n, u
<1>2. \A i \in 1..m + n : i \in 1..m \/ (i - m \in 1..n /\ m + (i - m) = i)
  BY <1>1
<1>3. (\A i \in 1..m : i \in 1..m + n) /\ \A i \in 1..n : m + i \in 1..m + n
  BY <1>1
<1>4. \A i \in 1..m + n : i \in 1..m \/ \E k \in 1..n : u[i] = t[k]
  BY <1>1, <1>2
<1>5. Has(u, text) => Has(s, text) \/ Has(t, text)
  BY <1>1, <1>4, ZenonT(40) DEF Has
<1>6. ASSUME NEW i \in 1..m, s[i].line = text
      PROVE  Has(u, text)
  BY <1>1, <1>3, <1>6 DEF Has
<1>7. ASSUME NEW i \in 1..n, t[i].line = text
      PROVE  Has(u, text)
  BY <1>1, <1>3, <1>7 DEF Has
<1>8. Has(s, text) \/ Has(t, text) => Has(u, text)
  BY <1>1, <1>6, <1>7 DEF Has
<1>. QED  BY <1>5, <1>8 DEF u

LEMMA HasOf ==
  ASSUME NEW texts, NEW value, NEW text, Has(Of(texts, value), text)
  PROVE  text \in Range(texts)
BY DEF Has, Of, Range

(* The lines that tell of convergence are printed at the end only.         *)
LEMMA ConvergedLast ==
  /\ \A c \in {"opt", "vcopt"} : "minimum" \notin Range(Classes[c].head) \cup Range(Classes[c].step)
  /\ "End_final_coordinates" \notin Range(Classes["qe"].head) \cup Range(Classes["qe"].step)
<1>1. \A x, y : Range(<<x>>) = {x} /\ Range(<<x, y>>) = {x, y}
  BY DEF Range
<1>2. /\ Classes["opt"].head = <<"STARTED_AT", "eps_scf:">>
      /\ Classes["vcopt"].head = <<"STARTED_AT", "eps_diis:">>
      /\ Classes["opt"].step = <<"SCF_run_converged_in", "ENERGY|_Total">>
      /\ Classes["vcopt"].step = <<"SCF_run_converged_in", "ENERGY|_Total">>
      /\ Classes["qe"].head = <<"starts_on", "lattice_parameter_(alat)">>
      /\ Classes["qe"].step = <<"!_total_energy">>
  BY DEF Classes, Cp2kOpt, Cp2kVcOpt, QeOpt
<1>. QED  BY <1>1, <1>2

-----------------------------------------------------------------------------
(* "optimized" has not been set.                                           *)
NotYet(tree) ==
    /\ \E i \in DOMAIN tree : tree[i].key = "optimized"
    /\ \A i \in DOMAIN tree : tree[i].key = "optimized" => tree[i].val = <<No>>

LEMMA FirstIs ==
  ASSUME NEW S, NEW tree \in Seq(S), NEW key
  PROVE  \/ First(tree, key) = 0 /\ \A i \in DOMAIN tree : tree[i].key # key
         \/ First(tree, key) \in DOMAIN tree /\ tree[First(tree, key)].key = key
<1>. DEFINE n == Len(tree)
            I == {i \in 1..n : tree[i].key = key}
<1>1. n \in Nat /\ DOMAIN tree = 1..n
  OBVIOUS
<1>2. First(tree, key) = IF I # {} THEN Min(I) ELSE 0
  BY DEF First, SelectInSeq
<1>3. I # {} => Min(I) \in I
  <2>. HIDE DEF n
  <2>. SUFFICES ASSUME I # {} PROVE Min(I) \in I
    OBVIOUS
  <2>. HIDE DEF I
  <2>1. I \in SUBSET (1..n)
    BY DEF I
  <2>. QED  BY <1>1, <2>1, MinOfNumbers
<1>. QED  BY <1>1, <1>2, <1>3

LEMMA NotYetIsNo ==
  ASSUME NEW S, NEW tree \in Seq(S), NotYet(tree)
  PROVE  tree[First(tree, "optimized")].val # <<Yes>>
<1>1. First(tree, "optimized") \in DOMAIN tree /\ tree[First(tree, "optimized")].key = "optimized"
  BY FirstIs DEF NotYet
<1>2. tree[First(tree, "optimized")].val = <<No>>
  BY <1>1 DEF NotYet
<1>3. <<No>> # <<Yes>>
  BY DEF No, Yes
<1>. QED  BY <1>2, <1>3

(* Putting or pushing under another name does not set it.                  *)
LEMMA OthersWrite ==
  ASSUME NEW S, NEW tree \in Seq(S), NotYet(tree), NEW key, key # "optimized", NEW value,
         NEW how \in {"put", "push"}
  PROVE  NotYet(Write(tree, how, key, value))
<1>. DEFINE f == First(tree, key)
            n == Len(tree)
            new == [key |-> key, val |-> <<value>>]
<1>1. \/ f = 0 /\ \A i \in DOMAIN tree : tree[i].key # key
      \/ f \in DOMAIN tree /\ tree[f].key = key
  BY FirstIs
<1>2. n \in Nat /\ DOMAIN tree = 1..n
  OBVIOUS
<1>. HIDE DEF f
<1>3. ASSUME NEW val PROVE NotYet([tree EXCEPT ![f].val = val])
  <2>. DEFINE more == [tree EXCEPT ![f].val = val]
  <2>1. DOMAIN more = DOMAIN tree /\ \A i \in DOMAIN tree : i # f => more[i] = tree[i]
    OBVIOUS
  <2>2. \A i \in DOMAIN tree : tree[i].key = "optimized" => i # f
    BY <1>1
  <2>3. f \in DOMAIN tree => more[f].key # "optimized"
    <3>. SUFFICES ASSUME f \in DOMAIN tree PROVE more[f].key # "optimized"
      OBVIOUS
    <3>1. more[f] = [tree[f] EXCEPT !.val = val]
      OBVIOUS
    <3>. HIDE DEF more
    <3>2. more[f].key = tree[f].key
      BY <3>1
    <3>3. f # 0
      BY <1>2
    <3>. QED  BY <1>1, <3>2, <3>3
  <2>. HIDE DEF more
  <2>4. NotYet(more)
    BY <2>1, <2>2, <2>3 DEF NotYet
  <2>. QED  BY <2>4 DEF more
<1>4. NotYet(Append(tree, new))
  <2>. DEFINE more == Append(tree, new)
  <2>1. DOMAIN more = 1..n + 1 /\ (\A i \in 1..n : more[i] = tree[i]) /\ more[n + 1] = new
    BY <1>2
  <2>2. new.key # "optimized"
    OBVIOUS
  <2>3. \A i \in 1..n + 1 : i \in 1..n \/ i = n + 1
    BY <1>2
  <2>4. \A i \in 1..n : i \in 1..n + 1
    BY <1>2
  <2>. HIDE DEF more, new, n
  <2>5. NotYet(more)
    BY <1>2, <2>1, <2>2, <2>3, <2>4 DEF NotYet
  <2>. QED  BY <2>5 DEF more
<1>5. NotYet(Put(tree, key, value))
  BY <1>3, <1>4 DEF Put, f
<1>6. NotYet(Push(tree, key, value))
  <2>1. \A val : NotYet([tree EXCEPT ![f].val = val])
    BY <1>3
  <2>2. Push(tree, key, value) = [tree EXCEPT ![f].val = Append(tree[f].val, value)]
    BY DEF Push, f
  <2>. QED  BY <2>1, <2>2
<1>. QED  BY <1>5, <1>6 DEF Write

(* The rules of CP2K's structures, but for the last, write under the text  *)
(* that matched.                                                           *)
LEMMA OptRulesWrite ==
  ASSUME NEW c, HasCp2kStructure(c), NEW i \in 1..Len(Rules(c)),
         NEW l \in Rules(c)[i].lines, l # "minimum"
  PROVE  Rules(c)[i].keys = <<>> /\ Rules(c)[i].how \in {"put", "push"}
<1>1. Rules(c) = <<ClockTimes, Scalar("Mixing_method:"), Scalar("eps_scf:"),
                   Scalar("eps_diis:"), List("ENERGY|_Total"), List("SCF_run_converged_in"),
                   Puts("minimum", <<"optimized">>)>>
  <2>1. Classes["opt"] = Cp2kOpt /\ Classes["vcopt"] = Cp2kVcOpt
    BY DEF Classes
  <2>. QED  BY <2>1 DEF HasCp2kStructure, Rules, Cp2kOpt, Cp2kVcOpt
<1>. DEFINE rules == Rules(c)
<1>. HIDE DEF rules
<1>2. Len(rules) = 7
  BY <1>1 DEF rules
<1>3. /\ rules[1] = ClockTimes /\ rules[2] = Scalar("Mixing_method:") /\ rules[3] = Scalar("eps_scf:")
      /\ rules[4] = Scalar("eps_diis:") /\ rules[5] = List("ENERGY|_Total")
      /\ rules[6] = List("SCF_run_converged_in") /\ rules[7] = Puts("minimum", <<"optimized">>)
  BY <1>1 DEF rules
<1>4. \A k : /\ Scalar(k).keys = <<>> /\ List(k).keys = <<>> /\ ClockTimes.keys = <<>>
             /\ Scalar(k).how = "put" /\ List(k).how = "push" /\ ClockTimes.how = "put"
             /\ \A keys : Puts(k, keys).lines = {k}
  BY DEF Scalar, List, ClockTimes, Rule, Puts
<1>5. i \in 1..7 /\ l \in rules[i].lines
  BY <1>2 DEF rules
<1>6. i = 1 \/ i = 2 \/ i = 3 \/ i = 4 \/ i = 5 \/ i = 6 \/ i = 7
  BY <1>5
<1>7. i # 7
  BY <1>3, <1>4, <1>5
<1>. QED  BY <1>3, <1>4, <1>6, <1>7 DEF rules

LEMMA NoLineIsOptimized ==
  ASSUME NEW c, HasCp2kStructure(c)
  PROVE  "optimized" \notin Kinds(c)
<1>1. \A x, y : Range(<<x, y>>) = {x, y}
  BY DEF Range
<1>2. /\ Classes["opt"].head = <<"STARTED_AT", "eps_scf:">>
      /\ Classes["vcopt"].head = <<"STARTED_AT", "eps_diis:">>
      /\ Classes["opt"].step = <<"SCF_run_converged_in", "ENERGY|_Total">>
      /\ Classes["vcopt"].step = <<"SCF_run_converged_in", "ENERGY|_Total">>
      /\ Classes["opt"].converged = <<"minimum", "ENDED_AT">>
      /\ Classes["vcopt"].converged = <<"minimum", "ENDED_AT">>
  BY DEF Classes, Cp2kOpt, Cp2kVcOpt
<1>3. c = "opt" \/ c = "vcopt"
  BY DEF HasCp2kStructure
<1>4. \A k \in {"opt", "vcopt"} :
          /\ "optimized" \notin Range(Classes[k].head) /\ "optimized" \notin Range(Classes[k].step)
          /\ "optimized" \notin Range(Classes[k].converged)
  <2>1. /\ "optimized" \notin Range(Classes["opt"].head) /\ "optimized" \notin Range(Classes["opt"].step)
        /\ "optimized" \notin Range(Classes["opt"].converged)
    BY <1>1, <1>2
  <2>2. /\ "optimized" \notin Range(Classes["vcopt"].head) /\ "optimized" \notin Range(Classes["vcopt"].step)
        /\ "optimized" \notin Range(Classes["vcopt"].converged)
    BY <1>1, <1>2
  <2>. QED  BY <2>1, <2>2
<1>. QED  BY <1>3, <1>4 DEF Kinds

(* Only the line that tells of convergence sets it.                        *)
LEMMA OtherLines ==
  ASSUME NEW c, HasCp2kStructure(c), NEW line \in Lines(c), line.line # "minimum",
         NEW tree, IsTree(tree), NotYet(tree)
  PROVE  NotYet(ApplyAll(tree, c, line))
<1>. DEFINE rules == Rules(c)
            S == Range(rules)
            n == Len(rules)
<1>1. c \in DOMAIN Classes
  BY DEF HasCp2kStructure, Classes
<1>2. Sound(rules)
  BY <1>1, RulesAreSound
<1>3. rules \in Seq(S) /\ n \in Nat
  BY <1>2 DEF Sound
<1>. HIDE DEF rules, S, n
<1>4. PICK a \in 0..n : \A i \in 1..n : line.line \in rules[i].lines <=> i = a
  BY <1>2, <1>3, OneRuleOrNone DEF n
<1>5. ApplyRules(tree, rules, line) = IF a = 0 THEN tree ELSE ApplyRule(tree, rules[a], line)
  BY <1>3, <1>4, OneRuleApplies DEF n
<1>6. CASE a = 0
  BY <1>5, <1>6 DEF ApplyAll, rules
<1>7. CASE a # 0
  <2>1. a \in 1..n /\ line.line \in rules[a].lines
    BY <1>3, <1>4, <1>7
  <2>3. rules[a].keys = <<>> /\ rules[a].how \in {"put", "push"}
    BY <2>1, OptRulesWrite DEF rules, n
  <2>4. line.line # "optimized" /\ line.of \in Steps
    BY NoLineIsOptimized DEF Lines
  <2>5. PICK K : {line.line} \subseteq K /\ tree \in Seq(Entry(K))
    BY TreeGrows
  <2>. DEFINE V == {t \in Seq(Entry(K)) : NotYet(t)}
              rule == rules[a]
              value == Value(line)
  <2>6. value \in Steps
    BY <2>4 DEF Value, Yes, Steps
  <2>. HIDE DEF value
  <2>7. \A t \in V : Write(t, rule.how, line.line, value) \in V
    <3>. SUFFICES ASSUME NEW t \in V PROVE Write(t, rule.how, line.line, value) \in V
      OBVIOUS
    <3>1. t \in Seq(Entry(K)) /\ NotYet(t) /\ line.line \in K
      BY <2>5
    <3>. HIDE DEF V, rule
    <3>2. rule.how \in {"put", "push"} /\ rule.how \in {"put", "push", "renew"}
      BY <2>3 DEF rule
    <3>3. Write(t, rule.how, line.line, value) \in Seq(Entry(K))
      BY <2>6, <3>1, <3>2, WriteTyped
    <3>4. NotYet(Write(t, rule.how, line.line, value))
      BY <2>4, <3>1, <3>2, OthersWrite
    <3>. QED  BY <3>3, <3>4 DEF V
  <2>8. tree \in V
    BY <2>5
  <2>. HIDE DEF V
  <2>9. Range(rule.keys) = {} /\ rule.keys \in Seq(V)
    BY <2>3 DEF Range
  <2>10. \A t \in V : \A key \in Range(rule.keys) \cup {line.line} :
            (rule.keys = <<>> \/ key \in Range(rule.keys)) => Write(t, rule.how, key, Value(line)) \in V
    BY <2>7, <2>9 DEF value
  <2>. HIDE DEF rule
  <2>11. ApplyRule(tree, rule, line) \in V
    BY <2>8, <2>9, <2>10, ApplyRuleStays
  <2>12. NotYet(ApplyRule(tree, rule, line))
    BY <2>11 DEF V
  <2>. QED  BY <1>5, <1>7, <2>12 DEF ApplyAll, rules, rule
<1>. QED  BY <1>6, <1>7

LEMMA ConstructedIsNot ==
  ASSUME NEW c, HasCp2kStructure(c)
  PROVE  NotYet(Constructed(c))
<1>. DEFINE lists == Classes[c].lists
            first == [i \in DOMAIN lists |-> [key |-> lists[i], val |-> <<>>]]
            e == [key |-> "optimized", val |-> <<No>>]
<1>1. lists = <<"ENERGY|_Total", "SCF_run_converged_in">>
  <2>1. Classes["opt"] = Cp2kOpt /\ Classes["vcopt"] = Cp2kVcOpt
    BY DEF Classes
  <2>. QED  BY <2>1 DEF HasCp2kStructure, Cp2kOpt, Cp2kVcOpt
<1>2. Constructed(c) = first \o <<e>>
  BY DEF Constructed
<1>3. first = <<[key |-> "ENERGY|_Total", val |-> <<>>], [key |-> "SCF_run_converged_in", val |-> <<>>]>>
  BY <1>1
<1>4. \A x, y, z : LET t == <<x, y>> \o <<z>>
                   IN  DOMAIN t = 1..3 /\ t[1] = x /\ t[2] = y /\ t[3] = z
  <2>. TAKE x, y, z
  <2>. DEFINE S == {x, y, z}
  <2>1. x \in S /\ y \in S /\ z \in S
    OBVIOUS
  <2>. HIDE DEF S
  <2>2. <<x, y>> \in Seq(S) /\ <<z>> \in Seq(S) /\ Len(<<x, y>>) = 2 /\ Len(<<z>>) = 1
    BY <2>1
  <2>. DEFINE s == <<x, y>>
              u == <<z>>
  <2>3. s[1] = x /\ s[2] = y /\ u[1] = z /\ s \in Seq(S) /\ u \in Seq(S) /\ Len(s) = 2 /\ Len(u) = 1
    BY <2>2
  <2>. HIDE DEF s, u
  <2>. DEFINE t == s \o u
  <2>4. /\ t \in Seq(S) /\ Len(t) = Len(s) + Len(u)
        /\ (\A i \in 1..Len(s) : t[i] = s[i]) /\ \A i \in 1..Len(u) : t[Len(s) + i] = u[i]
    <3>1. s \in Seq(S) /\ u \in Seq(S)
      BY <2>3
    <3>. QED  BY <3>1, ConcatIs
  <2>. HIDE DEF t
  <2>5. t \in Seq(S) /\ Len(t) = 3 /\ t[1] = x /\ t[2] = y /\ t[2 + 1] = z
    BY <2>3, <2>4
  <2>6. DOMAIN t = 1..3 /\ t[1] = x /\ t[2] = y /\ t[3] = z
    BY <2>5
  <2>. QED  BY <2>6 DEF s, u, t
<1>. HIDE DEF lists
<1>. DEFINE tree == Constructed(c)
            one == [key |-> "ENERGY|_Total", val |-> <<>>]
            two == [key |-> "SCF_run_converged_in", val |-> <<>>]
<1>5. /\ DOMAIN tree = 1..3 /\ tree[3] = e /\ tree[1].key = "ENERGY|_Total"
      /\ tree[2].key = "SCF_run_converged_in"
  <2>1. one.key = "ENERGY|_Total" /\ two.key = "SCF_run_converged_in"
    OBVIOUS
  <2>2. tree = <<one, two>> \o <<e>>
    BY <1>2, <1>3
  <2>. HIDE DEF tree, one, two, e, first
  <2>3. DOMAIN tree = 1..3 /\ tree[1] = one /\ tree[2] = two /\ tree[3] = e
    BY <1>4, <2>2
  <2>. QED  BY <2>1, <2>3
<1>. HIDE DEF tree
<1>6. \A i \in 1..3 : i = 1 \/ i = 2 \/ i = 3
  OBVIOUS
<1>7. NotYet(tree)
  BY <1>5, <1>6 DEF NotYet
<1>. QED  BY <1>7 DEF tree

(* How an execution ended is remembered.                                   *)
EndsInv ==
    /\ pass \in 0..MaxPasses
    /\ DOMAIN ends = 1..MaxPasses
    /\ Over => wrote["out"] > 0 /\ pass > 0 /\ ends[pass] = [how |-> phase, step |-> wrote["out"]]

(* Frame f is the last one of a calculation that converged.                *)
Final(f) ==
    /\ f[1] \in 1..pass /\ f[2] > 0
    /\ ends[f[1]] = [how |-> "converged", step |-> f[2]]
    /\ f[1] = pass => phase = "converged"

(* What tells of convergence, in the output, in the lines that were read   *)
(* and in the tree, is there only after the calculation converged: for     *)
(* CP2K, which appends to its output, as long as it was executed once.     *)
ToldInv ==
    /\ class = "qe" /\ Has(out, "End_final_coordinates") => phase = "converged"
    /\ HasCp2kStructure(class) /\ pass <= 1 =>
          /\ Has(out, "minimum") \/ Has(lines, "minimum") => phase = "converged"
          /\ Has(lines, "minimum") \/ (NotYet(info) /\ NotYet(settled))
          /\ pc = "cell" /\ ~NotYet(info) =>
                phase = "converged" /\ frame = <<pass, StepsIn("pos")>>

FinalInv ==
    /\ pc = "geometry" => class = "elk"
    /\ pc = "min" => class = "octopus"
    /\ "optimized.xyz" \in DOMAIN post /\ (class = "qe" \/ (HasCp2kStructure(class) /\ pass <= 1)) =>
          Final(post["optimized.xyz"].frame)

OptInv == EndsInv /\ ToldInv /\ FinalInv

LEMMA OptInvImplies == OptInv => OptimizedIsFinal
<1>. SUFFICES ASSUME OptInv, "optimized.xyz" \in DOMAIN post,
                     class = "qe" \/ (HasCp2kStructure(class) /\ pass = 1)
              PROVE  LET f == post["optimized.xyz"].frame
                     IN f[2] > 0 /\ ends[f[1]] = [how |-> "converged", step |-> f[2]]
  BY DEF OptimizedIsFinal
<1>1. pass = 1 => pass <= 1
  OBVIOUS
<1>. QED  BY <1>1 DEF OptInv, FinalInv, Final

LEMMA OptInvInit == Init => OptInv
<1>. SUFFICES ASSUME Init PROVE OptInv
  OBVIOUS
<1>1. /\ pass = 0 /\ phase = "none" /\ out = <<>> /\ lines = <<>> /\ pc = "none"
      /\ DOMAIN post = {} /\ DOMAIN ends = 1..MaxPasses /\ MaxPasses \in Nat
      /\ info = Constructed(class) /\ settled = info
  BY PostAssumption DEF Init, PostAssumption
<1>2. EndsInv
  BY <1>1 DEF EndsInv, Over
<1>3. HasCp2kStructure(class) => NotYet(info) /\ NotYet(settled)
  BY <1>1, ConstructedIsNot
<1>4. \A text : ~Has(<<>>, text)
  BY DEF Has
<1>5. ToldInv
  BY <1>1, <1>3, <1>4 DEF ToldInv
<1>6. FinalInv
  BY <1>1 DEF FinalInv
<1>. QED  BY <1>2, <1>5, <1>6 DEF OptInv

(* The calculation ends and starts again.                                  *)
LEMMA CalculationTells ==
  ASSUME IInv, ReadInv, OptInv, Calculate
  PROVE  OptInv'
<1>0. /\ Typed /\ MaxPasses \in Nat /\ FilesInv
      /\ \A v \in Steps : /\ Of(Classes[class].head, v) \in Seq(Lines(class))
                          /\ Of(Classes[class].step, v) \in Seq(Lines(class))
  BY TypedOf, TextsOfClasses, LinesOf, PostAssumption DEF IInv, Typed, PostAssumption
<1>1. EndsInv /\ ToldInv /\ FinalInv /\ pass \in Nat
  BY DEF OptInv, EndsInv
<1>. DEFINE L == Lines(class)
<1>2. out \in Seq(L) /\ <<>> \in Seq(L)
  BY DEF ReadInv
<1>3. /\ HasCp2kStructure(class) => /\ "minimum" \notin Range(Classes[class].head)
                                    /\ "minimum" \notin Range(Classes[class].step)
      /\ class = "qe" => /\ "End_final_coordinates" \notin Range(Classes[class].head)
                         /\ "End_final_coordinates" \notin Range(Classes[class].step)
  BY ConvergedLast DEF HasCp2kStructure
<1>4. /\ \A v : HasCp2kStructure(class) => /\ ~Has(Of(Classes[class].head, v), "minimum")
                                           /\ ~Has(Of(Classes[class].step, v), "minimum")
      /\ \A v : class = "qe" => /\ ~Has(Of(Classes[class].head, v), "End_final_coordinates")
                                /\ ~Has(Of(Classes[class].step, v), "End_final_coordinates")
  BY <1>3, HasOf
<1>5. \A text : ~Has(<<>>, text)
  BY DEF Has
<1>. HIDE DEF L
<1>6. CASE Start
  <2>. DEFINE before == IF class \in {"opt", "vcopt", "md"} THEN out ELSE <<>>
              new == Of(Classes[class].head, <<pass + 1, 0>>)
  <2>1. /\ pass' = pass + 1 /\ phase' = "running" /\ pass < MaxPasses /\ out' = before \o new
        /\ UNCHANGED <<class, ends, pc, lines, info, settled, frame, post>>
    BY <1>6 DEF Start, object
  <2>2. <<pass + 1, 0>> \in Steps /\ new \in Seq(L) /\ before \in Seq(L)
    <3>1. <<pass + 1, 0>> \in Steps
      BY <1>1 DEF Steps
    <3>. QED  BY <1>0, <1>2, <3>1 DEF L
  <2>3. EndsInv'
    BY <1>0, <1>1, <2>1 DEF EndsInv, Over
  <2>. HIDE DEF new
  <2>4. \A text : Has(out', text) <=> Has(before, text) \/ Has(new, text)
    BY <2>1, <2>2, HasConcat
  <2>5. FinalInv'
    BY <1>1, <2>1 DEF FinalInv, Final
  <2>6. ~(class = "qe" /\ Has(out', "End_final_coordinates"))
    BY <1>4, <1>5, <2>4 DEF new
  <2>7. ASSUME HasCp2kStructure(class), pass + 1 <= 1
        PROVE  /\ ~Has(out', "minimum") /\ ~Has(lines, "minimum")
               /\ NotYet(info) /\ NotYet(settled)
    <3>1. pass = 0 /\ pass <= 1
      BY <1>1, <2>7
    <3>2. phase = "none"
      BY <1>0, <3>1 DEF Typed
    <3>3. ~Has(out, "minimum") /\ ~Has(lines, "minimum") /\ NotYet(info) /\ NotYet(settled)
      BY <1>1, <2>7, <3>1, <3>2 DEF ToldInv
    <3>. QED  BY <1>4, <1>5, <2>4, <2>7, <3>3 DEF new
  <2>8. ToldInv'
    <3>1. /\ Has(lines', "minimum") <=> Has(lines, "minimum")
          /\ NotYet(info') <=> NotYet(info)
          /\ NotYet(settled') <=> NotYet(settled)
          /\ HasCp2kStructure(class)' <=> HasCp2kStructure(class)
      BY <2>1
    <3>. QED  BY <2>1, <2>6, <2>7, <3>1 DEF ToldInv
  <2>. QED  BY <2>3, <2>5, <2>8 DEF OptInv
<1>7. ASSUME NEW f \in Files, WriteFile(f)
      PROVE  OptInv'
  <2>. DEFINE new == Of(Classes[class].step, <<pass, wrote["out"] + 1>>)
  <2>1. /\ phase = "running" /\ out' = IF f = "out" THEN out \o new ELSE out
        /\ UNCHANGED <<class, pass, phase, ends, pc, lines, info, settled, frame, post>>
    BY <1>7 DEF WriteFile, object
  <2>2. new \in Seq(L)
    <3>1. <<pass, wrote["out"] + 1>> \in Steps
      BY <1>0 DEF Steps, Typed
    <3>. QED  BY <1>0, <3>1 DEF L
  <2>. HIDE DEF new
  <2>3. \A text : Has(out', text) <=> Has(out, text) \/ (f = "out" /\ Has(new, text))
    BY <1>2, <2>1, <2>2, HasConcat
  <2>4. EndsInv'
    BY <1>1, <2>1 DEF EndsInv, Over
  <2>5. FinalInv'
    BY <1>1, <2>1 DEF FinalInv, Final
  <2>6. /\ class = "qe" => ~Has(out', "End_final_coordinates")
        /\ HasCp2kStructure(class) /\ pass <= 1 =>
              ~Has(out', "minimum") /\ ~Has(lines, "minimum") /\ NotYet(info) /\ NotYet(settled)
    BY <1>1, <1>4, <2>1, <2>3 DEF ToldInv, new
  <2>7. ToldInv'
    <3>1. /\ Has(lines', "minimum") <=> Has(lines, "minimum")
          /\ NotYet(info') <=> NotYet(info)
          /\ NotYet(settled') <=> NotYet(settled)
          /\ HasCp2kStructure(class)' <=> HasCp2kStructure(class)
      BY <2>1
    <3>. QED  BY <2>1, <2>6, <3>1 DEF ToldInv
  <2>. QED  BY <2>4, <2>5, <2>7 DEF OptInv
<1>8. ASSUME NEW how \in {"converged", "cut"}, End(how)
      PROVE  OptInv'
  <2>1. /\ phase = "running" /\ phase' = how /\ wrote["out"] > 0
        /\ ends' = [ends EXCEPT ![pass] = [how |-> how, step |-> wrote["out"]]]
        /\ how # "converged" => out' = out
        /\ UNCHANGED <<class, pass, wrote, pc, lines, info, settled, frame, post>>
    BY <1>8 DEF End, object
  <2>2. pass \in 1..MaxPasses
    <3>1. pass # 0
      BY <1>0, <2>1 DEF Typed
    <3>. QED  BY <1>0, <1>1, <3>1 DEF EndsInv
  <2>3. EndsInv'
    BY <1>1, <2>1, <2>2 DEF EndsInv, Over
  <2>4. ASSUME NEW x, Final(x)
        PROVE  Final(x)'
    <3>1. x[1] # pass
      BY <2>1, <2>4 DEF Final
    <3>2. ends'[x[1]] = ends[x[1]]
      BY <1>1, <2>1, <3>1 DEF EndsInv
    <3>. QED  BY <2>1, <2>4, <3>1, <3>2 DEF Final
  <2>5. FinalInv'
    BY <1>1, <2>1, <2>4 DEF FinalInv
  <2>6. /\ class = "qe" => ~Has(out, "End_final_coordinates")
        /\ HasCp2kStructure(class) /\ pass <= 1 =>
              ~Has(out, "minimum") /\ ~Has(lines, "minimum") /\ NotYet(info) /\ NotYet(settled)
    BY <1>1, <2>1 DEF ToldInv
  <2>7. ToldInv'
    <3>1. /\ Has(lines', "minimum") <=> Has(lines, "minimum")
          /\ NotYet(info') <=> NotYet(info)
          /\ NotYet(settled') <=> NotYet(settled)
          /\ HasCp2kStructure(class)' <=> HasCp2kStructure(class)
      BY <2>1
    <3>. QED  BY <2>1, <2>6, <3>1 DEF ToldInv
  <2>. QED  BY <2>3, <2>5, <2>7 DEF OptInv
<1>. QED  BY <1>6, <1>7, <1>8 DEF Calculate

(* A step that leaves the calculation, the lines and the saved structures  *)
(* alone, and after which run() is not at the cell of a structure.         *)
LEMMA ToldStays ==
  ASSUME OptInv, UNCHANGED <<calculation, lines, info, settled>>,
         pc' # "cell" \/ UNCHANGED <<pc, frame>>
  PROVE  EndsInv' /\ ToldInv'
<1>1. UNCHANGED <<class, pass, phase, wrote, out, ends>>
  BY DEF calculation
<1>2. EndsInv'
  BY <1>1 DEF OptInv, EndsInv, Over
<1>3. StepsIn("pos")' = StepsIn("pos") /\ HasCp2kStructure(class)' = HasCp2kStructure(class)
  BY <1>1 DEF StepsIn
<1>4. /\ Has(lines', "minimum") <=> Has(lines, "minimum")
      /\ Has(out', "minimum") <=> Has(out, "minimum")
      /\ Has(out', "End_final_coordinates") <=> Has(out, "End_final_coordinates")
      /\ NotYet(info') <=> NotYet(info)
      /\ NotYet(settled') <=> NotYet(settled)
  BY <1>1
<1>5. ToldInv'
  <2>1. class' = "qe" /\ Has(out', "End_final_coordinates") => phase' = "converged"
    BY <1>1, <1>4 DEF OptInv, ToldInv
  <2>2. ASSUME HasCp2kStructure(class'), pass' <= 1
        PROVE  /\ Has(out', "minimum") \/ Has(lines', "minimum") => phase' = "converged"
               /\ Has(lines', "minimum") \/ (NotYet(info') /\ NotYet(settled'))
               /\ pc' = "cell" /\ ~NotYet(info') =>
                     phase' = "converged" /\ frame' = <<pass', StepsIn("pos")'>>
    <3>1. HasCp2kStructure(class) /\ pass <= 1
      BY <1>1, <2>2
    <3>. QED  BY <1>1, <1>3, <1>4, <3>1 DEF OptInv, ToldInv
  <2>. QED  BY <2>1, <2>2 DEF ToldInv
<1>. QED  BY <1>2, <1>5

LEMMA FinalStays ==
  ASSUME OptInv, UNCHANGED calculation, pc' \notin {"geometry", "min"} \/ pc' = pc,
         "optimized.xyz" \in DOMAIN post' =>
             "optimized.xyz" \in DOMAIN post /\ post'["optimized.xyz"] = post["optimized.xyz"]
  PROVE  FinalInv'
<1>1. UNCHANGED <<class, pass, phase, wrote, out, ends>>
  BY DEF calculation
<1>2. \A x : Final(x)' <=> Final(x)
  BY <1>1 DEF Final
<1>3. HasCp2kStructure(class)' = HasCp2kStructure(class)
  BY <1>1
<1>. QED  BY <1>1, <1>2, <1>3 DEF OptInv, FinalInv

(* One more line for the tree: it is not set as long as no line tells.     *)
LEMMA LineTells ==
  ASSUME ReadInv, Typed, HasCp2kStructure(class), at \in DOMAIN lines, ~Has(lines, "minimum"),
         NEW tree, IsTree(tree), NotYet(tree)
  PROVE  NotYet(ApplyAll(tree, class, lines[at]))
<1>1. lines[at] \in Lines(class)
  BY ElementsOfSeq DEF ReadInv
<1>2. lines[at].line # "minimum"
  BY DEF Has
<1>. DEFINE line == lines[at]
<1>. HIDE DEF line
<1>3. NotYet(ApplyAll(tree, class, line))
  BY <1>1, <1>2, OtherLines DEF line
<1>. QED  BY <1>3 DEF line

LEMMA ReadsAfter ==
  ASSUME class \in DOMAIN Classes, Classes[class].after # <<>>
  PROVE  /\ Head(Classes[class].after) = "geometry" => class = "elk"
         /\ Head(Classes[class].after) = "min" => class = "octopus"
<1>1. DOMAIN Classes = {"opt", "vcopt", "md", "qe", "elk", "octopus", "gamessus", "nwchem"}
  BY DEF Classes
<1>2. /\ Classes["opt"].after = <<"pos", "cell">> /\ Classes["vcopt"].after = <<"pos", "cell">>
      /\ Classes["md"].after = <<>> /\ Classes["qe"].after = <<"out">>
      /\ Classes["elk"].after = <<"geometry">> /\ Classes["octopus"].after = <<"min">>
      /\ Classes["gamessus"].after = <<>> /\ Classes["nwchem"].after = <<>>
  BY DEF Classes, Cp2kOpt, Cp2kVcOpt, Cp2kMd, QeOpt, ElkOpt, OctopusOpt, GamessOpt, NwchemOpt
<1>. QED  BY <1>1, <1>2

LEMMA RunTells ==
  ASSUME IInv, ReadInv, OptInv, Construct \/ Run
  PROVE  OptInv'
<1>0. Typed /\ FilesInv /\ RunInv /\ EndsInv /\ ToldInv /\ FinalInv
  BY TypedOf DEF IInv, OptInv
<1>1. UNCHANGED calculation
  BY DEF Construct, Run, BeginRun, ReadLines, Thread, Join, WriteJson, ReadPositions, ReadCell,
         ReadOutAgain, ReadGeometry, ReadMin, Crash, SaveOptimized
<1>2. UNCHANGED <<class, pass, phase, wrote, out, ends>>
  BY <1>1 DEF calculation
<1>3. EndsInv'
  BY <1>0, <1>2 DEF EndsInv, Over
<1>4. /\ Has(out', "minimum") <=> Has(out, "minimum")
      /\ Has(out', "End_final_coordinates") <=> Has(out, "End_final_coordinates")
      /\ HasCp2kStructure(class)' <=> HasCp2kStructure(class)
  BY <1>2
<1>5. ASSUME pc' # "cell",
             HasCp2kStructure(class) /\ pass <= 1 =>
                /\ Has(lines', "minimum") => phase = "converged"
                /\ Has(lines', "minimum") \/ (NotYet(info') /\ NotYet(settled'))
      PROVE  ToldInv'
  <2>1. class' = "qe" /\ Has(out', "End_final_coordinates") => phase' = "converged"
    BY <1>0, <1>2, <1>4 DEF ToldInv
  <2>2. ASSUME HasCp2kStructure(class'), pass' <= 1
        PROVE  /\ Has(out', "minimum") \/ Has(lines', "minimum") => phase' = "converged"
               /\ Has(lines', "minimum") \/ (NotYet(info') /\ NotYet(settled'))
    <3>1. HasCp2kStructure(class) /\ pass <= 1
      BY <1>2, <2>2
    <3>. QED  BY <1>0, <1>2, <1>4, <1>5, <3>1 DEF ToldInv
  <2>. QED  BY <1>5, <2>1, <2>2 DEF ToldInv
<1>6. CASE Construct
  <2>1. lines' = <<>> /\ info' = Constructed(class) /\ settled' = info' /\ pc' = "idle" /\ post' = post
    BY <1>6 DEF Construct
  <2>2. FinalInv'
    BY <1>1, <2>1, FinalStays
  <2>3. ~Has(lines', "minimum")
    BY <2>1 DEF Has
  <2>4. HasCp2kStructure(class) => NotYet(info') /\ NotYet(settled')
    BY <2>1, ConstructedIsNot
  <2>5. ToldInv'
    BY <1>5, <2>1, <2>3, <2>4
  <2>. QED  BY <1>3, <2>2, <2>5 DEF OptInv
<1>7. CASE BeginRun
  <2>1. /\ UNCHANGED <<lines, post>> /\ info' = ExtraInfo(info) /\ settled' = info' /\ pc = "idle" /\ pc' = "open"
    BY <1>7 DEF BeginRun
  <2>2. FinalInv'
    BY <1>1, <2>1, FinalStays
  <2>3. HasCp2kStructure(class) => info' = info /\ settled' = info
    BY <2>1 DEF ExtraInfo, HasCp2kStructure
  <2>4. ToldInv'
    BY <1>0, <1>5, <2>1, <2>3 DEF ToldInv
  <2>. QED  BY <1>3, <2>2, <2>4 DEF OptInv
<1>8. CASE ReadLines
  <2>1. lines' = lines \o out /\ UNCHANGED <<info, settled, post>> /\ pc' = "rules"
    BY <1>8 DEF ReadLines
  <2>2. FinalInv'
    BY <1>1, <2>1, FinalStays
  <2>3. Has(lines', "minimum") <=> Has(lines, "minimum") \/ Has(out, "minimum")
    <3>. DEFINE L == Lines(class)
    <3>1. lines \in Seq(L) /\ out \in Seq(L)
      BY DEF ReadInv
    <3>. HIDE DEF L
    <3>. QED  BY <2>1, <3>1, HasConcat
  <2>4. ToldInv'
    BY <1>0, <1>5, <2>1, <2>3 DEF ToldInv
  <2>. QED  BY <1>3, <2>2, <2>4 DEF OptInv
<1>9. ASSUME NEW t \in Threads, Thread(t)
      PROVE  OptInv'
  <2>1. /\ UNCHANGED <<lines, settled, post, pc>> /\ pc = "rules" /\ at <= Len(lines) /\ t \in busy
        /\ info' = ApplyRules(info, RulesOf(Rules(class), t), lines[at])
    BY <1>9 DEF Thread
  <2>2. FinalInv'
    BY <1>1, <2>1, FinalStays
  <2>3. t \in AtWork(lines, at) /\ at \in DOMAIN lines /\ IsTree(info)
    BY <2>1 DEF ReadInv, ThreadInv
  <2>4. info' = ApplyAll(info, class, lines[at])
    BY <1>0, <2>1, <2>3, AtMostOneAtWork DEF Typed
  <2>5. HasCp2kStructure(class) /\ ~Has(lines, "minimum") /\ NotYet(info) => NotYet(info')
    BY <1>0, <2>3, <2>4, LineTells
  <2>6. ToldInv'
    BY <1>0, <1>5, <2>1, <2>5 DEF ToldInv
  <2>. QED  BY <1>3, <2>2, <2>6 DEF OptInv
<1>10. CASE Join
  <2>1. UNCHANGED <<lines, info, post, pc>> /\ settled' = info /\ pc = "rules"
    BY <1>10 DEF Join
  <2>2. FinalInv'
    BY <1>1, <2>1, FinalStays
  <2>3. ToldInv'
    BY <1>0, <1>5, <2>1 DEF ToldInv
  <2>. QED  BY <1>3, <2>2, <2>3 DEF OptInv
<1>11. CASE WriteJson
  <2>1. /\ UNCHANGED <<lines, info, settled>> /\ post' = Save("json", info)
        /\ pc' = IF Classes[class].after = <<>> THEN "idle" ELSE Head(Classes[class].after)
    BY <1>11 DEF WriteJson
  <2>2. pc' # "cell" /\ (pc' = "geometry" => class = "elk") /\ (pc' = "min" => class = "octopus")
    BY <1>0, <2>1, ReadsAfterRules, ReadsAfter DEF Typed
  <2>3. "optimized.xyz" \in DOMAIN post' =>
             "optimized.xyz" \in DOMAIN post /\ post'["optimized.xyz"] = post["optimized.xyz"]
    BY <2>1 DEF Save
  <2>4. \A x : Final(x)' <=> Final(x)
    BY <1>2 DEF Final
  <2>5. FinalInv'
    BY <1>0, <1>2, <2>2, <2>3, <2>4 DEF FinalInv
  <2>6. ToldInv'
    BY <1>0, <1>5, <2>1, <2>2 DEF ToldInv
  <2>. QED  BY <1>3, <2>5, <2>6 DEF OptInv
<1>12. CASE Crash
  <2>1. UNCHANGED <<lines, info, settled, post>> /\ pc' = "crashed"
    BY <1>12 DEF Crash, object
  <2>2. FinalInv'
    BY <1>1, <2>1, FinalStays
  <2>3. ToldInv'
    BY <1>0, <1>5, <2>1 DEF ToldInv
  <2>. QED  BY <1>3, <2>2, <2>3 DEF OptInv
<1>13. CASE ReadPositions /\ ~Crash
  <2>1. /\ UNCHANGED <<lines, info, settled, post>> /\ pc = "pos" /\ pc' = "cell"
        /\ frame' = <<pass, StepsIn("pos")>>
    BY <1>13 DEF ReadPositions, StepsIn, object
  <2>2. FinalInv'
    BY <1>1, <2>1, FinalStays
  <2>3. StepsIn("pos")' = StepsIn("pos")
    BY <1>2 DEF StepsIn
  <2>4. ToldInv'
    <3>1. class' = "qe" /\ Has(out', "End_final_coordinates") => phase' = "converged"
      BY <1>0, <1>2, <1>4 DEF ToldInv
    <3>2. ASSUME HasCp2kStructure(class'), pass' <= 1
          PROVE  /\ Has(out', "minimum") \/ Has(lines', "minimum") => phase' = "converged"
                 /\ Has(lines', "minimum") \/ (NotYet(info') /\ NotYet(settled'))
                 /\ ~NotYet(info') => phase' = "converged" /\ frame' = <<pass', StepsIn("pos")'>>
      <4>1. HasCp2kStructure(class) /\ pass <= 1
        BY <1>2, <3>2
      <4>2. /\ Has(out, "minimum") \/ Has(lines, "minimum") => phase = "converged"
            /\ Has(lines, "minimum") \/ (NotYet(info) /\ NotYet(settled))
        BY <1>0, <4>1 DEF ToldInv
      <4>. QED  BY <1>2, <1>4, <2>1, <2>3, <4>2
    <3>. QED  BY <3>1, <3>2 DEF ToldInv
  <2>. QED  BY <1>3, <2>2, <2>4 DEF OptInv
<1>14. CASE ReadCell /\ ~Crash
  <2>. DEFINE saved == [frame |-> frame, cell |-> <<pass, wrote["cell"]>>]
  <2>1. /\ UNCHANGED <<lines, info, settled>> /\ pc = "cell" /\ pc' = "idle"
        /\ wrote["cell"] > 0 /\ frame[2] > 0 /\ post' = Save(StructureName, saved)
    BY <1>14 DEF ReadCell, object
  <2>2. ToldInv'
    BY <1>0, <1>5, <2>1 DEF ToldInv
  <2>3. \A x : Final(x)' <=> Final(x)
    BY <1>2 DEF Final
  <2>4. CASE StructureName = "optimized.xyz"
    <3>1. post'["optimized.xyz"].frame = frame
      BY <2>1, <2>4 DEF Save
    <3>2. ASSUME pass <= 1 PROVE Final(frame)
      <4>1. HasCp2kStructure(class) /\ pass # 0
        BY <1>0, <2>1 DEF RunInv, FilesInv
      <4>2. info[First(info, "optimized")].val = <<Yes>>
        BY <2>4 DEF StructureName, Optimized
      <4>3. ~NotYet(info)
        <5>1. PICK K : info \in Seq(Entry(K))
          BY DEF ReadInv, IsTree
        <5>. QED  BY <4>2, <5>1, NotYetIsNo
      <4>4. phase = "converged" /\ frame = <<pass, StepsIn("pos")>>
        BY <1>0, <2>1, <3>2, <4>1, <4>3 DEF ToldInv
      <4>5. StepsIn("pos") = wrote["out"]
        BY <1>0, <4>1, <4>4, WrittenFiles DEF FilesInv, Over
      <4>6. ends[pass] = [how |-> "converged", step |-> wrote["out"]] /\ pass \in 1..pass
        BY <1>0, <4>1, <4>4 DEF EndsInv, Over
      <4>. QED  BY <2>1, <4>4, <4>5, <4>6 DEF Final
    <3>3. HasCp2kStructure(class) /\ pc' \notin {"geometry", "min"} /\ class # "qe"
      BY <1>0, <2>1 DEF RunInv, HasCp2kStructure
    <3>4. FinalInv'
      BY <1>2, <2>1, <2>3, <3>1, <3>2, <3>3 DEF FinalInv
    <3>. QED  BY <1>3, <2>2, <3>4 DEF OptInv
  <2>5. CASE StructureName # "optimized.xyz"
    <3>1. "optimized.xyz" \in DOMAIN post' =>
             "optimized.xyz" \in DOMAIN post /\ post'["optimized.xyz"] = post["optimized.xyz"]
      BY <2>1, <2>5 DEF Save
    <3>2. FinalInv'
      BY <1>1, <2>1, <3>1, FinalStays
    <3>. QED  BY <1>3, <2>2, <3>2 DEF OptInv
  <2>. QED  BY <2>4, <2>5
<1>15. ASSUME ReadOutAgain \/ ReadGeometry \/ ReadMin, ~Crash
       PROVE  OptInv'
  <2>1. \E x, y : SaveOptimized(x, y)
    BY <1>15 DEF ReadOutAgain, ReadGeometry, ReadMin
  <2>2. UNCHANGED <<lines, info, settled>> /\ pc' = "idle"
    BY <2>1 DEF SaveOptimized, object
  <2>3. ToldInv'
    BY <1>0, <1>5, <2>2 DEF ToldInv
  <2>4. ~HasCp2kStructure(class)
    BY <1>0, <1>15 DEF RunInv, ReadOutAgain, ReadGeometry, ReadMin
  <2>5. CASE class = "qe"
    <3>1. ReadOutAgain
      BY <1>0, <1>15, <2>5 DEF FinalInv, ReadGeometry, ReadMin
    <3>2. /\ Has(out, "End_final_coordinates")
          /\ post' = Save("optimized.xyz", [frame |-> <<pass, wrote["out"]>>, cell |-> <<pass, 0>>])
      BY <1>15, <3>1 DEF ReadOutAgain, SaveOptimized, Has
    <3>3. post'["optimized.xyz"].frame = <<pass, wrote["out"]>>
      BY <3>2 DEF Save
    <3>4. phase = "converged"
      BY <1>0, <2>5, <3>2 DEF ToldInv
    <3>5. Final(<<pass, wrote["out"]>>)
      BY <1>0, <3>4 DEF EndsInv, Over, Final
    <3>6. Final(<<pass, wrote["out"]>>)'
      BY <1>2, <3>5 DEF Final
    <3>7. FinalInv'
      BY <1>2, <2>2, <3>3, <3>6 DEF FinalInv
    <3>. QED  BY <1>3, <2>3, <3>7 DEF OptInv
  <2>6. CASE class # "qe"
    <3>1. FinalInv'
      BY <1>2, <2>2, <2>4, <2>6 DEF FinalInv
    <3>. QED  BY <1>3, <2>3, <3>1 DEF OptInv
  <2>. QED  BY <2>5, <2>6
<1>. QED  BY <1>6, <1>7, <1>8, <1>9, <1>10, <1>11, <1>12, <1>13, <1>14, <1>15 DEF Run

LEMMA OptInvNext ==
  ASSUME IInv, ReadInv, OptInv, [Next]_vars
  PROVE  OptInv'
<1>1. CASE Calculate
  BY <1>1, CalculationTells
<1>2. CASE Construct \/ Run
  BY <1>2, RunTells
<1>3. CASE UNCHANGED vars
  <2>1. UNCHANGED <<calculation, lines, info, settled, pc, frame, post>>
    BY <1>3 DEF vars, object
  <2>2. EndsInv' /\ ToldInv'
    BY <2>1, ToldStays
  <2>3. FinalInv'
    BY <2>1, FinalStays
  <2>. QED  BY <2>2, <2>3 DEF OptInv
<1>. QED  BY <1>1, <1>2, <1>3 DEF Next

(* A structure saved as optimized is the last one of a calculation that    *)
(* converged, it holds a whole frame, its cell is at most one step behind, *)
(* and not at all once the calculation is over (cp2k/post/opt.cpp:123-176, *)
(* qe/post/opt.cpp): for every number of steps, executions and calls, and  *)
(* whatever the calculation writes between the reads.                      *)
THEOREM SavedIsNamedRight == Spec => SavedStructure
<1>1. Init => IInv /\ ReadInv /\ OptInv
  BY IInvInit, ReadInvInit, OptInvInit
<1>2. IInv /\ ReadInv /\ OptInv /\ [Next]_vars => (IInv /\ ReadInv /\ OptInv)'
  BY IInvNext, ReadInvNext, OptInvNext, TypedOf DEF IInv
<1>3. OptInv => OptimizedIsFinal
  BY OptInvImplies
<1>. QED  BY <1>1, <1>2, <1>3, FramesAreWhole, FinishedIsOneStep, PTL DEF Spec, SavedStructure

-----------------------------------------------------------------------------
(* Repeats.  How often a line has been read, and a list been written.      *)

(* How many of the first m lines are of one text, and how many of all.     *)
Tally(ls, text, m) == Cardinality({i \in 1..m : ls[i].line = text})
Tallied(ls, text) == Tally(ls, text, Len(ls))

LEMMA TallyStep ==
  ASSUME NEW ls, NEW text, NEW m \in Nat, NEW k, k = m + 1
  PROVE  /\ Tally(ls, text, m) \in Nat
         /\ Tally(ls, text, k) = Tally(ls, text, m) + (IF ls[k].line = text THEN 1 ELSE 0)
<1>. DEFINE I == {i \in 1..m : ls[i].line = text}
            J == {i \in 1..k : ls[i].line = text}
<1>1. IsFiniteSet(I)
  <2>1. IsFiniteSet(1..m) /\ I \in SUBSET (1..m)
    BY FS_Interval
  <2>. HIDE DEF I
  <2>. QED  BY <2>1, FS_Subset
<1>2. Cardinality(I) \in Nat
  <2>. HIDE DEF I
  <2>. QED  BY <1>1, FS_CardinalityType
<1>3. CASE ls[k].line = text
  <2>1. J = I \cup {k} /\ k \notin I
    BY <1>3
  <2>. HIDE DEF I, J
  <2>2. Cardinality(J) = Cardinality(I) + 1
    BY <1>1, <2>1, FS_AddElement
  <2>. QED  BY <1>2, <1>3, <2>2 DEF Tally, I, J
<1>4. CASE ls[k].line # text
  <2>1. J = I
    BY <1>4
  <2>. HIDE DEF I, J
  <2>2. Cardinality(J) = Cardinality(I) + 0
    BY <1>2, <2>1
  <2>. QED  BY <1>2, <1>4, <2>2 DEF Tally, I, J
<1>. QED  BY <1>3, <1>4

LEMMA TallyNone ==
  ASSUME NEW ls, NEW text
  PROVE  Tally(ls, text, 0) = 0
<1>1. {i \in 1..0 : ls[i].line = text} = {}
  OBVIOUS
<1>. QED  BY <1>1, FS_EmptySet DEF Tally

LEMMA TallyConcat ==
  ASSUME NEW L, NEW s \in Seq(L), NEW t \in Seq(L), NEW text
  PROVE  /\ Tallied(s, text) \in Nat /\ Tallied(t, text) \in Nat
         /\ Tallied(s \o t, text) = Tallied(s, text) + Tallied(t, text)
<1>. DEFINE m == Len(s)
            n == Len(t)
            u == s \o t
            I == {k \in 0..n : Tally(u, text, m + k) = Tally(s, text, m) + Tally(t, text, k)}
<1>1. m \in Nat /\ n \in Nat /\ Len(u) = m + n
  OBVIOUS
<1>2. (\A i \in 1..m : u[i] = s[i]) /\ \A i \in 1..n : u[m + i] = t[i]
  BY ConcatIs
<1>3. Tally(s, text, m) \in Nat /\ Tally(t, text, n) \in Nat
  <2>. HIDE DEF m, n
  <2>. QED  BY <1>1, TallyNone, TallyStep
<1>. HIDE DEF m, n, u
<1>4. 0 \in I
  <2>1. {i \in 1..m : u[i].line = text} = {i \in 1..m : s[i].line = text}
    BY <1>2
  <2>2. Tally(u, text, m) = Tally(s, text, m)
    BY <2>1 DEF Tally
  <2>3. m + 0 = m /\ Tally(t, text, 0) = 0 /\ 0 \in 0..n
    BY <1>1, TallyNone, TallyStep
  <2>. QED  BY <1>3, <2>2, <2>3
<1>5. ASSUME NEW k \in 1..n, k - 1 \in I PROVE k \in I
  <2>. DEFINE j == k - 1
  <2>1. j \in Nat /\ j + 1 = k /\ m + j \in Nat /\ (m + j) + 1 = m + k /\ k \in 0..n
    BY <1>1
  <2>2. Tally(u, text, m + j) = Tally(s, text, m) + Tally(t, text, j)
    BY <1>5
  <2>. HIDE DEF j, I
  <2>3. u[m + k] = t[k]
    BY <1>2
  <2>4. Tally(t, text, j) \in Nat /\ Tally(t, text, k) = Tally(t, text, j) + (IF t[k].line = text THEN 1 ELSE 0)
    BY <2>1, TallyStep
  <2>5. Tally(u, text, m + k) = Tally(u, text, m + j) + (IF u[m + k].line = text THEN 1 ELSE 0)
    <3>. DEFINE b == m + j
    <3>1. b \in Nat /\ b + 1 = m + k
      BY <2>1
    <3>. HIDE DEF b
    <3>. DEFINE q == m + k
    <3>. HIDE DEF q
    <3>2. Tally(u, text, q) = Tally(u, text, b) + (IF u[q].line = text THEN 1 ELSE 0)
      BY <3>1, TallyStep DEF q
    <3>. QED  BY <3>2 DEF b, q
  <2>6. Tally(u, text, m + k) = Tally(s, text, m) + Tally(t, text, k)
    BY <1>3, <2>2, <2>3, <2>4, <2>5
  <2>. QED  BY <2>1, <2>6 DEF I
<1>. HIDE DEF I
<1>6. n \in I
  <2>1. n \in 0..n
    BY <1>1
  <2>. QED  BY <1>1, <1>4, <1>5, <2>1, InductionUpTo
<1>. QED  BY <1>1, <1>3, <1>6 DEF I, Tallied, m, n, u

LEMMA TallyOf ==
  ASSUME NEW text, NEW value
  PROVE  /\ Tallied(<<>>, text) = 0
         /\ Tallied(Of(<<>>, value), text) = 0
         /\ \A x : Tallied(Of(<<x>>, value), text) = IF x = text THEN 1 ELSE 0
         /\ \A x, y : Tallied(Of(<<x, y>>, value), text) =
                          (IF x = text THEN 1 ELSE 0) + (IF y = text THEN 1 ELSE 0)
<1>. DEFINE L(x) == [line |-> x, of |-> value]
<1>1. /\ Of(<<>>, value) = <<>>
      /\ \A x : Of(<<x>>, value) = <<L(x)>>
      /\ \A x, y : Of(<<x, y>>, value) = <<L(x), L(y)>>
  BY DEF Of
<1>2. \A x : L(x).line = x
  OBVIOUS
<1>3. Tallied(<<>>, text) = 0
  <2>1. Len(<<>>) = 0
    OBVIOUS
  <2>. QED  BY <2>1, TallyNone DEF Tallied
<1>. HIDE DEF L
<1>4. ASSUME NEW x PROVE Tallied(Of(<<x>>, value), text) = IF x = text THEN 1 ELSE 0
  <2>. DEFINE s == <<L(x)>>
  <2>1. Len(s) = 1 /\ s[1].line = x
    BY <1>2
  <2>. HIDE DEF s
  <2>2. Tally(s, text, 0) = 0 /\ Tally(s, text, 1) = Tally(s, text, 0) + (IF s[1].line = text THEN 1 ELSE 0)
    BY TallyNone, TallyStep, 1 = 0 + 1, 2 = 1 + 1
  <2>3. Tally(s, text, 1) = IF x = text THEN 1 ELSE 0
    BY <2>1, <2>2
  <2>. QED  BY <1>1, <2>1, <2>3 DEF s, Tallied
<1>5. ASSUME NEW x, NEW y
      PROVE  Tallied(Of(<<x, y>>, value), text) = (IF x = text THEN 1 ELSE 0) + (IF y = text THEN 1 ELSE 0)
  <2>. DEFINE s == <<L(x), L(y)>>
  <2>1. Len(s) = 2 /\ s[1].line = x /\ s[2].line = y
    BY <1>2
  <2>. HIDE DEF s
  <2>2. /\ Tally(s, text, 0) = 0 /\ Tally(s, text, 1) = Tally(s, text, 0) + (IF s[1].line = text THEN 1 ELSE 0)
        /\ Tally(s, text, 2) = Tally(s, text, 1) + (IF s[2].line = text THEN 1 ELSE 0)
    BY TallyNone, TallyStep, 1 = 0 + 1, 2 = 1 + 1
  <2>3. Tally(s, text, 1) = IF x = text THEN 1 ELSE 0
    BY <2>1, <2>2
  <2>4. Tally(s, text, 2) = (IF x = text THEN 1 ELSE 0) + (IF y = text THEN 1 ELSE 0)
    BY <2>1, <2>2, <2>3
  <2>. QED  BY <1>1, <2>1, <2>4 DEF s, Tallied
<1>. QED  BY <1>1, <1>3, <1>4, <1>5
-----------------------------------------------------------------------------
(* What Times counts: the numbers of s with the first of n repeated n      *)
(* times, the second n - 1 times.                                          *)
TimesOf(s) ==
    FoldLeft(LAMBDA n, i : n + (Len(s) + 1 - i) * s[i], 0, [i \in 1..Len(s) |-> i])

(* The sums of the first numbers of s, and their total.                    *)
SumsOf(s, f) == Iterates(f, Len(s), Nat, 0, [i \in 1..Len(s) |-> [n \in Nat |-> n + s[i]]])
SumsTo(s, total) == \E f : SumsOf(s, f) /\ f[Len(s)] = total

LEMMA TimesSteps ==
  ASSUME NEW s \in Seq(Nat)
  PROVE  \E g : /\ Iterates(g, Len(s), Nat, 0,
                            [i \in 1..Len(s) |-> [n \in Nat |-> n + (Len(s) + 1 - i) * s[i]]])
                /\ TimesOf(s) = g[Len(s)]
<1>. DEFINE k == Len(s)
            range == [i \in 1..k |-> i]
            step == [i \in 1..k |-> [n \in Nat |-> n + (k + 1 - i) * s[i]]]
            P(G) == G = [X \in SUBSET DOMAIN range |->
                          IF X = {} THEN 0
                          ELSE G[X \ {Max(X)}] + (k + 1 - range[Max(X)]) * s[range[Max(X)]]]
            C == CHOOSE G : P(G)
<1>1. k \in Nat /\ DOMAIN range = 1..k /\ \A i \in 1..k : range[i] = i
  OBVIOUS
<1>2. \A i \in 1..k : s[i] \in Nat
  OBVIOUS
<1>3. TimesOf(s) = C[DOMAIN range]
  BY DEF TimesOf, FoldLeft, MapThenFoldSet
<1>. HIDE DEF k, range
<1>4. step \in [1..k -> [Nat -> Nat]]
  <2>1. ASSUME NEW i \in 1..k, NEW n \in Nat PROVE n + (k + 1 - i) * s[i] \in Nat
    <3>1. k + 1 - i \in Nat /\ s[i] \in Nat
      BY <1>1, <1>2
    <3>2. \A a, b \in Nat : n + a * b \in Nat
      OBVIOUS
    <3>. QED  BY <3>1, <3>2
  <2>. QED  BY <2>1
<1>5. PICK F : FoldsOver(F, k, Nat, 0, step)
  <2>1. 0 \in Nat
    OBVIOUS
  <2>. HIDE DEF step
  <2>. QED  BY <1>1, <1>4, <2>1, FoldDefines
<1>6. ASSUME NEW X \in SUBSET (1..k), X # {}
      PROVE  F[X] = F[X \ {Max(X)}] + (k + 1 - range[Max(X)]) * s[range[Max(X)]]
  <2>. DEFINE m == Max(X)
              U == X \ {m}
  <2>1. m \in 1..k /\ U \in SUBSET (1..k)
    BY <1>1, <1>6, MaxOfNumbers
  <2>2. F[U] \in Nat /\ F[X] = step[m][F[U]]
    <3>. HIDE DEF step
    <3>. QED  BY <1>5, <1>6, <2>1 DEF FoldsOver
  <2>3. range[m] = m
    BY <1>1, <2>1
  <2>. HIDE DEF m, U
  <2>4. F[X] = F[U] + (k + 1 - m) * s[m]
    BY <2>1, <2>2
  <2>. QED  BY <2>3, <2>4 DEF m, U
<1>7. F[{}] = 0 /\ F \in [SUBSET (1..k) -> Nat]
  <2>. HIDE DEF step
  <2>. QED  BY <1>5 DEF FoldsOver
<1>8. P(F)
  <2>. HIDE DEF step
  <2>. QED  BY <1>1, <1>6, <1>7, Zenon
<1>9. P(C)
  <2>. HIDE DEF P
  <2>. QED  BY <1>8
<1>. HIDE DEF C
<1>. DEFINE c == [i \in 0..k |-> C[1..i]]
            g == [i \in 0..k |-> F[1..i]]
            I == {i \in 0..k : c[i] = g[i]}
<1>10. Iterates(g, k, Nat, 0, step)
  <2>. HIDE DEF step
  <2>. QED  BY <1>1, <1>5, FoldAlong
<1>11. 0 \in I
  <2>1. 1..0 = {} /\ 0 \in 0..k
    BY <1>1
  <2>2. {} \in SUBSET (1..k)
    OBVIOUS
  <2>3. C[{}] = 0
    BY <1>1, <1>9, <2>2
  <2>. HIDE DEF step, P
  <2>. QED  BY <1>7, <2>1, <2>3
<1>12. ASSUME NEW i \in 1..k, i - 1 \in I PROVE i \in I
  <2>1. 1..i \in SUBSET (1..k) /\ 1..i # {} /\ Max(1..i) = i /\ (1..i) \ {i} = 1..i - 1
    BY <1>1, FoldSteps
  <2>2. i - 1 \in 0..k /\ i \in 0..k
    BY <1>1
  <2>3. C[1..i] = C[1..i - 1] + (k + 1 - range[i]) * s[range[i]]
    <3>. DEFINE X == 1..i
    <3>1. X \in SUBSET DOMAIN range /\ X # {} /\ Max(X) = i /\ X \ {i} = 1..i - 1
      BY <1>1, <2>1
    <3>. HIDE DEF X
    <3>2. C[X] = C[X \ {Max(X)}] + (k + 1 - range[Max(X)]) * s[range[Max(X)]]
      BY <1>9, <3>1, Zenon
    <3>. QED  BY <3>1, <3>2 DEF X
  <2>4. F[1..i] = F[1..i - 1] + (k + 1 - range[i]) * s[range[i]]
    <3>. DEFINE X == 1..i
    <3>. HIDE DEF X, P, step
    <3>1. F[X] = F[X \ {Max(X)}] + (k + 1 - range[Max(X)]) * s[range[Max(X)]]
      BY <1>6, <2>1 DEF X
    <3>2. Max(X) = i /\ X \ {i} = 1..i - 1
      BY <2>1 DEF X
    <3>. QED  BY <3>1, <3>2 DEF X
  <2>5. C[1..i - 1] = F[1..i - 1]
    BY <1>12, <2>2
  <2>6. C[1..i] = F[1..i]
    BY <2>3, <2>4, <2>5
  <2>. QED  BY <2>2, <2>6
<1>. HIDE DEF I, step, P
<1>13. k \in I
  <2>1. k \in 0..k
    BY <1>1
  <2>. QED  BY <1>1, <1>11, <1>12, <2>1, InductionUpTo
<1>14. C[1..k] = g[k]
  BY <1>13 DEF I
<1>15. TimesOf(s) = g[k]
  BY <1>1, <1>3, <1>14
<1>. QED  BY <1>10, <1>15 DEF k, step

(* With one more number, every number so far counts once more.             *)
LEMMA TimesGrow ==
  ASSUME NEW s \in Seq(Nat), NEW x \in Nat, NEW total, SumsTo(s, total)
  PROVE  /\ total \in Nat /\ SumsTo(Append(s, x), total + x)
         /\ TimesOf(s) \in Nat /\ TimesOf(Append(s, x)) = TimesOf(s) + total + x
<1>. DEFINE t == Append(s, x)
            k == Len(s)
            sums == [i \in 1..k |-> [n \in Nat |-> n + s[i]]]
            more == [i \in 1..k + 1 |-> [n \in Nat |-> n + t[i]]]
            times == [i \in 1..k |-> [n \in Nat |-> n + (k + 1 - i) * s[i]]]
            again == [i \in 1..k + 1 |-> [n \in Nat |-> n + ((k + 1) + 1 - i) * t[i]]]
<1>1. k \in Nat /\ k + 1 \in Nat /\ t \in Seq(Nat) /\ Len(t) = k + 1 /\ t[k + 1] = x
  OBVIOUS
<1>2. \A i \in 1..k : t[i] = s[i] /\ s[i] \in Nat /\ i \in 1..k + 1
  OBVIOUS
<1>3. \A i \in 1..k + 1 : t[i] \in Nat
  BY <1>1
<1>4. PICK f : Iterates(f, k, Nat, 0, sums) /\ f[k] = total
  BY DEF SumsTo, SumsOf
<1>5. PICK g : Iterates(g, k, Nat, 0, times) /\ TimesOf(s) = g[k]
  BY TimesSteps
<1>6. PICK h : Iterates(h, k + 1, Nat, 0, again) /\ TimesOf(t) = h[k + 1]
  <2>1. \E h : /\ Iterates(h, Len(t), Nat, 0,
                           [i \in 1..Len(t) |-> [n \in Nat |-> n + (Len(t) + 1 - i) * t[i]]])
               /\ TimesOf(t) = h[Len(t)]
    <3>. HIDE DEF t
    <3>. QED  BY <1>1, TimesSteps
  <2>. HIDE DEF t, k
  <2>. QED  BY <1>1, <2>1
<1>. HIDE DEF k, t
<1>7. /\ \A i \in 1..k : \A n \in Nat : sums[i][n] = n + s[i] /\ times[i][n] = n + (k + 1 - i) * s[i]
      /\ \A i \in 1..k + 1 : \A n \in Nat : more[i][n] = n + t[i] /\ again[i][n] = n + ((k + 1) + 1 - i) * t[i]
  OBVIOUS
<1>8. PICK p : Iterates(p, k + 1, Nat, 0, more)
  <2>1. more \in [1..k + 1 -> [Nat -> Nat]] /\ 0 \in Nat
    BY <1>3
  <2>. HIDE DEF more
  <2>. QED  BY <1>1, <2>1, StepsDefine
<1>9. \A i \in 1..k : sums[i] = more[i]
  BY <1>2
<1>. HIDE DEF sums, more, times, again
<1>10. f[k] \in Nat /\ p[k + 1] = more[k + 1][f[k]]
  BY <1>1, <1>4, <1>8, <1>9, LastStep
<1>11. total \in Nat /\ p[k + 1] = total + x
  <2>1. k + 1 \in 1..k + 1
    BY <1>1
  <2>. QED  BY <1>1, <1>4, <1>7, <1>10, <2>1
<1>12. SumsTo(t, total + x)
  BY <1>1, <1>8, <1>11 DEF SumsTo, SumsOf, more
<1>13. \A i \in 0..k : f[i] \in Nat /\ g[i] \in Nat /\ i \in 0..k + 1
  BY <1>1, <1>4, <1>5 DEF Iterates
<1>14. \A i \in 0..k + 1 : h[i] \in Nat
  BY <1>6 DEF Iterates
<1>. DEFINE I == {i \in 0..k : h[i] = g[i] + f[i]}
<1>15. 0 \in I
  <2>1. h[0] = 0 /\ g[0] = 0 /\ f[0] = 0
    BY <1>4, <1>5, <1>6 DEF Iterates
  <2>. QED  BY <1>1, <2>1
<1>16. ASSUME NEW i \in 1..k, i - 1 \in I PROVE i \in I
  <2>. DEFINE j == i - 1
              b == k + 1 - i
  <2>1. j \in 0..k /\ i \in 1..k + 1 /\ i \in 0..k /\ b \in Nat /\ (k + 1) + 1 - i = b + 1
    BY <1>1
  <2>2. h[j] = g[j] + f[j]
    BY <1>16
  <2>3. h[i] = again[i][h[j]] /\ g[i] = times[i][g[j]] /\ f[i] = sums[i][f[j]]
    BY <1>4, <1>5, <1>6, <2>1 DEF Iterates
  <2>4. h[j] \in Nat /\ g[j] \in Nat /\ f[j] \in Nat
    BY <1>13, <1>14, <2>1
  <2>5. /\ again[i][h[j]] = h[j] + ((k + 1) + 1 - i) * t[i]
        /\ times[i][g[j]] = g[j] + (k + 1 - i) * s[i]
        /\ sums[i][f[j]] = f[j] + s[i]
    BY <1>7, <2>1, <2>4
  <2>6. t[i] = s[i] /\ s[i] \in Nat
    BY <1>2
  <2>. DEFINE a == s[i]
  <2>7. \A u, v \in Nat : (u + 1) * v = u * v + v /\ u * v \in Nat
    OBVIOUS
  <2>8. (b + 1) * a = b * a + a /\ b * a \in Nat /\ a \in Nat
    <3>. HIDE DEF a, b
    <3>1. a \in Nat
      BY <2>6 DEF a
    <3>. QED  BY <2>1, <2>7, <3>1
  <2>9. h[i] = h[j] + (b + 1) * a /\ g[i] = g[j] + b * a /\ f[i] = f[j] + a
    <3>1. ((k + 1) + 1 - i) * t[i] = (b + 1) * a /\ (k + 1 - i) * s[i] = b * a
      <4>1. t[i] = a /\ s[i] = a /\ k + 1 - i = b
        BY <2>6
      <4>. HIDE DEF a, b
      <4>. QED  BY <2>1, <4>1
    <3>. HIDE DEF b
    <3>. QED  BY <2>3, <2>5, <3>1
  <2>. DEFINE ba == b * a
              b1 == (b + 1) * a
  <2>10. h[i] = h[j] + b1 /\ g[i] = g[j] + ba /\ f[i] = f[j] + a /\ b1 = ba + a /\ ba \in Nat /\ a \in Nat
    BY <2>8, <2>9
  <2>. HIDE DEF a, b, ba, b1, j, I
  <2>11. h[i] = g[i] + f[i]
    BY <2>2, <2>4, <2>10
  <2>. QED  BY <2>1, <2>11 DEF I
<1>. HIDE DEF I
<1>17. k \in I
  <2>1. k \in 0..k
    BY <1>1
  <2>. QED  BY <1>1, <1>15, <1>16, <2>1, InductionUpTo
<1>18. h[k] = g[k] + total /\ h[k] \in Nat /\ g[k] \in Nat
  BY <1>1, <1>4, <1>13, <1>14, <1>17 DEF I
<1>19. h[k + 1] = h[k] + x
  <2>1. k + 1 \in 1..k + 1 /\ (k + 1) - 1 = k /\ (k + 1) + 1 - (k + 1) = 1
    BY <1>1
  <2>2. h[k + 1] = again[k + 1][h[(k + 1) - 1]]
    BY <1>6, <2>1 DEF Iterates
  <2>3. again[k + 1][h[k]] = h[k] + ((k + 1) + 1 - (k + 1)) * t[k + 1]
    BY <1>7, <1>18, <2>1
  <2>. QED  BY <1>1, <2>1, <2>2, <2>3
<1>20. TimesOf(s) \in Nat /\ TimesOf(t) = TimesOf(s) + total + x
  BY <1>5, <1>6, <1>11, <1>18, <1>19
<1>. QED  BY <1>11, <1>12, <1>20 DEF t

LEMMA TimesOfNothing ==
  SumsTo(<<>>, 0) /\ TimesOf(<<>>) = 0
<1>. DEFINE s == <<>>
<1>1. s \in Seq(Nat) /\ Len(s) = 0
  OBVIOUS
<1>. HIDE DEF s
<1>2. TimesOf(s) = 0
  <2>1. PICK g : /\ Iterates(g, Len(s), Nat, 0,
                             [i \in 1..Len(s) |-> [n \in Nat |-> n + (Len(s) + 1 - i) * s[i]]])
                 /\ TimesOf(s) = g[Len(s)]
    BY <1>1, TimesSteps
  <2>. QED  BY <1>1, <2>1 DEF Iterates
<1>3. SumsTo(s, 0)
  <2>. DEFINE step == [i \in 1..Len(s) |-> [n \in Nat |-> n + s[i]]]
              f == [i \in 0..0 |-> 0]
  <2>1. f[0] = 0 /\ f \in [0..0 -> Nat] /\ \A i \in 1..0 : FALSE
    OBVIOUS
  <2>. HIDE DEF step, f
  <2>2. Iterates(f, Len(s), Nat, 0, step)
    BY <1>1, <2>1 DEF Iterates
  <2>. QED  BY <1>1, <2>1, <2>2 DEF SumsTo, SumsOf, step
<1>. QED  BY <1>2, <1>3 DEF s

-----------------------------------------------------------------------------
(* The lists that ListsRepeat is about.                                    *)
EnergyKeys == {"ENERGY|_Total", "energy"}

(* The line of each class that tells the energy of a step, and the list    *)
(* it is pushed to: no list in Elk's tree.                                 *)
EnergyLine == [opt |-> "ENERGY|_Total", vcopt |-> "ENERGY|_Total", md |-> "ENERGY|_Total",
               qe |-> "!_total_energy", elk |-> "loop", octopus |-> "Energy",
               gamessus |-> "TOTAL_ENERGY_=", nwchem |-> "Total_DFT_energy_="]
EnergyKey == [opt |-> "ENERGY|_Total", vcopt |-> "ENERGY|_Total", md |-> "ENERGY|_Total",
              qe |-> "energy", elk |-> "none", octopus |-> "energy",
              gamessus |-> "energy", nwchem |-> "energy"]

(* A rule pushes to the list k for the line e, and for other lines it      *)
(* leaves such lists alone.                                                *)
Fits(rule, e, k) ==
    \A l \in rule.lines :
        IF l = e
        THEN rule.how = "push" /\ ((rule.keys = <<>> /\ l = k) \/ rule.keys = <<k>>)
        ELSE (rule.keys = <<>> => l \notin EnergyKeys) /\ Range(rule.keys) \cap EnergyKeys = {}

AllFit(rules, e, k) == \A i \in 1..Len(rules) : Fits(rules[i], e, k)

LEMMA RulesFit ==
  ASSUME NEW e, NEW k
  PROVE  /\ \A l : l # e /\ l \notin EnergyKeys =>
                       Fits(Scalar(l), e, k) /\ Fits(List(l), e, k) /\ Fits(Renews(l), e, k)
         /\ e \notin {"STARTED_AT", "ENDED_AT"} => Fits(ClockTimes, e, k)
         /\ \A l, x : l # e /\ x \notin EnergyKeys =>
                       Fits(Puts(l, <<x>>), e, k) /\ Fits(Pushes(l, <<x>>), e, k)
         /\ \A l, x, y : l # e /\ {x, y} \cap EnergyKeys = {} =>
                       Fits(Puts(l, <<x, y>>), e, k) /\ Fits(Pushes(l, <<x, y>>), e, k)
         /\ \A l, x, y, z : l # e /\ {x, y, z} \cap EnergyKeys = {} => Fits(Puts(l, <<x, y, z>>), e, k)
         /\ e = k => Fits(List(e), e, k)
         /\ Fits(Pushes(e, <<k>>), e, k)
<1>1. /\ Range(<<>>) = {} /\ \A x : Range(<<x>>) = {x}
      /\ \A x, y : Range(<<x, y>>) = {x, y}
      /\ \A x, y, z : Range(<<x, y, z>>) = {x, y, z}
  BY DEF Range
<1>2. \A l, keys : /\ Scalar(l).lines = {l} /\ List(l).lines = {l} /\ Renews(l).lines = {l}
                   /\ Puts(l, keys).lines = {l} /\ Pushes(l, keys).lines = {l}
                   /\ Scalar(l).keys = <<>> /\ List(l).keys = <<>> /\ Renews(l).keys = <<>>
                   /\ Puts(l, keys).keys = keys /\ Pushes(l, keys).keys = keys
                   /\ List(l).how = "push" /\ Pushes(l, keys).how = "push"
  BY DEF Rule, Puts, Pushes, Renews, Scalar, List
<1>3. ClockTimes.lines = {"STARTED_AT", "ENDED_AT"} /\ ClockTimes.keys = <<>>
  BY DEF ClockTimes, Rule
<1>4. \A x, y, z : <<x>> # <<>> /\ <<x, y>> # <<>> /\ <<x, y, z>> # <<>>
  OBVIOUS
<1>5. e \notin {"STARTED_AT", "ENDED_AT"} => Fits(ClockTimes, e, k)
  BY <1>1, <1>3 DEF Fits, EnergyKeys
<1>6. \A l : l # e /\ l \notin EnergyKeys =>
                       Fits(Scalar(l), e, k) /\ Fits(List(l), e, k) /\ Fits(Renews(l), e, k)
  BY <1>1, <1>2 DEF Fits
<1>7. \A l, x : l # e /\ x \notin EnergyKeys =>
                       Fits(Puts(l, <<x>>), e, k) /\ Fits(Pushes(l, <<x>>), e, k)
  BY <1>1, <1>2, <1>4 DEF Fits
<1>8. \A l, x, y : l # e /\ {x, y} \cap EnergyKeys = {} =>
                       Fits(Puts(l, <<x, y>>), e, k) /\ Fits(Pushes(l, <<x, y>>), e, k)
  BY <1>1, <1>2, <1>4 DEF Fits
<1>9. \A l, x, y, z : l # e /\ {x, y, z} \cap EnergyKeys = {} => Fits(Puts(l, <<x, y, z>>), e, k)
  BY <1>1, <1>2, <1>4 DEF Fits
<1>10. (e = k => Fits(List(e), e, k)) /\ Fits(Pushes(e, <<k>>), e, k)
  BY <1>2 DEF Fits
<1>. QED  BY <1>5, <1>6, <1>7, <1>8, <1>9, <1>10

LEMMA OptFits == AllFit(Cp2kOpt.rules, "ENERGY|_Total", "ENERGY|_Total")
<1>1. SUFFICES ASSUME NEW rules,
                      rules = <<ClockTimes,
                                Scalar("Mixing_method:"),
                                Scalar("eps_scf:"),
                                Scalar("eps_diis:"),
                                List("ENERGY|_Total"),
                                List("SCF_run_converged_in"),
                                Puts("minimum", <<"optimized">>)>>
               PROVE  AllFit(rules, "ENERGY|_Total", "ENERGY|_Total")
  BY DEF Cp2kOpt
<1>2. Len(rules) = 7
  BY <1>1
<1>3. \A i \in 1..7 : i = 1 \/ i = 2 \/ i = 3 \/ i = 4 \/ i = 5 \/ i = 6
                       \/ i = 7
  OBVIOUS
<1>4. \A i \in 1..7 : Fits(rules[i], "ENERGY|_Total", "ENERGY|_Total")
  <2>. DEFINE F(i) == Fits(rules[i], "ENERGY|_Total", "ENERGY|_Total")
  <2>1. F(1) /\ F(2) /\ F(3) /\ F(4) /\ F(5) /\ F(6) /\ F(7)
    BY <1>1, RulesFit DEF EnergyKeys
  <2>. HIDE DEF F
  <2>2. \A i \in 1..7 : F(i)
    BY <1>3, <2>1
  <2>. QED  BY <2>2 DEF F
<1>. QED  BY <1>2, <1>4 DEF AllFit

LEMMA MdFits == AllFit(Cp2kMd.rules, "ENERGY|_Total", "ENERGY|_Total")
<1>1. SUFFICES ASSUME NEW rules,
                      rules = <<ClockTimes,
                                Scalar("THERMOSTAT|_Type_of_thermostat"),
                                Scalar("MD_VEL|_Initial_temperature_[K]"),
                                Renews("MD_VEL|_COM_velocity"),
                                Scalar("Mixing_method:"),
                                Scalar("eps_scf:"),
                                Scalar("eps_diis:"),
                                Scalar("MD_PAR|_Ensemble_type"),
                                Scalar("MD_PAR|_Number_of_time_steps"),
                                Scalar("MD_PAR|_Time_step_[fs]"),
                                Renews("ROT|_Eigenvalues"),
                                Renews("ROT|_x"),
                                Renews("ROT|_y"),
                                Renews("ROT|_z"),
                                Scalar("DOF|_Degrees_of_freedom"),
                                List("ENERGY|_Total"),
                                List("SCF_run_converged_in"),
                                List("MD|_Time_[fs]"),
                                Pushes("MD|_Temperature_[K]", <<"Instantaneous_Temperature", "Average_Temperature">>),
                                Pushes("MD|_Kinetic_energy_[hartree]", <<"Instantaneous_Kinetic", "Average_Kinetic">>)>>
               PROVE  AllFit(rules, "ENERGY|_Total", "ENERGY|_Total")
  BY DEF Cp2kMd
<1>2. Len(rules) = 20
  BY <1>1
<1>3. \A i \in 1..20 : i = 1 \/ i = 2 \/ i = 3 \/ i = 4 \/ i = 5 \/ i = 6
                       \/ i = 7 \/ i = 8 \/ i = 9 \/ i = 10 \/ i = 11 \/ i = 12
                       \/ i = 13 \/ i = 14 \/ i = 15 \/ i = 16 \/ i = 17 \/ i = 18
                       \/ i = 19 \/ i = 20
  OBVIOUS
<1>4. \A i \in 1..20 : Fits(rules[i], "ENERGY|_Total", "ENERGY|_Total")
  <2>. DEFINE F(i) == Fits(rules[i], "ENERGY|_Total", "ENERGY|_Total")
  <2>1. /\ F(1) /\ F(2) /\ F(3) /\ F(4) /\ F(5) /\ F(6) /\ F(7)
        /\ F(8) /\ F(9) /\ F(10) /\ F(11) /\ F(12) /\ F(13) /\ F(14)
        /\ F(15) /\ F(16) /\ F(17) /\ F(18) /\ F(19) /\ F(20)
    BY <1>1, RulesFit DEF EnergyKeys
  <2>. HIDE DEF F
  <2>2. \A i \in 1..20 : F(i)
    BY <1>3, <2>1
  <2>. QED  BY <2>2 DEF F
<1>. QED  BY <1>2, <1>4 DEF AllFit

LEMMA QeFits == AllFit(QeOpt.rules, "!_total_energy", "energy")
<1>1. SUFFICES ASSUME NEW rules,
                      rules = <<Puts("starts_on", <<"qe-version", "start-date", "start-time">>),
                                Puts("terminated_on", <<"end-date", "end-time">>),
                                Puts("number_of_atoms/cell", <<"num-atoms-per-cell">>),
                                Puts("lattice_parameter_(alat)", <<"alat">>),
                                Pushes("!_total_energy", <<"energy">>)>>
               PROVE  AllFit(rules, "!_total_energy", "energy")
  BY DEF QeOpt
<1>2. Len(rules) = 5
  BY <1>1
<1>3. \A i \in 1..5 : i = 1 \/ i = 2 \/ i = 3 \/ i = 4 \/ i = 5
  OBVIOUS
<1>4. \A i \in 1..5 : Fits(rules[i], "!_total_energy", "energy")
  <2>. DEFINE F(i) == Fits(rules[i], "!_total_energy", "energy")
  <2>1. F(1) /\ F(2) /\ F(3) /\ F(4) /\ F(5)
    BY <1>1, RulesFit DEF EnergyKeys
  <2>. HIDE DEF F
  <2>2. \A i \in 1..5 : F(i)
    BY <1>3, <2>1
  <2>. QED  BY <2>2 DEF F
<1>. QED  BY <1>2, <1>4 DEF AllFit

LEMMA ElkFits == AllFit(ElkOpt.rules, "loop", "none")
<1>1. SUFFICES ASSUME NEW rules,
                      rules = <<Puts("Elk_code_version", <<"elk-version">>),
                                Puts("Total_number_of_threads", <<"threads">>)>>
               PROVE  AllFit(rules, "loop", "none")
  BY DEF ElkOpt
<1>2. Len(rules) = 2
  BY <1>1
<1>3. \A i \in 1..2 : i = 1 \/ i = 2
  OBVIOUS
<1>4. \A i \in 1..2 : Fits(rules[i], "loop", "none")
  <2>. DEFINE F(i) == Fits(rules[i], "loop", "none")
  <2>1. F(1) /\ F(2)
    BY <1>1, RulesFit DEF EnergyKeys
  <2>. HIDE DEF F
  <2>2. \A i \in 1..2 : F(i)
    BY <1>3, <2>1
  <2>. QED  BY <2>2 DEF F
<1>. QED  BY <1>2, <1>4 DEF AllFit

LEMMA OctopusFits == AllFit(OctopusOpt.rules, "Energy", "energy")
<1>1. SUFFICES ASSUME NEW rules,
                      rules = <<Puts("Version", <<"octopus-version">>),
                                Puts("Calculation_started_on", <<"start-date", "start-time">>),
                                Puts("Calculation_ended_on", <<"end-date", "end-time">>),
                                Puts("Octopus_will_run_in", <<"dimension">>),
                                Puts("Symmetry_group", <<"symmetry-group">>),
                                Pushes("Energy", <<"energy">>),
                                Pushes("Max_force", <<"max-force">>),
                                Pushes("SCF_converged_in", <<"scf-convergence">>),
                                Pushes("Max_dr", <<"max-dr">>)>>
               PROVE  AllFit(rules, "Energy", "energy")
  BY DEF OctopusOpt
<1>2. Len(rules) = 9
  BY <1>1
<1>3. \A i \in 1..9 : i = 1 \/ i = 2 \/ i = 3 \/ i = 4 \/ i = 5 \/ i = 6
                       \/ i = 7 \/ i = 8 \/ i = 9
  OBVIOUS
<1>4. \A i \in 1..9 : Fits(rules[i], "Energy", "energy")
  <2>. DEFINE F(i) == Fits(rules[i], "Energy", "energy")
  <2>1. /\ F(1) /\ F(2) /\ F(3) /\ F(4) /\ F(5) /\ F(6) /\ F(7)
        /\ F(8) /\ F(9)
    BY <1>1, RulesFit DEF EnergyKeys
  <2>. HIDE DEF F
  <2>2. \A i \in 1..9 : F(i)
    BY <1>3, <2>1
  <2>. QED  BY <2>2 DEF F
<1>. QED  BY <1>2, <1>4 DEF AllFit

LEMMA GamessFits == AllFit(GamessOpt.rules, "TOTAL_ENERGY_=", "energy")
<1>1. SUFFICES ASSUME NEW rules,
                      rules = <<Puts("GAMESS_VERSION_=", <<"gamessus-version">>),
                                Puts("EXECUTION_OF_GAMESS_BEGUN", <<"start-time", "start-date">>),
                                Pushes("TOTAL_ENERGY_=", <<"energy">>)>>
               PROVE  AllFit(rules, "TOTAL_ENERGY_=", "energy")
  BY DEF GamessOpt
<1>2. Len(rules) = 3
  BY <1>1
<1>3. \A i \in 1..3 : i = 1 \/ i = 2 \/ i = 3
  OBVIOUS
<1>4. \A i \in 1..3 : Fits(rules[i], "TOTAL_ENERGY_=", "energy")
  <2>. DEFINE F(i) == Fits(rules[i], "TOTAL_ENERGY_=", "energy")
  <2>1. F(1) /\ F(2) /\ F(3)
    BY <1>1, RulesFit DEF EnergyKeys
  <2>. HIDE DEF F
  <2>2. \A i \in 1..3 : F(i)
    BY <1>3, <2>1
  <2>. QED  BY <2>2 DEF F
<1>. QED  BY <1>2, <1>4 DEF AllFit

LEMMA NwchemFits == AllFit(NwchemOpt.rules, "Total_DFT_energy_=", "energy")
<1>1. SUFFICES ASSUME NEW rules,
                      rules = <<Puts("Northwest_Computational_Chemistry_Package", <<"nwchem-version">>),
                                Puts("date_=", <<"start-time">>),
                                Puts("Total_times_cpu", <<"total-time">>),
                                Pushes("Total_DFT_energy_=", <<"energy">>)>>
               PROVE  AllFit(rules, "Total_DFT_energy_=", "energy")
  BY DEF NwchemOpt
<1>2. Len(rules) = 4
  BY <1>1
<1>3. \A i \in 1..4 : i = 1 \/ i = 2 \/ i = 3 \/ i = 4
  OBVIOUS
<1>4. \A i \in 1..4 : Fits(rules[i], "Total_DFT_energy_=", "energy")
  <2>. DEFINE F(i) == Fits(rules[i], "Total_DFT_energy_=", "energy")
  <2>1. F(1) /\ F(2) /\ F(3) /\ F(4)
    BY <1>1, RulesFit DEF EnergyKeys
  <2>. HIDE DEF F
  <2>2. \A i \in 1..4 : F(i)
    BY <1>3, <2>1
  <2>. QED  BY <2>2 DEF F
<1>. QED  BY <1>2, <1>4 DEF AllFit

LEMMA RulesOfClassesFit ==
  ASSUME NEW c \in DOMAIN Classes
  PROVE  AllFit(Rules(c), EnergyLine[c], EnergyKey[c])
<1>1. DOMAIN Classes = {"opt", "vcopt", "md", "qe", "elk", "octopus", "gamessus", "nwchem"}
  BY DEF Classes
<1>2. Cp2kVcOpt.rules = Cp2kOpt.rules
  BY DEF Cp2kOpt, Cp2kVcOpt
<1>3. /\ Classes["opt"] = Cp2kOpt /\ Classes["vcopt"] = Cp2kVcOpt /\ Classes["md"] = Cp2kMd
      /\ Classes["qe"] = QeOpt /\ Classes["elk"] = ElkOpt /\ Classes["octopus"] = OctopusOpt
      /\ Classes["gamessus"] = GamessOpt /\ Classes["nwchem"] = NwchemOpt
  BY DEF Classes
<1>4. /\ EnergyLine["opt"] = "ENERGY|_Total" /\ EnergyLine["vcopt"] = "ENERGY|_Total"
      /\ EnergyLine["md"] = "ENERGY|_Total" /\ EnergyLine["qe"] = "!_total_energy"
      /\ EnergyLine["elk"] = "loop" /\ EnergyLine["octopus"] = "Energy"
      /\ EnergyLine["gamessus"] = "TOTAL_ENERGY_=" /\ EnergyLine["nwchem"] = "Total_DFT_energy_="
  BY DEF EnergyLine
<1>5. /\ EnergyKey["opt"] = "ENERGY|_Total" /\ EnergyKey["vcopt"] = "ENERGY|_Total"
      /\ EnergyKey["md"] = "ENERGY|_Total" /\ EnergyKey["qe"] = "energy"
      /\ EnergyKey["elk"] = "none" /\ EnergyKey["octopus"] = "energy"
      /\ EnergyKey["gamessus"] = "energy" /\ EnergyKey["nwchem"] = "energy"
  BY DEF EnergyKey
<1>. QED  BY <1>1, <1>2, <1>3, <1>4, <1>5, OptFits, MdFits, QeFits, ElkFits, OctopusFits, GamessFits,
             NwchemFits DEF Rules

(* The line that tells the energy has a rule, but in Elk's output.         *)
LEMMA EnergyIsRead ==
  ASSUME NEW c \in DOMAIN Classes
  PROVE  IF c = "elk" THEN EnergyKey[c] \notin EnergyKeys
         ELSE /\ EnergyKey[c] \in EnergyKeys
              /\ \E i \in 1..Len(Rules(c)) : EnergyLine[c] \in Rules(c)[i].lines
<1>. DEFINE Reads(rules, e) == \E i \in 1..Len(rules) : e \in rules[i].lines
<1>1. DOMAIN Classes = {"opt", "vcopt", "md", "qe", "elk", "octopus", "gamessus", "nwchem"}
  BY DEF Classes
<1>2. Cp2kVcOpt.rules = Cp2kOpt.rules
  BY DEF Cp2kOpt, Cp2kVcOpt
<1>3. /\ Classes["opt"] = Cp2kOpt /\ Classes["vcopt"] = Cp2kVcOpt /\ Classes["md"] = Cp2kMd
      /\ Classes["qe"] = QeOpt /\ Classes["elk"] = ElkOpt /\ Classes["octopus"] = OctopusOpt
      /\ Classes["gamessus"] = GamessOpt /\ Classes["nwchem"] = NwchemOpt
  BY DEF Classes
<1>4. \A l, keys : l \in List(l).lines /\ l \in Pushes(l, keys).lines
  BY RuleLines
<1>5. Reads(Cp2kOpt.rules, "ENERGY|_Total")
  <2>1. Len(Cp2kOpt.rules) = 7 /\ Cp2kOpt.rules[5] = List("ENERGY|_Total") /\ 5 \in 1..7
    BY DEF Cp2kOpt
  <2>. QED  BY <1>4, <2>1
<1>6. Reads(Cp2kMd.rules, "ENERGY|_Total")
  <2>1. Len(Cp2kMd.rules) = 20 /\ Cp2kMd.rules[16] = List("ENERGY|_Total") /\ 16 \in 1..20
    BY DEF Cp2kMd
  <2>. QED  BY <1>4, <2>1
<1>7. Reads(QeOpt.rules, "!_total_energy")
  <2>1. Len(QeOpt.rules) = 5 /\ QeOpt.rules[5] = Pushes("!_total_energy", <<"energy">>) /\ 5 \in 1..5
    BY DEF QeOpt
  <2>. QED  BY <1>4, <2>1
<1>8. Reads(OctopusOpt.rules, "Energy")
  <2>1. Len(OctopusOpt.rules) = 9 /\ OctopusOpt.rules[6] = Pushes("Energy", <<"energy">>) /\ 6 \in 1..9
    BY DEF OctopusOpt
  <2>. QED  BY <1>4, <2>1
<1>9. Reads(GamessOpt.rules, "TOTAL_ENERGY_=")
  <2>1. Len(GamessOpt.rules) = 3 /\ GamessOpt.rules[3] = Pushes("TOTAL_ENERGY_=", <<"energy">>) /\ 3 \in 1..3
    BY DEF GamessOpt
  <2>. QED  BY <1>4, <2>1
<1>10. Reads(NwchemOpt.rules, "Total_DFT_energy_=")
  <2>1. Len(NwchemOpt.rules) = 4 /\ NwchemOpt.rules[4] = Pushes("Total_DFT_energy_=", <<"energy">>) /\ 4 \in 1..4
    BY DEF NwchemOpt
  <2>. QED  BY <1>4, <2>1
<1>. HIDE DEF Reads
<1>11. /\ EnergyLine["opt"] = "ENERGY|_Total" /\ EnergyLine["vcopt"] = "ENERGY|_Total"
       /\ EnergyLine["md"] = "ENERGY|_Total" /\ EnergyLine["qe"] = "!_total_energy"
       /\ EnergyLine["octopus"] = "Energy"
       /\ EnergyLine["gamessus"] = "TOTAL_ENERGY_=" /\ EnergyLine["nwchem"] = "Total_DFT_energy_="
  BY DEF EnergyLine
<1>12. c # "elk" => Reads(Rules(c), EnergyLine[c])
  BY <1>1, <1>2, <1>3, <1>5, <1>6, <1>7, <1>8, <1>9, <1>10, <1>11 DEF Rules
<1>13. IF c = "elk" THEN EnergyKey[c] \notin EnergyKeys ELSE EnergyKey[c] \in EnergyKeys
  BY <1>1 DEF EnergyKey, EnergyKeys
<1>. QED  BY <1>12, <1>13 DEF Reads

(* Of such lists the tree has at most one, under the name k and n long.    *)
Counts(tree, k, n) ==
    \A i \in DOMAIN tree : tree[i].key \in EnergyKeys =>
        /\ tree[i].key = k /\ Len(tree[i].val) = n
        /\ \A j \in DOMAIN tree : tree[j].key = k => j = i

LEMMA CountsChange ==
  ASSUME NEW tree, NEW k, NEW n, NEW f, f \in DOMAIN tree => tree[f].key \notin EnergyKeys,
         NEW val, Counts(tree, k, n)
  PROVE  Counts([tree EXCEPT ![f].val = val], k, n)
<1>. DEFINE more == [tree EXCEPT ![f].val = val]
<1>1. DOMAIN more = DOMAIN tree /\ \A i \in DOMAIN tree : i # f => more[i] = tree[i]
  OBVIOUS
<1>2. f \in DOMAIN tree => more[f].key = tree[f].key
  <2>. SUFFICES ASSUME f \in DOMAIN tree PROVE more[f].key = tree[f].key
    OBVIOUS
  <2>1. more[f] = [tree[f] EXCEPT !.val = val]
    OBVIOUS
  <2>. HIDE DEF more
  <2>. QED  BY <2>1
<1>. HIDE DEF more
<1>3. \A i \in DOMAIN tree : more[i].key = tree[i].key
  BY <1>1, <1>2
<1>4. Counts(more, k, n)
  BY <1>1, <1>3 DEF Counts
<1>. QED  BY <1>4 DEF more

(* Where a tree has no entry of a name, First does not point into it.      *)
LEMMA FirstIsOf ==
  ASSUME NEW S, NEW tree \in Seq(S), NEW key, First(tree, key) \in DOMAIN tree
  PROVE  tree[First(tree, key)].key = key
<1>. DEFINE f == First(tree, key)
<1>1. DOMAIN tree = 1..Len(tree)
  OBVIOUS
<1>2. 0 \notin 1..Len(tree)
  OBVIOUS
<1>3. \/ f = 0 /\ \A i \in DOMAIN tree : tree[i].key # key
      \/ f \in DOMAIN tree /\ tree[f].key = key
  BY FirstIs
<1>. HIDE DEF f
<1>. QED  BY <1>1, <1>2, <1>3 DEF f

LEMMA CountsAppend ==
  ASSUME NEW S, NEW tree \in Seq(S), NEW k, NEW n, NEW e, e.key \notin EnergyKeys, Counts(tree, k, n)
  PROVE  Counts(Append(tree, e), k, n)
<1>. DEFINE more == Append(tree, e)
            m == Len(tree)
<1>1. m \in Nat /\ DOMAIN tree = 1..m /\ DOMAIN more = 1..m + 1
  OBVIOUS
<1>2. (\A i \in 1..m : more[i] = tree[i]) /\ more[m + 1] = e
  OBVIOUS
<1>. HIDE DEF more, m
<1>3. \A i \in 1..m + 1 : i \in 1..m \/ i = m + 1
  BY <1>1
<1>4. ASSUME NEW i \in 1..m + 1, more[i].key \in EnergyKeys
      PROVE  /\ more[i].key = k /\ Len(more[i].val) = n
             /\ \A j \in 1..m + 1 : more[j].key = k => j = i
  <2>1. i \in 1..m /\ more[i] = tree[i]
    BY <1>2, <1>3, <1>4
  <2>2. /\ tree[i].key = k /\ Len(tree[i].val) = n
        /\ \A j \in 1..m : tree[j].key = k => j = i
    BY <1>1, <1>4, <2>1 DEF Counts
  <2>3. \A j \in 1..m + 1 : more[j].key = k => j \in 1..m /\ tree[j].key = k
    BY <1>2, <1>3, <1>4, <2>1, <2>2
  <2>. QED  BY <2>1, <2>2, <2>3
<1>5. Counts(more, k, n)
  BY <1>1, <1>4 DEF Counts
<1>. QED  BY <1>5 DEF more

(* Writing under another name changes none of them.                        *)
LEMMA OthersKeep ==
  ASSUME NEW K, NEW tree \in Seq(Entry(K)), NEW k, NEW n, Counts(tree, k, n),
         NEW key \in K, key \notin EnergyKeys, NEW value \in Steps,
         NEW how \in {"put", "push", "renew"}
  PROVE  Counts(Write(tree, how, key, value), k, n)
<1>. DEFINE V == {t \in Seq(Entry(K)) : Counts(t, k, n)}
            E == Entry(K)
<1>1. ASSUME NEW t \in V
      PROVE  LET f == First(t, key) IN f \in DOMAIN t => t[f].key \notin EnergyKeys
  <2>. DEFINE f == First(t, key)
  <2>1. t \in Seq(E)
    OBVIOUS
  <2>2. f \in DOMAIN t => t[f].key = key
    <3>. HIDE DEF V, E
    <3>. QED  BY <2>1, FirstIsOf
  <2>. HIDE DEF f, V, E
  <2>3. f \in DOMAIN t => t[f].key \notin EnergyKeys
    BY <2>2
  <2>. QED  BY <2>3 DEF f
<1>2. ASSUME NEW t \in V, NEW val
      PROVE  Counts([t EXCEPT ![First(t, key)].val = val], k, n)
  <2>. DEFINE f == First(t, key)
  <2>1. f \in DOMAIN t => t[f].key \notin EnergyKeys
    BY <1>1
  <2>2. Counts(t, k, n)
    OBVIOUS
  <2>. HIDE DEF f, V
  <2>3. Counts([t EXCEPT ![f].val = val], k, n)
    BY <2>1, <2>2, CountsChange
  <2>. QED  BY <2>3 DEF f
<1>3. ASSUME NEW t \in V PROVE Push(t, key, value) \in V
  <2>1. Push(t, key, value) = [t EXCEPT ![First(t, key)].val = Append(t[First(t, key)].val, value)]
    BY DEF Push
  <2>2. Counts(Push(t, key, value), k, n)
    BY <1>2, <2>1
  <2>3. Push(t, key, value) \in Seq(Entry(K))
    BY PushTyped
  <2>. QED  BY <2>2, <2>3
<1>4. ASSUME NEW t \in V, NEW val PROVE Counts(Append(t, [key |-> key, val |-> val]), k, n)
  <2>. DEFINE e == [key |-> key, val |-> val]
  <2>1. t \in Seq(E) /\ Counts(t, k, n) /\ e.key \notin EnergyKeys
    OBVIOUS
  <2>. HIDE DEF e, V, E
  <2>2. Counts(Append(t, e), k, n)
    BY <2>1, CountsAppend
  <2>. QED  BY <2>2 DEF e
<1>5. Counts(Put(tree, key, value), k, n)
  <2>1. tree \in V
    OBVIOUS
  <2>. HIDE DEF V
  <2>. QED  BY <1>2, <1>4, <2>1 DEF Put
<1>6. AddChild(tree, key) \in V
  <2>1. Counts(AddChild(tree, key), k, n)
    BY <1>4 DEF AddChild
  <2>2. [key |-> key, val |-> <<>>] \in E
    BY DEF Entry
  <2>3. AddChild(tree, key) \in Seq(E)
    <3>. HIDE DEF E
    <3>1. tree \in Seq(E)
      BY DEF E
    <3>. DEFINE e == [key |-> key, val |-> <<>>]
    <3>. HIDE DEF e
    <3>2. Append(tree, e) \in Seq(E)
      BY <2>2, <3>1 DEF e
    <3>. QED  BY <3>2 DEF AddChild, e
  <2>. QED  BY <2>1, <2>3
<1>7. Counts(Push(tree, key, value), k, n)
  BY <1>3
<1>8. Counts(Push(Push(Push(AddChild(tree, key), key, value), key, value), key, value), k, n)
  <2>1. Push(Push(Push(AddChild(tree, key), key, value), key, value), key, value) \in V
    <3>. HIDE DEF V
    <3>. QED  BY <1>3, <1>6
  <2>. QED  BY <2>1
<1>. QED  BY <1>5, <1>7, <1>8 DEF Write

(* A push to the list makes it one longer.                                 *)
LEMMA EnergyPushed ==
  ASSUME NEW K, NEW tree \in Seq(Entry(K)), NEW k \in EnergyKeys, NEW n \in Nat, Counts(tree, k, n),
         NEW value \in Steps
  PROVE  Counts(Push(tree, k, value), k, n + 1)
<1>. DEFINE f == First(tree, k)
            val == Append(tree[f].val, value)
            more == [tree EXCEPT ![f].val = val]
<1>1. \/ f = 0 /\ \A i \in DOMAIN tree : tree[i].key # k
      \/ f \in DOMAIN tree /\ tree[f].key = k
  BY FirstIs
<1>2. Push(tree, k, value) = more
  BY DEF Push
<1>4. DOMAIN more = DOMAIN tree /\ \A i \in DOMAIN tree : i # f => more[i] = tree[i]
  OBVIOUS
<1>5. f \in DOMAIN tree => more[f].key = tree[f].key /\ more[f].val = val
  <2>. SUFFICES ASSUME f \in DOMAIN tree PROVE more[f].key = tree[f].key /\ more[f].val = val
    OBVIOUS
  <2>1. more[f] = [tree[f] EXCEPT !.val = val]
    OBVIOUS
  <2>2. tree[f] \in Entry(K)
    BY ElementsOfSeq
  <2>3. tree[f] = [key |-> tree[f].key, val |-> tree[f].val]
    BY <2>2 DEF Entry
  <2>. HIDE DEF more, val, f
  <2>. QED  BY <2>1, <2>3
<1>6. f \in DOMAIN tree => Len(val) = Len(tree[f].val) + 1
  <2>. SUFFICES ASSUME f \in DOMAIN tree PROVE Len(val) = Len(tree[f].val) + 1
    OBVIOUS
  <2>1. tree[f] \in Entry(K)
    BY ElementsOfSeq
  <2>2. tree[f].val \in Seq(Steps)
    BY <2>1 DEF Entry
  <2>. DEFINE v == tree[f].val
  <2>. HIDE DEF v, f
  <2>3. v \in Seq(Steps)
    BY <2>2 DEF v
  <2>4. Len(Append(v, value)) = Len(v) + 1
    BY <2>3
  <2>. QED  BY <2>4 DEF v
<1>. HIDE DEF more, val, f
<1>7. \A i \in DOMAIN tree : more[i].key = tree[i].key
  BY <1>4, <1>5
<1>8. ASSUME NEW i \in DOMAIN tree, tree[i].key \in EnergyKeys
      PROVE  i = f
  <2>1. tree[i].key = k /\ \A j \in DOMAIN tree : tree[j].key = k => j = i
    BY <1>8 DEF Counts
  <2>. QED  BY <1>1, <2>1
<1>9. ASSUME NEW i \in DOMAIN tree, more[i].key \in EnergyKeys
      PROVE  /\ more[i].key = k /\ Len(more[i].val) = n + 1
             /\ \A j \in DOMAIN tree : more[j].key = k => j = i
  <2>1. tree[i].key \in EnergyKeys /\ i = f
    BY <1>7, <1>8, <1>9
  <2>2. tree[i].key = k /\ Len(tree[i].val) = n /\ \A j \in DOMAIN tree : tree[j].key = k => j = i
    BY <2>1 DEF Counts
  <2>. QED  BY <1>5, <1>6, <1>7, <2>1, <2>2
<1>10. Counts(more, k, n + 1)
  BY <1>4, <1>9 DEF Counts
<1>. QED  BY <1>2, <1>10

(* A rule with one name writes under it once.                              *)
LEMMA OneKey ==
  ASSUME NEW tree, NEW rule, NEW line, NEW key,
         rule.keys = <<key>> \/ (rule.keys = <<>> /\ line.line = key)
  PROVE  ApplyRule(tree, rule, line) = Write(tree, rule.how, key, Value(line))
<1>. DEFINE keys == IF rule.keys = <<>> THEN <<line.line>> ELSE rule.keys
            P(G) == G = [X \in SUBSET DOMAIN keys |->
                          IF X = {} THEN tree
                          ELSE Write(G[X \ {Max(X)}], rule.how, keys[Max(X)], Value(line))]
            C == CHOOSE G : P(G)
            does == Write(tree, rule.how, key, Value(line))
            F == [X \in SUBSET {1} |-> IF X = {} THEN tree ELSE does]
<1>1. keys = <<key>>
  OBVIOUS
<1>2. ApplyRule(tree, rule, line) = C[DOMAIN keys]
  BY DEF ApplyRule, FoldLeft, MapThenFoldSet
<1>. HIDE DEF keys
<1>3. DOMAIN keys = {1} /\ keys[1] = key
  BY <1>1
<1>4. {1} \in SUBSET {1} /\ {} \in SUBSET {1} /\ {1} # {} /\ Max({1}) = 1 /\ {1} \ {1} = {}
  <2>1. 1..1 = {1}
    OBVIOUS
  <2>2. {1} \in SUBSET (1..1) /\ {1} # {} /\ 1 \in Nat
    BY <2>1
  <2>3. Max({1}) \in {1}
    BY <2>2, MaxOfNumbers
  <2>. QED  BY <2>3
<1>5. \A X \in SUBSET {1} : X = {} \/ X = {1}
  OBVIOUS
<1>. HIDE DEF does
<1>6. F[{}] = tree /\ F[{1}] = does
  BY <1>4
<1>7. \A X \in SUBSET {1} : F[X] = IF X = {} THEN tree
                                  ELSE Write(F[X \ {Max(X)}], rule.how, keys[Max(X)], Value(line))
  <2>. TAKE X \in SUBSET {1}
  <2>. HIDE DEF F, P
  <2>1. CASE X = {}
    BY <1>6, <2>1
  <2>2. CASE X = {1}
    <3>1. Max(X) = 1 /\ X \ {Max(X)} = {} /\ X # {}
      BY <1>4, <2>2
    <3>2. Write(F[X \ {Max(X)}], rule.how, keys[Max(X)], Value(line)) = does
      BY <1>3, <1>6, <3>1 DEF does
    <3>. QED  BY <1>6, <2>2, <3>1, <3>2
  <2>. QED  BY <1>5, <2>1, <2>2
<1>8. P(F)
  <2>1. DOMAIN keys = {1}
    BY <1>3
  <2>. QED  BY <1>7, <2>1, Zenon
<1>9. P(C)
  <2>. HIDE DEF P, F
  <2>. QED  BY <1>8
<1>. HIDE DEF C, F
<1>10. C[{}] = tree /\ C[{1}] = Write(C[{}], rule.how, keys[1], Value(line))
  <2>. DEFINE one == {1}
  <2>1. \A X \in SUBSET one : C[X] = IF X = {} THEN tree
                                     ELSE Write(C[X \ {Max(X)}], rule.how, keys[Max(X)], Value(line))
    BY <1>3, <1>9, Zenon
  <2>. HIDE DEF P
  <2>. QED  BY <1>4, <2>1
<1>11. C[{1}] = Write(tree, rule.how, key, Value(line))
  <2>. HIDE DEF P
  <2>. QED  BY <1>3, <1>10
<1>12. C[DOMAIN keys] = C[{1}]
  BY <1>3
<1>. HIDE DEF P
<1>. QED  BY <1>2, <1>11, <1>12

(* A line that tells the energy of a step makes the list one longer, any   *)
(* other line leaves it.                                                   *)
LEMMA LineCounts ==
  ASSUME NEW c \in DOMAIN Classes, NEW line \in Lines(c), NEW n \in Nat,
         NEW tree, IsTree(tree), Counts(tree, EnergyKey[c], n)
  PROVE  Counts(ApplyAll(tree, c, line), EnergyKey[c],
                n + (IF line.line = EnergyLine[c] THEN 1 ELSE 0))
<1>. DEFINE rules == Rules(c)
            S == Range(rules)
            m == Len(rules)
            e == EnergyLine[c]
            k == EnergyKey[c]
            after == ApplyAll(tree, c, line)
<1>1. Sound(rules)
  BY RulesAreSound
<1>2. rules \in Seq(S) /\ m \in Nat
  BY <1>1 DEF Sound
<1>3. AllFit(rules, e, k)
  BY RulesOfClassesFit
<1>4. IF c = "elk" THEN k \notin EnergyKeys
      ELSE k \in EnergyKeys /\ \E i \in 1..m : e \in rules[i].lines
  BY EnergyIsRead
<1>5. line.of \in Steps
  BY DEF Lines
<1>6. Value(line) \in Steps
  BY <1>5 DEF Value, Yes, Steps
<1>7. Counts(tree, k, n)
  OBVIOUS
<1>. HIDE DEF rules, S, m, e, k
<1>8. PICK a \in 0..m : \A i \in 1..m : line.line \in rules[i].lines <=> i = a
  BY <1>1, <1>2, OneRuleOrNone DEF m
<1>9. after = IF a = 0 THEN tree ELSE ApplyRule(tree, rules[a], line)
  BY <1>2, <1>8, OneRuleApplies DEF m, ApplyAll, rules
<1>. HIDE DEF after
<1>10. CASE a = 0
  <2>1. after = tree
    BY <1>9, <1>10
  <2>2. CASE line.line = e
    <3>1. \A i \in 1..m : e \notin rules[i].lines
      BY <1>2, <1>8, <1>10, <2>2
    <3>2. k \notin EnergyKeys
      BY <1>4, <3>1
    <3>3. Counts(after, k, n + 1)
      BY <1>7, <2>1, <3>2 DEF Counts
    <3>. QED  BY <2>2, <3>3 DEF after, e, k
  <2>3. CASE line.line # e
    <3>1. Counts(after, k, n + 0)
      BY <1>7, <2>1
    <3>. QED  BY <2>3, <3>1 DEF after, e, k
  <2>. QED  BY <2>2, <2>3
<1>11. CASE a # 0
  <2>. DEFINE rule == rules[a]
  <2>1. a \in 1..m /\ line.line \in rule.lines
    BY <1>2, <1>8, <1>11
  <2>2. Fits(rule, e, k) /\ Ordinary(rule)
    BY <1>1, <1>3, <2>1 DEF AllFit, Sound, m
  <2>3. after = ApplyRule(tree, rule, line)
    BY <1>9, <1>11
  <2>. HIDE DEF rule
  <2>4. CASE line.line = e
    <3>1. rule.how = "push" /\ ((rule.keys = <<>> /\ line.line = k) \/ rule.keys = <<k>>)
      BY <2>1, <2>2, <2>4 DEF Fits
    <3>2. after = Write(tree, rule.how, k, Value(line))
      BY <2>3, <3>1, OneKey
    <3>3. after = Push(tree, k, Value(line))
      BY <3>1, <3>2 DEF Write
    <3>4. Counts(after, k, n + 1)
      <4>1. CASE k \in EnergyKeys
        <5>1. PICK K : tree \in Seq(Entry(K))
          BY DEF IsTree
        <5>2. Counts(Push(tree, k, Value(line)), k, n + 1)
          BY <1>6, <1>7, <4>1, <5>1, EnergyPushed
        <5>. QED  BY <3>3, <5>2
      <4>2. CASE k \notin EnergyKeys
        <5>1. PICK K : {k} \subseteq K /\ tree \in Seq(Entry(K))
          <6>. DEFINE T == {k}
          <6>1. \E K : T \subseteq K /\ tree \in Seq(Entry(K))
            <7>. HIDE DEF T
            <7>. QED  BY TreeGrows
          <6>. QED  BY <6>1
        <5>2. k \in K /\ rule.how \in {"put", "push", "renew"}
          BY <3>1, <5>1
        <5>3. Counts(after, k, n)
          BY <1>6, <1>7, <3>2, <4>2, <5>1, <5>2, OthersKeep
        <5>. QED  BY <4>2, <5>3 DEF Counts
      <4>. QED  BY <4>1, <4>2
    <3>. QED  BY <2>4, <3>4 DEF after, e, k
  <2>5. CASE line.line # e
    <3>1. (rule.keys = <<>> => line.line \notin EnergyKeys) /\ Range(rule.keys) \cap EnergyKeys = {}
      BY <2>1, <2>2, <2>5 DEF Fits
    <3>. DEFINE T == Range(rule.keys) \cup {line.line}
    <3>2. PICK K : T \subseteq K /\ tree \in Seq(Entry(K))
      <4>. HIDE DEF T
      <4>. QED  BY TreeGrows
    <3>. DEFINE V == {t \in Seq(Entry(K)) : Counts(t, k, n)}
                value == Value(line)
    <3>3. rule.how \in {"put", "push", "renew"} /\ \E Q : rule.keys \in Seq(Q)
      BY <2>2 DEF Ordinary, IsSeq
    <3>. HIDE DEF value
    <3>4. ASSUME NEW t \in V, NEW key \in T, rule.keys = <<>> \/ key \in Range(rule.keys)
          PROVE  Write(t, rule.how, key, value) \in V
      <4>1. t \in Seq(Entry(K)) /\ Counts(t, k, n) /\ key \in K
        BY <3>2
      <4>2. key \notin EnergyKeys
        <5>1. CASE rule.keys = <<>>
          <6>1. Range(rule.keys) = {}
            BY <5>1 DEF Range
          <6>. QED  BY <3>1, <3>4, <5>1, <6>1
        <5>2. CASE rule.keys # <<>>
          BY <3>1, <3>4, <5>2
        <5>. QED  BY <5>1, <5>2
      <4>3. value \in Steps
        BY <1>6 DEF value
      <4>. HIDE DEF V, T
      <4>4. Write(t, rule.how, key, value) \in Seq(Entry(K))
        BY <3>3, <4>1, <4>3, WriteTyped
      <4>5. Counts(Write(t, rule.how, key, value), k, n)
        BY <3>3, <4>1, <4>2, <4>3, OthersKeep
      <4>. QED  BY <4>4, <4>5 DEF V
    <3>5. tree \in V
      BY <1>7, <3>2
    <3>. HIDE DEF V
    <3>6. \A t \in V : \A key \in Range(rule.keys) \cup {line.line} :
              (rule.keys = <<>> \/ key \in Range(rule.keys)) => Write(t, rule.how, key, Value(line)) \in V
      BY <3>4 DEF value
    <3>7. ApplyRule(tree, rule, line) \in V
      BY <3>3, <3>5, <3>6, ApplyRuleStays
    <3>8. Counts(after, k, n + 0)
      BY <2>3, <3>7 DEF V
    <3>. QED  BY <2>5, <3>8 DEF after, e, k
  <2>. QED  BY <2>4, <2>5
<1>. QED  BY <1>10, <1>11

LEMMA EnergiesCount ==
  ASSUME NEW tree, IsTree(tree), NEW key, key \notin EnergyKeys, NEW k, NEW n, Counts(tree, k, n)
  PROVE  Counts(Energies(tree, key), k, n)
<1>. DEFINE added == AddChild(tree, key)
            f == First(added, key)
            e == [key |-> key, val |-> <<>>]
<1>1. PICK K : tree \in Seq(Entry(K))
  BY DEF IsTree
<1>2. Counts(added, k, n)
  <2>. DEFINE E == Entry(K)
  <2>1. tree \in Seq(E) /\ e.key \notin EnergyKeys
    BY <1>1
  <2>. HIDE DEF e, E
  <2>2. Counts(Append(tree, e), k, n)
    BY <2>1, CountsAppend
  <2>. QED  BY <2>2 DEF AddChild, e
<1>3. \E Q : added \in Seq(Q)
  <2>1. PICK L : {key} \subseteq L /\ tree \in Seq(Entry(L))
    BY TreeGrows
  <2>. DEFINE E == Entry(L)
  <2>2. e \in E /\ tree \in Seq(E)
    BY <2>1 DEF Entry
  <2>. HIDE DEF e, E
  <2>3. Append(tree, e) \in Seq(E)
    BY <2>2
  <2>. QED  BY <2>3 DEF AddChild, e
<1>. HIDE DEF added
<1>4. f \in DOMAIN added => added[f].key = key
  BY <1>3, FirstIsOf
<1>5. f \in DOMAIN added => added[f].key \notin EnergyKeys
  <2>. HIDE DEF f
  <2>. QED  BY <1>4
<1>. DEFINE val == added[f].val \o [i \in 1..wrote["out"] |-> <<pass, i>>]
<1>6. Energies(tree, key) = [added EXCEPT ![f].val = val]
  BY DEF Energies, added
<1>. HIDE DEF val, f
<1>7. Counts([added EXCEPT ![f].val = val], k, n)
  BY <1>2, <1>5, CountsChange
<1>. QED  BY <1>6, <1>7

LEMMA ExtraInfoCounts ==
  ASSUME NEW tree, IsTree(tree), wrote["out"] \in Nat, pass \in Nat, NEW k, NEW n, Counts(tree, k, n)
  PROVE  Counts(ExtraInfo(tree), k, n)
<1>1. "tot-energy" \notin EnergyKeys /\ "stress" \notin EnergyKeys
  BY DEF EnergyKeys
<1>. DEFINE one == Energies(tree, "tot-energy")
<1>2. IsTree(one)
  BY EnergiesExtend
<1>3. Counts(one, k, n)
  BY <1>1, EnergiesCount
<1>. HIDE DEF one
<1>4. Counts(Energies(one, "stress"), k, n)
  BY <1>1, <1>2, <1>3, EnergiesCount
<1>. QED  BY <1>4 DEF ExtraInfo, one

(* A new object's list is empty.                                           *)
LEMMA ConstructedCounts ==
  ASSUME NEW c \in DOMAIN Classes
  PROVE  Counts(Constructed(c), EnergyKey[c], 0)
<1>. DEFINE lists == Classes[c].lists
            k == EnergyKey[c]
            first == [i \in DOMAIN lists |-> [key |-> lists[i], val |-> <<>>]]
            e == [key |-> "optimized", val |-> <<No>>]
            last == IF HasCp2kStructure(c) THEN <<e>> ELSE <<>>
<1>1. DOMAIN Classes = {"opt", "vcopt", "md", "qe", "elk", "octopus", "gamessus", "nwchem"}
  BY DEF Classes
<1>2. /\ Classes["opt"].lists = <<"ENERGY|_Total", "SCF_run_converged_in">>
      /\ Classes["vcopt"].lists = <<"ENERGY|_Total", "SCF_run_converged_in">>
      /\ Classes["md"].lists = <<"ENERGY|_Total", "SCF_run_converged_in", "MD|_Time_[fs]",
                                 "Instantaneous_Temperature", "Average_Temperature",
                                 "Instantaneous_Kinetic", "Average_Kinetic">>
      /\ Classes["qe"].lists = <<"energy">> /\ Classes["elk"].lists = <<>>
      /\ Classes["octopus"].lists = <<"energy", "max-force", "scf-convergence", "max-dr">>
      /\ Classes["gamessus"].lists = <<"energy">> /\ Classes["nwchem"].lists = <<"energy">>
  BY DEF Classes, Cp2kOpt, Cp2kVcOpt, Cp2kMd, QeOpt, ElkOpt, OctopusOpt, GamessOpt, NwchemOpt
<1>3. \A i \in DOMAIN lists : lists[i] \in EnergyKeys => i = 1 /\ lists[i] = k
  <2>1. \A l : l = <<"ENERGY|_Total", "SCF_run_converged_in">> =>
             \A i \in DOMAIN l : l[i] \in EnergyKeys => i = 1 /\ l[i] = "ENERGY|_Total"
    BY DEF EnergyKeys
  <2>2. \A l : l = <<"ENERGY|_Total", "SCF_run_converged_in", "MD|_Time_[fs]",
                     "Instantaneous_Temperature", "Average_Temperature",
                     "Instantaneous_Kinetic", "Average_Kinetic">> =>
             \A i \in DOMAIN l : l[i] \in EnergyKeys => i = 1 /\ l[i] = "ENERGY|_Total"
    BY DEF EnergyKeys
  <2>3. \A l : l = <<"energy">> => \A i \in DOMAIN l : l[i] \in EnergyKeys => i = 1 /\ l[i] = "energy"
    BY DEF EnergyKeys
  <2>4. \A l : l = <<"energy", "max-force", "scf-convergence", "max-dr">> =>
             \A i \in DOMAIN l : l[i] \in EnergyKeys => i = 1 /\ l[i] = "energy"
    BY DEF EnergyKeys
  <2>5. /\ EnergyKey["opt"] = "ENERGY|_Total" /\ EnergyKey["vcopt"] = "ENERGY|_Total"
        /\ EnergyKey["md"] = "ENERGY|_Total" /\ EnergyKey["qe"] = "energy"
        /\ EnergyKey["elk"] = "none" /\ EnergyKey["octopus"] = "energy"
        /\ EnergyKey["gamessus"] = "energy" /\ EnergyKey["nwchem"] = "energy"
    BY DEF EnergyKey
  <2>6. DOMAIN <<>> = {}
    OBVIOUS
  <2>. HIDE DEF lists
  <2>7. CASE c = "opt" \/ c = "vcopt"
    BY <1>2, <2>1, <2>5, <2>7 DEF lists
  <2>8. CASE c = "md"
    BY <1>2, <2>2, <2>5, <2>8 DEF lists
  <2>9. CASE c \in {"qe", "gamessus", "nwchem"}
    BY <1>2, <2>3, <2>5, <2>9 DEF lists
  <2>10. CASE c = "octopus"
    BY <1>2, <2>4, <2>5, <2>10 DEF lists
  <2>11. CASE c = "elk"
    BY <1>2, <2>6, <2>11 DEF lists
  <2>. QED  BY <1>1, <2>7, <2>8, <2>9, <2>10, <2>11
<1>4. PICK m \in Nat : DOMAIN lists = 1..m
  BY ListsOfClasses
<1>5. /\ DOMAIN first = 1..m
      /\ \A i \in 1..m : first[i].key = lists[i] /\ first[i].val = <<>>
  BY <1>4
<1>6. Counts(first, k, 0)
  <2>. HIDE DEF first, lists, k
  <2>1. Len(<<>>) = 0
    OBVIOUS
  <2>2. ASSUME NEW i \in 1..m, first[i].key \in EnergyKeys
        PROVE  /\ first[i].key = k /\ Len(first[i].val) = 0
               /\ \A j \in 1..m : first[j].key = k => j = i
    <3>1. i = 1 /\ first[i].key = k
      BY <1>3, <1>4, <1>5, <2>2
    <3>2. \A j \in 1..m : first[j].key = k => j = 1
      BY <1>3, <1>4, <1>5, <2>2, <3>1
    <3>. QED  BY <1>5, <2>1, <3>1, <3>2
  <2>. QED  BY <1>5, <2>2 DEF Counts
<1>7. Constructed(c) = first \o last
  BY DEF Constructed
<1>8. \E Q : first \in Seq(Q) /\ e \in Q
  <2>. DEFINE Q == Range(first) \cup {e}
  <2>. HIDE DEF e, lists
  <2>1. \A i \in 1..m : first[i] \in Q
    BY <1>5 DEF Range
  <2>2. first = [i \in 1..m |-> first[i]]
    BY <1>4
  <2>. HIDE DEF first
  <2>3. e \in Q
    OBVIOUS
  <2>. HIDE DEF Q
  <2>4. [i \in 1..m |-> first[i]] \in Seq(Q)
    BY <2>1
  <2>. QED  BY <2>2, <2>3, <2>4
<1>9. PICK Q : first \in Seq(Q) /\ e \in Q
  BY <1>8
<1>10. e.key \notin EnergyKeys
  BY DEF EnergyKeys
<1>. HIDE DEF first, e
<1>11. CASE HasCp2kStructure(c)
  <2>1. first \o <<e>> = Append(first, e)
    BY <1>9
  <2>2. Counts(Append(first, e), k, 0)
    BY <1>6, <1>9, <1>10, CountsAppend
  <2>. QED  BY <1>7, <1>11, <2>1, <2>2
<1>12. CASE ~HasCp2kStructure(c)
  <2>1. first \o <<>> = first
    BY <1>9
  <2>. QED  BY <1>6, <1>7, <1>12, <2>1
<1>. QED  BY <1>11, <1>12

(* What seen counts, the first line of a step, comes as often as the line  *)
(* that tells the energy.                                                  *)
LEMMA OneOfEach ==
  ASSUME NEW c \in DOMAIN Classes, NEW value
  PROVE  \A texts \in {Classes[c].head, Classes[c].step, Classes[c].converged} :
             Tallied(Of(texts, value), Head(Classes[c].step)) = Tallied(Of(texts, value), EnergyLine[c])
<1>. DEFINE Even(k, first) == /\ Tallied(Of(k.head, value), Head(k.step)) = Tallied(Of(k.head, value), first)
                              /\ Tallied(Of(k.step, value), Head(k.step)) = Tallied(Of(k.step, value), first)
                              /\ Tallied(Of(k.converged, value), Head(k.step)) = Tallied(Of(k.converged, value), first)
<1>1. DOMAIN Classes = {"opt", "vcopt", "md", "qe", "elk", "octopus", "gamessus", "nwchem"}
  BY DEF Classes
<1>2. /\ EnergyLine["opt"] = "ENERGY|_Total" /\ EnergyLine["vcopt"] = "ENERGY|_Total"
      /\ EnergyLine["md"] = "ENERGY|_Total" /\ EnergyLine["qe"] = "!_total_energy"
      /\ EnergyLine["elk"] = "loop" /\ EnergyLine["octopus"] = "Energy"
      /\ EnergyLine["gamessus"] = "TOTAL_ENERGY_=" /\ EnergyLine["nwchem"] = "Total_DFT_energy_="
  BY DEF EnergyLine
<1>3. \A x, y : Head(<<x>>) = x /\ Head(<<x, y>>) = x
  OBVIOUS
<1>4. \A text : /\ Tallied(Of(<<>>, value), text) = 0
                /\ \A x : Tallied(Of(<<x>>, value), text) = IF x = text THEN 1 ELSE 0
                /\ \A x, y : Tallied(Of(<<x, y>>, value), text) =
                                (IF x = text THEN 1 ELSE 0) + (IF y = text THEN 1 ELSE 0)
  BY TallyOf
<1>5. CASE c = "opt"
  <2>1. /\ Classes[c].head = <<"STARTED_AT", "eps_scf:">>
        /\ Classes[c].step = <<"SCF_run_converged_in", "ENERGY|_Total">>
        /\ Classes[c].converged = <<"minimum", "ENDED_AT">>
    BY <1>5 DEF Classes, Cp2kOpt
  <2>. QED  BY <1>2, <1>3, <1>4, <1>5, <2>1
<1>6. CASE c = "vcopt"
  <2>1. /\ Classes[c].head = <<"STARTED_AT", "eps_diis:">>
        /\ Classes[c].step = <<"SCF_run_converged_in", "ENERGY|_Total">>
        /\ Classes[c].converged = <<"minimum", "ENDED_AT">>
    BY <1>6 DEF Classes, Cp2kVcOpt
  <2>. QED  BY <1>2, <1>3, <1>4, <1>6, <2>1
<1>7. CASE c = "md"
  <2>1. Classes[c].step = <<"ENERGY|_Total", "MD|_Temperature_[K]">>
    BY <1>7 DEF Classes, Cp2kMd
  <2>. QED  BY <1>2, <1>3, <1>7, <2>1
<1>8. CASE c = "qe"
  <2>1. Classes[c].step = <<"!_total_energy">>
    BY <1>8 DEF Classes, QeOpt
  <2>. QED  BY <1>2, <1>3, <1>8, <2>1
<1>9. CASE c = "elk"
  <2>1. Classes[c].step = <<"loop">>
    BY <1>9 DEF Classes, ElkOpt
  <2>. QED  BY <1>2, <1>3, <1>9, <2>1
<1>10. CASE c = "octopus"
  <2>1. Classes[c].step = <<"Energy", "Max_force">>
    BY <1>10 DEF Classes, OctopusOpt
  <2>. QED  BY <1>2, <1>3, <1>10, <2>1
<1>11. CASE c = "gamessus"
  <2>1. Classes[c].step = <<"TOTAL_ENERGY_=">>
    BY <1>11 DEF Classes, GamessOpt
  <2>. QED  BY <1>2, <1>3, <1>11, <2>1
<1>12. CASE c = "nwchem"
  <2>1. Classes[c].step = <<"Total_DFT_energy_=">>
    BY <1>12 DEF Classes, NwchemOpt
  <2>. QED  BY <1>2, <1>3, <1>12, <2>1
<1>. QED  BY <1>1, <1>5, <1>6, <1>7, <1>8, <1>9, <1>10, <1>11, <1>12

-----------------------------------------------------------------------------
(* The threads are at one of the lines: before this reading the list held  *)
(* what it had to hold, and since then one value for each energy they have *)
(* passed.                                                                 *)
PassedInv ==
    IF pc = "rules"
    THEN \E before \in Nat :
             /\ TimesOf(seen) = before + Tallied(lines, EnergyLine[class])
             /\ Counts(settled, EnergyKey[class], before + Tally(lines, EnergyLine[class], at - 1))
    ELSE Counts(settled, EnergyKey[class], TimesOf(seen))

WrittenInv ==
    pc \notin {"open", "rules"} /\ "json" \in DOMAIN post /\ seen # <<>> =>
        Counts(post["json"], EnergyKey[class], TimesOf(seen))

RepeatInv ==
    /\ seen \in Seq(Nat)
    /\ Tallied(out, Head(Classes[class].step)) = Tallied(out, EnergyLine[class])
    /\ SumsTo(seen, Tallied(lines, EnergyLine[class]))
    /\ PassedInv
    /\ WrittenInv

LEMMA RepeatInvImplies ==
  ASSUME RepeatInv, TimesOf(seen) = Times(Len(seen))
  PROVE  ListsRepeat
BY DEF RepeatInv, WrittenInv, Counts, ListsRepeat, EnergyKeys

LEMMA TimesIs == TimesOf(seen) = Times(Len(seen))
BY DEF TimesOf, Times

LEMMA RepeatInvInit == Init => RepeatInv
<1>. SUFFICES ASSUME Init PROVE RepeatInv
  OBVIOUS
<1>1. /\ class \in DOMAIN Classes /\ out = <<>> /\ lines = <<>> /\ pc = "none" /\ seen = <<>>
      /\ settled = Constructed(class) /\ post = [f \in {} |-> Nothing]
  BY PostAssumption DEF Init, PostAssumption
<1>2. \A text : Tallied(<<>>, text) = 0
  BY TallyOf
<1>3. Counts(settled, EnergyKey[class], 0)
  BY <1>1, ConstructedCounts
<1>4. SumsTo(<<>>, 0) /\ TimesOf(<<>>) = 0 /\ <<>> \in Seq(Nat)
  BY TimesOfNothing
<1>. QED  BY <1>1, <1>2, <1>3, <1>4 DEF RepeatInv, PassedInv, WrittenInv

LEMMA CalculationRepeats ==
  ASSUME RepeatInv, ReadInv, Typed, Calculate
  PROVE  RepeatInv'
<1>. DEFINE L == Lines(class)
            m == Head(Classes[class].step)
            e == EnergyLine[class]
            Parts == {Classes[class].head, Classes[class].step, Classes[class].converged}
<1>0. UNCHANGED <<class, pc, lines, at, settled, seen, post>>
  BY DEF Calculate, Start, WriteFile, End, object
<1>1. \A v \in Steps : \A texts \in Parts : Of(texts, v) \in Seq(L)
  BY TextsOfClasses, LinesOf DEF Typed
<1>2. out \in Seq(L) /\ <<>> \in Seq(L)
  BY DEF ReadInv
<1>3. /\ pass \in Nat /\ wrote["out"] \in Nat /\ wrote["out"] + 1 \in Nat
      /\ \A n \in Nat : <<pass, n>> \in Steps /\ <<pass + 1, n>> \in Steps
  BY DEF Typed, Steps
<1>4. \A v : \A texts \in Parts : Tallied(Of(texts, v), m) = Tallied(Of(texts, v), e)
  BY OneOfEach DEF Typed
<1>5. Tallied(out, m) = Tallied(out, e) /\ Tallied(<<>>, m) = Tallied(<<>>, e)
  BY TallyOf DEF RepeatInv
<1>6. /\ Classes[class].head \in Parts /\ Classes[class].step \in Parts /\ Classes[class].converged \in Parts
  OBVIOUS
<1>. HIDE DEF L, m, e, Parts
<1>7. ASSUME NEW s \in Seq(L), Tallied(s, m) = Tallied(s, e), NEW v \in Steps, NEW texts \in Parts
      PROVE  Tallied(s \o Of(texts, v), m) = Tallied(s \o Of(texts, v), e)
  <2>. DEFINE t == Of(texts, v)
  <2>1. t \in Seq(L) /\ Tallied(t, m) = Tallied(t, e)
    BY <1>1, <1>4
  <2>. HIDE DEF t
  <2>2. \A text : Tallied(s \o t, text) = Tallied(s, text) + Tallied(t, text)
    BY <2>1, TallyConcat
  <2>. QED  BY <1>7, <2>1, <2>2 DEF t
<1>8. Tallied(out', m) = Tallied(out', e)
  <2>1. CASE Start
    <3>1. out' = (IF class \in {"opt", "vcopt", "md"} THEN out ELSE <<>>) \o Of(Classes[class].head, <<pass + 1, 0>>)
      BY <2>1 DEF Start
    <3>2. CASE class \in {"opt", "vcopt", "md"}
      BY <1>2, <1>3, <1>5, <1>6, <1>7, <3>1, <3>2
    <3>3. CASE class \notin {"opt", "vcopt", "md"}
      BY <1>2, <1>3, <1>5, <1>6, <1>7, <3>1, <3>3
    <3>. QED  BY <3>2, <3>3
  <2>2. ASSUME NEW f \in Files, WriteFile(f)
        PROVE  Tallied(out', m) = Tallied(out', e)
    <3>1. out' = IF f = "out" THEN out \o Of(Classes[class].step, <<pass, wrote["out"] + 1>>) ELSE out
      BY <2>2 DEF WriteFile
    <3>. QED  BY <1>2, <1>3, <1>5, <1>6, <1>7, <3>1
  <2>3. ASSUME NEW how, End(how)
        PROVE  Tallied(out', m) = Tallied(out', e)
    <3>1. out' = IF how = "converged" THEN out \o Of(Classes[class].converged, <<pass, wrote["out"]>>) ELSE out
      BY <2>3 DEF End
    <3>. QED  BY <1>2, <1>3, <1>5, <1>6, <1>7, <3>1
  <2>. QED  BY <2>1, <2>2, <2>3 DEF Calculate
<1>9. Tallied(out', Head(Classes[class'].step)) = Tallied(out', EnergyLine[class'])
  BY <1>0, <1>8 DEF m, e
<1>10. PassedInv' /\ WrittenInv'
  BY <1>0 DEF RepeatInv, PassedInv, WrittenInv
<1>. QED  BY <1>0, <1>9, <1>10 DEF RepeatInv

(* A new reading: every number so far counts once more, and the new one.   *)
LEMMA ReadLinesRepeats ==
  ASSUME RepeatInv, ReadInv, Typed, ReadLines
  PROVE  RepeatInv'
<1>. DEFINE L == Lines(class)
            e == EnergyLine[class]
            m == Head(Classes[class].step)
            x == Tallied(out, m)
            total == Tallied(lines, e)
<1>1. /\ UNCHANGED <<class, out, settled, post>> /\ lines' = lines \o out /\ at' = 1
      /\ pc = "open" /\ pc' = "rules"
      /\ seen' = Append(seen, Cardinality({i \in DOMAIN out : out[i].line = m}))
  BY DEF ReadLines, calculation
<1>2. lines \in Seq(L) /\ out \in Seq(L)
  BY DEF ReadInv
<1>3. Cardinality({i \in DOMAIN out : out[i].line = m}) = x
  <2>1. DOMAIN out = 1..Len(out)
    BY <1>2
  <2>. HIDE DEF m
  <2>. QED  BY <2>1 DEF Tallied, Tally
<1>4. x = Tallied(out, e)
  BY DEF RepeatInv
<1>. HIDE DEF L
<1>5. total \in Nat /\ x \in Nat /\ Tallied(lines', e) = total + x
  <2>. HIDE DEF e, m
  <2>1. Tallied(lines, e) \in Nat /\ Tallied(out, e) \in Nat /\ Tallied(lines \o out, e) = Tallied(lines, e) + Tallied(out, e)
    BY <1>2, TallyConcat
  <2>. QED  BY <1>1, <1>4, <2>1
<1>6. seen \in Seq(Nat) /\ SumsTo(seen, total) /\ Counts(settled, EnergyKey[class], TimesOf(seen))
  BY <1>1 DEF RepeatInv, PassedInv
<1>. HIDE DEF x, total
<1>7. seen' = Append(seen, x)
  BY <1>1, <1>3
<1>8. /\ SumsTo(seen', total + x)
      /\ TimesOf(seen) \in Nat /\ TimesOf(seen') = TimesOf(seen) + total + x
  <2>1. /\ SumsTo(Append(seen, x), total + x)
        /\ TimesOf(seen) \in Nat /\ TimesOf(Append(seen, x)) = TimesOf(seen) + total + x
    BY <1>5, <1>6, TimesGrow
  <2>. QED  BY <1>7, <2>1
<1>9. seen' \in Seq(Nat)
  BY <1>5, <1>6, <1>7
<1>10. PassedInv'
  <2>1. Tally(lines', e, 0) = 0
    BY TallyNone
  <2>2. TimesOf(seen') = TimesOf(seen) + Tallied(lines', e)
    BY <1>5, <1>8
  <2>3. at' - 1 = 0 /\ TimesOf(seen) + 0 = TimesOf(seen)
    BY <1>1, <1>8
  <2>4. Counts(settled', EnergyKey[class'], TimesOf(seen) + Tally(lines', e, at' - 1))
    BY <1>1, <1>6, <2>1, <2>3
  <2>. QED  BY <1>1, <1>8, <2>2, <2>4 DEF PassedInv
<1>11. WrittenInv'
  BY <1>1 DEF WrittenInv
<1>12. SumsTo(seen', Tallied(lines', EnergyLine[class']))
  BY <1>1, <1>5, <1>8
<1>13. Tallied(out', Head(Classes[class'].step)) = Tallied(out', EnergyLine[class'])
  BY <1>1 DEF RepeatInv
<1>. QED  BY <1>9, <1>10, <1>11, <1>12, <1>13 DEF RepeatInv

LEMMA JoinRepeats ==
  ASSUME RepeatInv, ReadInv, Typed, Join
  PROVE  RepeatInv'
<1>. DEFINE e == EnergyLine[class]
            k == EnergyKey[class]
            line == lines[at]
<1>1. /\ UNCHANGED <<class, out, lines, seen, post, pc>> /\ pc = "rules" /\ busy = {} /\ at <= Len(lines)
      /\ at' = at + 1 /\ settled' = info
  BY DEF Join, calculation
<1>2. info = ApplyAll(settled, class, line)
  BY <1>1, JoinedTree DEF Typed
<1>3. PICK before \in Nat :
          /\ TimesOf(seen) = before + Tallied(lines, e)
          /\ Counts(settled, k, before + Tally(lines, e, at - 1))
  BY <1>1 DEF RepeatInv, PassedInv
<1>4. at \in 1..Len(lines) + 1 /\ lines \in Seq(Lines(class))
  BY <1>1 DEF ReadInv, ThreadInv
<1>5. at \in DOMAIN lines /\ at \in Nat /\ at - 1 \in Nat /\ at = (at - 1) + 1
  BY <1>1, <1>4
<1>6. line \in Lines(class)
  BY <1>4, <1>5, ElementsOfSeq
<1>. DEFINE n == before + Tally(lines, e, at - 1)
            one == IF line.line = e THEN 1 ELSE 0
<1>7. Tally(lines, e, at - 1) \in Nat /\ Tally(lines, e, at) = Tally(lines, e, at - 1) + one
  <2>. DEFINE a == at - 1
  <2>. HIDE DEF a, e
  <2>1. a \in Nat /\ at = a + 1
    BY <1>5 DEF a
  <2>2. Tally(lines, e, a) \in Nat /\ Tally(lines, e, at) = Tally(lines, e, a) + one
    BY <2>1, TallyStep
  <2>. QED  BY <2>2 DEF a
<1>8. n \in Nat /\ IsTree(settled) /\ class \in DOMAIN Classes
  BY <1>7 DEF ReadInv, Typed
<1>9. Counts(ApplyAll(settled, class, line), EnergyKey[class], n + (IF line.line = EnergyLine[class] THEN 1 ELSE 0))
  <2>1. Counts(settled, EnergyKey[class], n)
    BY <1>3
  <2>. HIDE DEF line, n
  <2>. QED  BY <1>6, <1>8, <2>1, LineCounts
<1>10. n + one = before + Tally(lines, e, at)
  BY <1>7
<1>11. Counts(settled', k, before + Tally(lines, e, at))
  <2>1. Counts(settled', k, n + one)
    BY <1>1, <1>2, <1>9
  <2>. HIDE DEF n, one, k, e
  <2>. QED  BY <1>10, <2>1
<1>12. at' - 1 = at
  BY <1>1, <1>5
<1>13. PassedInv'
  <2>1. Counts(settled', EnergyKey[class'], before + Tally(lines', EnergyLine[class'], at' - 1))
    BY <1>1, <1>11, <1>12
  <2>2. TimesOf(seen') = before + Tallied(lines', EnergyLine[class'])
    BY <1>1, <1>3
  <2>. QED  BY <1>1, <2>1, <2>2 DEF PassedInv
<1>14. WrittenInv'
  BY <1>1 DEF WrittenInv
<1>. QED  BY <1>1, <1>13, <1>14 DEF RepeatInv

LEMMA WriteJsonRepeats ==
  ASSUME RepeatInv, ReadInv, Typed, WriteJson
  PROVE  RepeatInv'
<1>. DEFINE e == EnergyLine[class]
            k == EnergyKey[class]
<1>1. /\ UNCHANGED <<class, out, lines, info, at, settled, seen>> /\ pc = "rules" /\ at > Len(lines)
      /\ post' = Save("json", info)
      /\ pc' = IF Classes[class].after = <<>> THEN "idle" ELSE Head(Classes[class].after)
  BY DEF WriteJson, calculation
<1>2. pc' \notin {"open", "rules"}
  BY <1>1, ReadsAfterRules DEF Typed
<1>3. PICK before \in Nat :
          /\ TimesOf(seen) = before + Tallied(lines, e)
          /\ Counts(settled, k, before + Tally(lines, e, at - 1))
  BY <1>1 DEF RepeatInv, PassedInv
<1>4. at \in 1..Len(lines) + 1 /\ lines \in Seq(Lines(class))
  BY <1>1 DEF ReadInv, ThreadInv
<1>5. Len(lines) \in Nat
  BY <1>4
<1>6. at - 1 = Len(lines)
  BY <1>1, <1>4, <1>5
<1>7. Counts(settled, k, TimesOf(seen))
  BY <1>3, <1>6 DEF Tallied
<1>8. info = settled
  <2>1. AtWork(lines, at) = {}
    BY <1>1, <1>4, <1>5 DEF AtWork
  <2>. QED  BY <1>1, <2>1 DEF ReadInv, ThreadInv
<1>9. post'["json"] = settled
  BY <1>1, <1>8 DEF Save
<1>10. PassedInv' /\ WrittenInv'
  BY <1>1, <1>2, <1>7, <1>9 DEF PassedInv, WrittenInv
<1>. QED  BY <1>1, <1>10 DEF RepeatInv

LEMMA RepeatInvStays ==
  ASSUME RepeatInv, UNCHANGED <<class, out, lines, at, settled, seen>>,
         pc' = pc \/ (pc # "rules" /\ pc' # "rules" /\ pc # "open"),
         "json" \in DOMAIN post' => "json" \in DOMAIN post /\ post'["json"] = post["json"]
  PROVE  RepeatInv'
<1>1. PassedInv'
  BY DEF RepeatInv, PassedInv
<1>2. WrittenInv'
  BY DEF RepeatInv, WrittenInv
<1>. QED  BY <1>1, <1>2 DEF RepeatInv

LEMMA SavedElsewhere ==
  ASSUME NEW name, NEW content, name # "json", post' = Save(name, content),
         "json" \in DOMAIN post'
  PROVE  "json" \in DOMAIN post /\ post'["json"] = post["json"]
<1>1. DOMAIN post' = DOMAIN post \cup {name}
  BY DEF Save
<1>2. "json" \in DOMAIN post
  BY <1>1
<1>. QED  BY <1>2 DEF Save

LEMMA StructureNames ==
  StructureName # "json"
BY DEF StructureName

LEMMA RepeatInvNext ==
  ASSUME RepeatInv, ReadInv, Typed, [Next]_vars
  PROVE  RepeatInv'
<1>1. CASE Calculate
  BY <1>1, CalculationRepeats
<1>2. CASE Construct
  <2>1. /\ UNCHANGED <<class, out, post>> /\ lines' = <<>> /\ seen' = <<>> /\ pc' = "idle"
        /\ settled' = Constructed(class)
    BY <1>2 DEF Construct, calculation
  <2>2. Counts(settled', EnergyKey[class], 0)
    BY <2>1, ConstructedCounts DEF Typed
  <2>3. \A text : Tallied(<<>>, text) = 0
    BY TallyOf
  <2>4. SumsTo(<<>>, 0) /\ TimesOf(<<>>) = 0 /\ <<>> \in Seq(Nat)
    BY TimesOfNothing
  <2>5. PassedInv' /\ WrittenInv'
    BY <2>1, <2>2, <2>4 DEF PassedInv, WrittenInv
  <2>. QED  BY <2>1, <2>3, <2>4, <2>5 DEF RepeatInv
<1>3. CASE BeginRun
  <2>1. /\ UNCHANGED <<class, out, lines, at, seen, post>> /\ pc = "idle" /\ pc' = "open"
        /\ settled' = ExtraInfo(info) /\ info = settled /\ IsTree(info)
    BY <1>3 DEF BeginRun, calculation, ReadInv
  <2>2. Counts(info, EnergyKey[class], TimesOf(seen))
    BY <2>1 DEF RepeatInv, PassedInv
  <2>3. wrote["out"] \in Nat /\ pass \in Nat
    BY DEF Typed
  <2>. DEFINE k == EnergyKey[class]
              n == TimesOf(seen)
  <2>4. Counts(ExtraInfo(info), k, n)
    <3>. HIDE DEF k, n
    <3>. QED  BY <2>1, <2>2, <2>3, ExtraInfoCounts DEF k, n
  <2>5. PassedInv' /\ WrittenInv'
    BY <2>1, <2>4 DEF PassedInv, WrittenInv
  <2>. QED  BY <2>1, <2>5 DEF RepeatInv
<1>4. CASE ReadLines
  BY <1>4, ReadLinesRepeats
<1>5. ASSUME NEW t \in Threads, Thread(t)
      PROVE  RepeatInv'
  <2>1. UNCHANGED <<class, out, lines, at, settled, seen, pc, post>>
    BY <1>5 DEF Thread, calculation
  <2>. QED  BY <2>1, RepeatInvStays
<1>6. CASE Join
  BY <1>6, JoinRepeats
<1>7. CASE WriteJson
  BY <1>7, WriteJsonRepeats
<1>8. CASE ReadPositions \/ ReadCell \/ ReadOutAgain \/ ReadGeometry \/ ReadMin
  <2>1. /\ UNCHANGED <<class, lines, at, settled, seen, out>>
        /\ pc # "rules" /\ pc' # "rules" /\ pc # "open"
    BY <1>8 DEF ReadPositions, ReadCell, ReadOutAgain, ReadGeometry, ReadMin, Crash, SaveOptimized,
           calculation, object
  <2>2. post' = post \/ \E name, content : name # "json" /\ post' = Save(name, content)
    BY <1>8, StructureNames DEF ReadPositions, ReadCell, ReadOutAgain, ReadGeometry, ReadMin, Crash,
           SaveOptimized
  <2>3. "json" \in DOMAIN post' => "json" \in DOMAIN post /\ post'["json"] = post["json"]
    <3>1. CASE post' = post
      BY <3>1
    <3>2. ASSUME NEW name, NEW content, name # "json", post' = Save(name, content)
          PROVE  "json" \in DOMAIN post' => "json" \in DOMAIN post /\ post'["json"] = post["json"]
      BY <3>2, SavedElsewhere
    <3>. QED  BY <2>2, <3>1, <3>2
  <2>. QED  BY <2>1, <2>3, RepeatInvStays
<1>9. CASE UNCHANGED vars
  <2>1. UNCHANGED <<class, out, lines, at, settled, seen, pc, post>>
    BY <1>9 DEF vars, calculation, object
  <2>. QED  BY <2>1, RepeatInvStays
<1>. QED  BY <1>1, <1>2, <1>3, <1>4, <1>5, <1>6, <1>7, <1>8, <1>9 DEF Next, Run

(* The list of energies in the tree that run() writes holds the steps of   *)
(* the first output an object has read as often as the object has read     *)
(* since, those of the second once less, and so on: run() appends what it  *)
(* reads to the lines of the object and applies the rules to all of them   *)
(* (post.cpp:52, 101).  For every class, every number of steps, of         *)
(* executions and of calls, and whatever the calculation writes in between.*)
THEOREM ListsAreRepeated == Spec => []ListsRepeat
<1>1. Init => IInv /\ ReadInv /\ RepeatInv
  BY IInvInit, ReadInvInit, RepeatInvInit
<1>2. IInv /\ ReadInv /\ RepeatInv /\ [Next]_vars => (IInv /\ ReadInv /\ RepeatInv)'
  BY IInvNext, ReadInvNext, RepeatInvNext, TypedOf DEF IInv
<1>3. RepeatInv => ListsRepeat
  BY RepeatInvImplies, TimesIs
<1>. QED  BY <1>1, <1>2, <1>3, PTL DEF Spec
=============================================================================
