--------------------------- MODULE RecursionLemmas --------------------------
(***************************************************************************)
(* Induction and recursion, as the other proofs of this project need them: *)
(* over sets instead of predicates, so that they can be cited for any      *)
(* formula, and for the recursive functions behind FoldLeft and FlattenSeq *)
(* of the community modules.                                               *)
(***************************************************************************)
EXTENDS Integers, Sequences, SequencesExt, Selections, WellFoundedInduction, TLAPS

(* A set that has 0, and n + 1 whenever it has n, has every number: a      *)
(* smallest one that it has not would have a predecessor.                  *)
LEMMA InductionOnNat ==
  ASSUME NEW S, 0 \in S, \A n \in Nat : n \in S => n + 1 \in S
  PROVE  \A n \in Nat : n \in S
<1>. DEFINE Missing == {n \in Nat : n \notin S}
            R == OpToRel(<, Nat)
<1>. SUFFICES ASSUME Missing # {} PROVE FALSE
  OBVIOUS
<1>1. IsWellFoundedOn(R, Nat)
  BY NatLessThanWellFounded
<1>2. \A x, y \in Nat : y < x => <<y, x>> \in R
  BY DEF OpToRel
<1>. HIDE DEF R
<1>3. PICK x \in Missing : \A y \in Missing : ~ (<<y, x>> \in R)
  BY <1>1, WFMin
<1>4. x \in Nat /\ x # 0 /\ x - 1 \in Nat /\ x - 1 < x /\ (x - 1) + 1 = x
  OBVIOUS
<1>5. x - 1 \notin Missing
  BY <1>2, <1>3, <1>4
<1>. QED  BY <1>4, <1>5

(* The same up to a bound. *)
LEMMA InductionUpTo ==
  ASSUME NEW n \in Nat, NEW S, 0 \in S, \A i \in 1..n : i - 1 \in S => i \in S
  PROVE  \A i \in 0..n : i \in S
<1>. DEFINE T == {i \in Nat : i <= n => i \in S}
<1>1. 0 \in T
  OBVIOUS
<1>2. ASSUME NEW i \in Nat, i \in T PROVE i + 1 \in T
  <2>1. CASE i + 1 <= n
    <3>1. i + 1 \in 1..n /\ (i + 1) - 1 = i /\ i <= n
      BY <2>1
    <3>. QED  BY <1>2, <3>1
  <2>2. CASE ~(i + 1 <= n)
    BY <2>2
  <2>. QED  BY <2>1, <2>2
<1>. HIDE DEF T
<1>3. \A i \in Nat : i \in T
  BY <1>1, <1>2, InductionOnNat
<1>. QED  BY <1>3 DEF T

(* The same for two numbers at once: a function that has a value in S at 0 *)
(* and does not leave S.                                                   *)
LEMMA StaysIn ==
  ASSUME NEW n \in Nat, NEW g, NEW S, g[0] \in S, \A i \in 1..n : g[i - 1] \in S => g[i] \in S
  PROVE  \A i \in 0..n : g[i] \in S
<1>. DEFINE T == {i \in 0..n : g[i] \in S}
<1>1. 0 \in T
  OBVIOUS
<1>2. ASSUME NEW i \in 1..n, i - 1 \in T PROVE i \in T
  BY <1>2
<1>. HIDE DEF T
<1>3. \A i \in 0..n : i \in T
  BY <1>1, <1>2, InductionUpTo
<1>. QED  BY <1>3 DEF T

LEMMA MaxOfNumbers ==
  ASSUME NEW n \in Nat, NEW T \in SUBSET (1..n), T # {}
  PROVE  Max(T) \in T /\ \A i \in T : i <= Max(T)
<1>. DEFINE S == {m \in Nat : m <= n => \A U \in SUBSET (1..m) : U # {} => \E x \in U : \A y \in U : y <= x}
<1>1. 0 \in S
  <2>1. 1..0 = {}
    OBVIOUS
  <2>. QED  BY <2>1
<1>2. ASSUME NEW m \in Nat, m \in S PROVE m + 1 \in S
  <2>. SUFFICES ASSUME m + 1 <= n, NEW U \in SUBSET (1..m + 1), U # {}
                PROVE  \E x \in U : \A y \in U : y <= x
    OBVIOUS
  <2>1. CASE m + 1 \in U
    BY <2>1
  <2>2. CASE m + 1 \notin U
    <3>1. U \in SUBSET (1..m)
      BY <2>2
    <3>2. m <= n
      OBVIOUS
    <3>. QED  BY <1>2, <3>1, <3>2
  <2>. QED  BY <2>1, <2>2
<1>3. n \in S
  <2>. HIDE DEF S
  <2>. QED  BY <1>1, <1>2, InductionOnNat
<1>4. \E x \in T : \A y \in T : x >= y
  BY <1>3
<1>. QED  BY <1>4 DEF Max

LEMMA MinOfNumbers ==
  ASSUME NEW n \in Nat, NEW T \in SUBSET (1..n), T # {}
  PROVE  Min(T) \in T /\ \A i \in T : Min(T) <= i
<1>. DEFINE S == {m \in Nat : \A x \in T : x > m}
<1>1. 0 \in S
  OBVIOUS
<1>2. \E x \in T : \A y \in T : x <= y
  <2>. SUFFICES ASSUME \A x \in T : \E y \in T : y < x PROVE FALSE
    OBVIOUS
  <2>1. ASSUME NEW m \in Nat, m \in S PROVE m + 1 \in S
    <3>1. m + 1 \notin T
      BY <2>1
    <3>. QED  BY <2>1, <3>1
  <2>. HIDE DEF S
  <2>2. n \in S
    BY <1>1, <2>1, InductionOnNat
  <2>3. \A x \in T : x > n /\ x \in 1..n
    BY <2>2 DEF S
  <2>4. ~ \E x \in T : TRUE
    BY <2>3
  <2>. QED  BY <2>4
<1>. QED  BY <1>2 DEF Min

-----------------------------------------------------------------------------
(* g goes on from base, step by step. *)
Iterates(g, n, V, base, step) ==
    /\ g \in [0..n -> V]
    /\ g[0] = base
    /\ \A i \in 1..n : g[i] = step[i][g[i - 1]]

(* Such a g exists, whatever the steps do. *)
LEMMA StepsDefine ==
  ASSUME NEW n \in Nat, NEW V, NEW base \in V, NEW step \in [1..n -> [V -> V]]
  PROVE  \E g : Iterates(g, n, V, base, step)
<1>. DEFINE S == {m \in 0..n : \E g : Iterates(g, m, V, base, step)}
<1>1. 0 \in S
  <2>1. Iterates([i \in 0..0 |-> base], 0, V, base, step)
    BY DEF Iterates
  <2>. QED  BY <2>1
<1>2. ASSUME NEW m \in 1..n, m - 1 \in S PROVE m \in S
  <2>1. PICK g : Iterates(g, m - 1, V, base, step)
    BY <1>2
  <2>. DEFINE h == [i \in 0..m |-> IF i = m THEN step[m][g[m - 1]] ELSE g[i]]
  <2>2. \A i \in 0..m : i # m => h[i] = g[i] /\ i \in 0..m - 1
    OBVIOUS
  <2>3. h[m] = step[m][g[m - 1]] /\ g[m - 1] \in V /\ h[m] \in V
    BY <2>1 DEF Iterates
  <2>4. h \in [0..m -> V]
    BY <2>1, <2>2, <2>3 DEF Iterates
  <2>5. h[0] = base
    BY <2>1, <2>2 DEF Iterates
  <2>6. ASSUME NEW i \in 1..m PROVE h[i] = step[i][h[i - 1]]
    <3>1. i - 1 \in 0..m /\ i - 1 # m /\ i \in 0..m
      OBVIOUS
    <3>2. h[i - 1] = g[i - 1]
      BY <2>2, <3>1
    <3>3. CASE i = m
      BY <2>3, <3>2, <3>3
    <3>4. CASE i # m
      <4>1. i \in 1..m - 1
        BY <3>4
      <4>2. h[i] = g[i]
        BY <2>2, <3>1, <3>4
      <4>. QED  BY <2>1, <3>2, <4>1, <4>2 DEF Iterates
    <3>. QED  BY <3>3, <3>4
  <2>. HIDE DEF h
  <2>7. Iterates(h, m, V, base, step) /\ m \in 0..n
    BY <2>4, <2>5, <2>6 DEF Iterates
  <2>. QED  BY <2>7
<1>. HIDE DEF S
<1>3. n \in S
  <2>1. n \in 0..n
    OBVIOUS
  <2>. QED  BY <1>1, <1>2, <2>1, InductionUpTo
<1>. QED  BY <1>3 DEF S

(* The recursion of MapThenFoldSet on the indices of a sequence. *)
FoldsOver(F, n, V, base, step) ==
    /\ F \in [SUBSET (1..n) -> V]
    /\ \A T \in SUBSET (1..n) :
          F[T] = IF T = {} THEN base ELSE step[Max(T)][F[T \ {Max(T)}]]

LEMMA FoldDefines ==
  ASSUME NEW n \in Nat, NEW V, NEW base \in V, NEW step \in [1..n -> [V -> V]]
  PROVE  \E F : FoldsOver(F, n, V, base, step)
<1>. DEFINE D == SUBSET (1..n)
            W == [D -> V]
            start == [T \in D |-> base]
            one == [i \in 1..n |-> [f \in W |->
                       [T \in D |-> IF i \in T THEN step[i][f[T]] ELSE f[T]]]]
<1>1. start \in W
  OBVIOUS
<1>2. one \in [1..n -> [W -> W]]
  <2>. SUFFICES ASSUME NEW i \in 1..n, NEW f \in W, NEW T \in D
                PROVE  (IF i \in T THEN step[i][f[T]] ELSE f[T]) \in V
    OBVIOUS
  <2>1. f[T] \in V
    OBVIOUS
  <2>. QED  BY <2>1
<1>. HIDE DEF W, start, one
<1>3. PICK g : Iterates(g, n, W, start, one)
  BY <1>1, <1>2, StepsDefine
<1>4. ASSUME NEW i \in 1..n, NEW T \in D
      PROVE  g[i][T] = IF i \in T THEN step[i][g[i - 1][T]] ELSE g[i - 1][T]
  <2>1. g[i - 1] \in W /\ g[i] = one[i][g[i - 1]]
    BY <1>3 DEF Iterates
  <2>. QED  BY <2>1 DEF one
<1>0. \A T \in D : g[0][T] = base
  <2>1. g[0] = start
    BY <1>3 DEF Iterates
  <2>. QED  BY <2>1 DEF start
<1>5. ASSUME NEW T \in D, NEW U \in D, NEW m \in 0..n, \A i \in 1..m : i \in T <=> i \in U
      PROVE  g[m][T] = g[m][U]
  <2>. DEFINE S == {i \in 0..n : i <= m => g[i][T] = g[i][U]}
  <2>1. 0 \in S
    BY <1>0
  <2>2. ASSUME NEW i \in 1..n, i - 1 \in S PROVE i \in S
    BY <1>4, <1>5, <2>2
  <2>. HIDE DEF S
  <2>3. m \in S
    BY <2>1, <2>2, InductionUpTo
  <2>. QED  BY <2>3 DEF S
<1>6. ASSUME NEW T \in D, NEW m \in 0..n, \A i \in T : i <= m
      PROVE  g[n][T] = g[m][T]
  <2>. DEFINE S == {i \in 0..n : i >= m => g[i][T] = g[m][T]}
  <2>1. 0 \in S
    OBVIOUS
  <2>2. ASSUME NEW i \in 1..n, i - 1 \in S PROVE i \in S
    <3>1. CASE i - 1 >= m
      <4>1. i \notin T
        BY <1>6, <3>1
      <4>. QED  BY <1>4, <2>2, <3>1, <4>1
    <3>2. CASE ~(i - 1 >= m)
      <4>1. i >= m => i = m
        BY <3>2
      <4>. QED  BY <4>1
    <3>. QED  BY <3>1, <3>2
  <2>. HIDE DEF S
  <2>3. n \in 0..n
    OBVIOUS
  <2>4. n \in S
    BY <2>1, <2>2, <2>3, InductionUpTo
  <2>. QED  BY <2>4 DEF S
<1>7. ASSUME NEW T \in D
      PROVE  g[n][T] = IF T = {} THEN base ELSE step[Max(T)][g[n][T \ {Max(T)}]]
  <2>1. CASE T = {}
    <3>1. g[n][T] = g[0][T]
      BY <1>6, <2>1
    <3>. QED  BY <1>0, <2>1, <3>1
  <2>2. CASE T # {}
    <3>. DEFINE m == Max(T)
                U == T \ {m}
    <3>1. m \in T /\ (\A i \in T : i <= m) /\ m \in 1..n
      BY <2>2, MaxOfNumbers
    <3>. HIDE DEF m
    <3>2. U \in D /\ \A i \in U : i <= m - 1
      BY <3>1
    <3>3. g[n][T] = g[m][T]
      BY <1>6, <3>1
    <3>4. g[m][T] = step[m][g[m - 1][T]]
      BY <1>4, <3>1
    <3>5. \A i \in 1..m - 1 : i \in T <=> i \in U
      BY <3>1
    <3>6. m - 1 \in 0..n
      BY <3>1
    <3>7. g[m - 1][T] = g[m - 1][U]
      BY <1>5, <3>2, <3>5, <3>6
    <3>8. g[n][U] = g[m - 1][U]
      BY <1>6, <3>2, <3>6
    <3>. QED  BY <2>2, <3>3, <3>4, <3>7, <3>8 DEF m
  <2>. QED  BY <2>1, <2>2
<1>8. g[n] \in [SUBSET (1..n) -> V]
  <2>1. g[n] \in W
    BY <1>3 DEF Iterates
  <2>. QED  BY <2>1 DEF W
<1>. QED  BY <1>7, <1>8 DEF FoldsOver

(* Read along the sequence: such a recursion takes one element at a time.  *)
LEMMA FoldSteps ==
  ASSUME NEW n \in Nat, NEW i \in 1..n
  PROVE  /\ 1..i \in SUBSET (1..n) /\ 1..i # {} /\ Max(1..i) = i
         /\ (1..i) \ {i} = 1..i - 1
<1>1. 1..i \in SUBSET (1..n) /\ 1..i # {} /\ i \in 1..i
  OBVIOUS
<1>2. Max(1..i) \in 1..i /\ \A j \in 1..i : j <= Max(1..i)
  BY <1>1, MaxOfNumbers
<1>3. Max(1..i) = i
  BY <1>1, <1>2
<1>. QED  BY <1>1, <1>3

LEMMA FoldAlong ==
  ASSUME NEW F, NEW n \in Nat, NEW V, NEW base, NEW step, FoldsOver(F, n, V, base, step)
  PROVE  Iterates([i \in 0..n |-> F[1..i]], n, V, base, step)
<1>. DEFINE g == [i \in 0..n |-> F[1..i]]
<1>1. \A i \in 0..n : 1..i \in SUBSET (1..n)
  OBVIOUS
<1>2. g \in [0..n -> V]
  BY <1>1 DEF FoldsOver
<1>3. g[0] = base
  <2>1. 1..0 = {}
    OBVIOUS
  <2>. QED  BY <1>1, <2>1 DEF FoldsOver
<1>4. ASSUME NEW i \in 1..n PROVE g[i] = step[i][g[i - 1]]
  <2>1. 1..i # {} /\ Max(1..i) = i /\ (1..i) \ {i} = 1..i - 1
    BY FoldSteps
  <2>2. F[1..i] = step[i][F[1..i - 1]]
    BY <1>1, <2>1, SMTT(40) DEF FoldsOver
  <2>. QED  BY <2>2
<1>. QED  BY <1>2, <1>3, <1>4 DEF Iterates

(* What holds at the start and is kept by every step holds of the result.  *)
LEMMA IteratesKeep ==
  ASSUME NEW n \in Nat, NEW V, NEW base, NEW step, NEW g, Iterates(g, n, V, base, step),
         NEW I, base \in I, \A i \in 1..n : \A v \in V : v \in I => step[i][v] \in I
  PROVE  \A i \in 0..n : g[i] \in I
<1>1. g[0] \in I
  BY DEF Iterates
<1>2. ASSUME NEW i \in 1..n, g[i - 1] \in I PROVE g[i] \in I
  BY <1>2 DEF Iterates
<1>. QED  BY <1>1, <1>2, StaysIn

(* What one more step makes of the last value. *)
LEMMA LastStep ==
  ASSUME NEW V, NEW base, NEW n \in Nat,
         NEW f, NEW steps, Iterates(f, n, V, base, steps),
         NEW g, NEW more, Iterates(g, n + 1, V, base, more),
         \A i \in 1..n : steps[i] = more[i]
  PROVE  f[n] \in V /\ g[n + 1] = more[n + 1][f[n]]
<1>. DEFINE I == {i \in 0..n : f[i] = g[i]}
<1>1. 0 \in I
  BY DEF Iterates
<1>2. ASSUME NEW i \in 1..n, i - 1 \in I PROVE i \in I
  <2>1. i \in 1..n + 1 /\ i \in 0..n
    OBVIOUS
  <2>2. f[i] = steps[i][f[i - 1]] /\ g[i] = more[i][g[i - 1]]
    BY <2>1 DEF Iterates
  <2>. QED  BY <1>2, <2>1, <2>2
<1>. HIDE DEF I
<1>3. \A i \in 0..n : i \in I
  BY <1>1, <1>2, InductionUpTo
<1>4. f[n] = g[n]
  BY <1>3 DEF I
<1>5. n + 1 \in 1..n + 1 /\ (n + 1) - 1 = n /\ n \in 0..n
  OBVIOUS
<1>. QED  BY <1>4, <1>5 DEF Iterates

(* Induction over sequences, one element at their end. *)
LEMMA InductionOnSeq ==
  ASSUME NEW S, NEW I, <<>> \in I,
         \A s \in Seq(S) : \A x \in S : s \in I => Append(s, x) \in I
  PROVE  \A s \in Seq(S) : s \in I
<1>. SUFFICES ASSUME NEW s \in Seq(S) PROVE s \in I
  OBVIOUS
<1>. DEFINE n == Len(s)
            front == [i \in 0..n |-> SubSeq(s, 1, i)]
<1>1. n \in Nat /\ s = SubSeq(s, 1, n)
  OBVIOUS
<1>2. front[0] \in I
  <2>1. front[0] = <<>>
    BY <1>1
  <2>. QED  BY <2>1
<1>3. ASSUME NEW i \in 1..n, front[i - 1] \in I PROVE front[i] \in I
  <2>1. i \in 0..n /\ i - 1 \in 0..n /\ i - 1 \in Nat
    BY <1>1
  <2>2. SubSeq(s, 1, i - 1) \in Seq(S) /\ s[i] \in S
    BY <1>1, <2>1
  <2>3. SubSeq(s, 1, i) = Append(SubSeq(s, 1, i - 1), s[i])
    BY <1>1, <2>1
  <2>. QED  BY <1>3, <2>1, <2>2, <2>3
<1>. HIDE DEF front, n
<1>4. front[n] \in I
  <2>1. n \in 0..n
    BY <1>1
  <2>. QED  BY <1>1, <1>2, <1>3, <2>1, StaysIn
<1>5. front[n] = s
  <2>1. n \in 0..n
    BY <1>1
  <2>. HIDE DEF n
  <2>2. front[n] = SubSeq(s, 1, n)
    BY <2>1 DEF front
  <2>. QED  BY <1>1, <2>2
<1>. QED  BY <1>4, <1>5

-----------------------------------------------------------------------------
(* FlattenSeq appends one sequence after the other. *)
LEMMA FlattenSteps ==
  ASSUME NEW S, NEW ss \in Seq(Seq(S))
  PROVE  \E g : /\ Iterates(g, Len(ss), Seq(S), <<>>,
                             [i \in 1..Len(ss) |-> [k \in Seq(S) |-> k \o ss[i]]])
                /\ FlattenSeq(ss) = g[Len(ss)]
<1>. DEFINE n == Len(ss)
            step == [i \in 1..n |-> [k \in Seq(S) |-> k \o ss[i]]]
            P(G) == G = [i \in 1..n |-> IF i = 1 THEN ss[i] ELSE G[i - 1] \o ss[i]]
            C == CHOOSE G : P(G)
<1>1. n \in Nat /\ DOMAIN ss = 1..n /\ (\A i \in 1..n : ss[i] \in Seq(S)) /\ <<>> \in Seq(S)
  OBVIOUS
<1>2. step \in [1..n -> [Seq(S) -> Seq(S)]]
  BY <1>1
<1>3. PICK g : Iterates(g, n, Seq(S), <<>>, step)
  <2>. HIDE DEF step, n
  <2>. QED  BY <1>1, <1>2, StepsDefine
<1>6. g[0] = <<>> /\ \A i \in 1..n : g[i] = step[i][g[i - 1]] /\ g[i - 1] \in Seq(S)
  <2>. HIDE DEF step, n
  <2>1. \A i \in 1..n : i - 1 \in 0..n
    BY <1>1
  <2>. QED  BY <1>3, <2>1 DEF Iterates
<1>4. CASE n = 0
  <2>1. FlattenSeq(ss) = <<>>
    BY <1>4 DEF FlattenSeq
  <2>. QED  BY <1>3, <1>4, <2>1 DEF Iterates
<1>5. CASE n # 0
  <2>. DEFINE h == [i \in 1..n |-> g[i]]
  <2>1. \A i \in 1..n : g[i] = g[i - 1] \o ss[i]
    BY <1>6
  <2>2. g[0] = <<>>
    BY <1>6
  <2>3. \A i \in 1..n : i = 1 => g[i] = ss[i]
    <3>. SUFFICES ASSUME 1 \in 1..n PROVE g[1] = ss[1]
      OBVIOUS
    <3>. HIDE DEF n
    <3>1. g[1] = g[1 - 1] \o ss[1] /\ ss[1] \in Seq(S)
      BY <1>1, <2>1
    <3>2. g[1 - 1] = <<>>
      BY <2>2
    <3>. QED  BY <3>1, <3>2
  <2>4. \A i \in 1..n : h[i] = IF i = 1 THEN ss[i] ELSE h[i - 1] \o ss[i]
    <3>1. \A i \in 1..n : i # 1 => i - 1 \in 1..n
      BY <1>1
    <3>. HIDE DEF n
    <3>. QED  BY <1>1, <2>1, <2>3, <3>1
  <2>5. P(h)
    BY <2>4
  <2>6. P(C)
    <3>. HIDE DEF P, h
    <3>. QED  BY <2>5
  <2>7. FlattenSeq(ss) = C[n]
    BY <1>1, <1>5 DEF FlattenSeq
  <2>. HIDE DEF C, h
  <2>8. \A i \in 1..n : C[i] = IF i = 1 THEN ss[i] ELSE C[i - 1] \o ss[i]
    BY <2>6
  <2>. DEFINE E == {i \in 0..n : i # 0 => C[i] = g[i]}
  <2>9. 0 \in E
    BY <1>1
  <2>10. ASSUME NEW i \in 1..n, i - 1 \in E PROVE i \in E
    <3>. HIDE DEF n
    <3>1. i = 1 => C[i] = g[i]
      BY <2>3, <2>8
    <3>2. i # 1 => C[i] = C[i - 1] \o ss[i]
      BY <2>8
    <3>3. i # 1 => C[i - 1] = g[i - 1]
      BY <1>1, <2>10
    <3>4. C[i] = g[i]
      BY <2>1, <3>1, <3>2, <3>3
    <3>5. i \in 0..n
      BY <1>1
    <3>. QED  BY <3>4, <3>5
  <2>. HIDE DEF E, n
  <2>11. n \in 0..n
    BY <1>1
  <2>12. n \in E
    BY <1>1, <2>9, <2>10, <2>11, InductionUpTo
  <2>13. C[n] = g[n]
    BY <1>5, <2>12 DEF E
  <2>. QED  BY <1>3, <2>7, <2>13 DEF n
<1>. QED  BY <1>4, <1>5

LEMMA FlattenEmpty ==
  FlattenSeq(<<>>) = <<>>
BY DEF FlattenSeq

LEMMA FlattenAppend ==
  ASSUME NEW S, NEW ss \in Seq(Seq(S)), NEW s \in Seq(S)
  PROVE  /\ FlattenSeq(ss) \in Seq(S)
         /\ FlattenSeq(Append(ss, s)) = FlattenSeq(ss) \o s
<1>. DEFINE n == Len(ss)
            tt == Append(ss, s)
            steps == [i \in 1..n |-> [k \in Seq(S) |-> k \o ss[i]]]
            more == [i \in 1..n + 1 |-> [k \in Seq(S) |-> k \o tt[i]]]
<1>1. n \in Nat /\ tt \in Seq(Seq(S)) /\ Len(tt) = n + 1 /\ tt[n + 1] = s
  OBVIOUS
<1>2. \A i \in 1..n : steps[i] = more[i]
  OBVIOUS
<1>3. PICK f : Iterates(f, n, Seq(S), <<>>, steps) /\ FlattenSeq(ss) = f[n]
  BY FlattenSteps
<1>4. PICK g : Iterates(g, n + 1, Seq(S), <<>>, more) /\ FlattenSeq(tt) = g[n + 1]
  <2>. HIDE DEF tt
  <2>1. \E g : /\ Iterates(g, Len(tt), Seq(S), <<>>,
                            [i \in 1..Len(tt) |-> [k \in Seq(S) |-> k \o tt[i]]])
               /\ FlattenSeq(tt) = g[Len(tt)]
    BY <1>1, FlattenSteps
  <2>. QED  BY <1>1, <2>1
<1>5. f[n] \in Seq(S) /\ g[n + 1] = more[n + 1][f[n]]
  <2>. HIDE DEF n, tt, steps, more
  <2>. QED  BY <1>1, <1>2, <1>3, <1>4, LastStep
<1>6. more[n + 1][f[n]] = f[n] \o s
  <2>1. n + 1 \in 1..n + 1
    BY <1>1
  <2>. HIDE DEF n, tt
  <2>2. more[n + 1][f[n]] = f[n] \o tt[n + 1]
    BY <1>5, <2>1
  <2>. QED  BY <1>1, <2>2
<1>. QED  BY <1>3, <1>4, <1>5, <1>6

-----------------------------------------------------------------------------
(* Only takes the elements one by one: its fold, as steps. *)
LEMMA OnlySteps ==
  ASSUME NEW S, NEW s \in Seq(S), NEW T
  PROVE  \E g : /\ Iterates(g, Len(s), Seq(S), <<>>,
                            [i \in 1..Len(s) |-> [k \in Seq(S) |->
                                IF s[i] \in T THEN Append(k, s[i]) ELSE k]])
                /\ Only(s, T) = g[Len(s)]
<1>. DEFINE n == Len(s)
            step == [i \in 1..n |-> [k \in Seq(S) |->
                        IF s[i] \in T THEN Append(k, s[i]) ELSE k]]
            P(G) == G = [X \in SUBSET DOMAIN s |->
                          IF X = {} THEN <<>>
                          ELSE IF s[Max(X)] \in T
                               THEN Append(G[X \ {Max(X)}], s[Max(X)])
                               ELSE G[X \ {Max(X)}]]
            C == CHOOSE G : P(G)
<1>1. n \in Nat /\ DOMAIN s = 1..n /\ <<>> \in Seq(S) /\ step \in [1..n -> [Seq(S) -> Seq(S)]]
  OBVIOUS
<1>2. PICK F : FoldsOver(F, n, Seq(S), <<>>, step)
  <2>. HIDE DEF n, step
  <2>. QED  BY <1>1, FoldDefines
<1>3. Only(s, T) = C[DOMAIN s]
  BY DEF Only, FoldLeft, MapThenFoldSet
<1>4. ASSUME NEW X \in SUBSET (1..n), X # {}
      PROVE  F[X] = IF s[Max(X)] \in T THEN Append(F[X \ {Max(X)}], s[Max(X)])
                                       ELSE F[X \ {Max(X)}]
  <2>. HIDE DEF n
  <2>1. Max(X) \in 1..n
    BY <1>1, <1>4, MaxOfNumbers
  <2>2. F[X \ {Max(X)}] \in Seq(S) /\ F[X] = step[Max(X)][F[X \ {Max(X)}]]
    <3>. HIDE DEF step
    <3>. QED  BY <1>2, <1>4 DEF FoldsOver
  <2>. QED  BY <2>1, <2>2
<1>5. F[{}] = <<>> /\ F \in [SUBSET (1..n) -> Seq(S)]
  <2>. HIDE DEF n, step
  <2>. QED  BY <1>2 DEF FoldsOver
<1>6. P(F)
  <2>. HIDE DEF n, step
  <2>. QED  BY <1>1, <1>4, <1>5
<1>7. P(C)
  <2>. HIDE DEF P
  <2>. QED  BY <1>6
<1>. HIDE DEF C
<1>8. C[1..n] = F[1..n]
  <2>. DEFINE I == {i \in 0..n : C[1..i] = F[1..i]}
  <2>. HIDE DEF n, step
  <2>1. 0 \in I
    <3>1. 1..0 = {}
      OBVIOUS
    <3>. QED  BY <1>1, <1>5, <1>7, <3>1
  <2>2. ASSUME NEW i \in 1..n, i - 1 \in I PROVE i \in I
    <3>1. 1..i \in SUBSET (1..n) /\ 1..i # {} /\ Max(1..i) = i /\ (1..i) \ {i} = 1..i - 1
      BY <1>1, FoldSteps
    <3>2. C[1..i] = IF s[i] \in T THEN Append(C[1..i - 1], s[i]) ELSE C[1..i - 1]
      BY <1>1, <1>7, <3>1
    <3>3. F[1..i] = IF s[i] \in T THEN Append(F[1..i - 1], s[i]) ELSE F[1..i - 1]
      BY <1>4, <3>1
    <3>. QED  BY <2>2, <3>2, <3>3
  <2>. HIDE DEF I
  <2>3. n \in 0..n
    BY <1>1
  <2>4. n \in I
    BY <1>1, <2>1, <2>2, <2>3, InductionUpTo
  <2>. QED  BY <2>4 DEF I
<1>9. Iterates([i \in 0..n |-> F[1..i]], n, Seq(S), <<>>, step)
  <2>. HIDE DEF n, step
  <2>. QED  BY <1>1, <1>2, FoldAlong
<1>10. [i \in 0..n |-> F[1..i]][n] = F[1..n]
  BY <1>1
<1>. QED  BY <1>1, <1>3, <1>8, <1>9, <1>10

LEMMA OnlyEmpty ==
  ASSUME NEW T
  PROVE  Only(<<>>, T) = <<>>
<1>. DEFINE step == [i \in 1..0 |-> [k \in Seq({}) |->
                        IF <<>>[i] \in T THEN Append(k, <<>>[i]) ELSE k]]
<1>1. <<>> \in Seq({}) /\ Len(<<>>) = 0
  OBVIOUS
<1>2. PICK g : Iterates(g, 0, Seq({}), <<>>, step) /\ Only(<<>>, T) = g[0]
  BY <1>1, OnlySteps, ZenonT(40)
<1>. HIDE DEF step
<1>. QED  BY <1>2 DEF Iterates

LEMMA OnlyAppend ==
  ASSUME NEW S, NEW s \in Seq(S), NEW x \in S, NEW T
  PROVE  /\ Only(s, T) \in Seq(S)
         /\ Only(Append(s, x), T) = IF x \in T THEN Append(Only(s, T), x) ELSE Only(s, T)
<1>. DEFINE n == Len(s)
            t == Append(s, x)
            steps == [i \in 1..n |-> [k \in Seq(S) |->
                         IF s[i] \in T THEN Append(k, s[i]) ELSE k]]
            more == [i \in 1..n + 1 |-> [k \in Seq(S) |->
                         IF t[i] \in T THEN Append(k, t[i]) ELSE k]]
<1>1. n \in Nat /\ t \in Seq(S) /\ Len(t) = n + 1 /\ t[n + 1] = x
  OBVIOUS
<1>2. \A i \in 1..n : steps[i] = more[i]
  OBVIOUS
<1>3. PICK f : Iterates(f, n, Seq(S), <<>>, steps) /\ Only(s, T) = f[n]
  BY OnlySteps
<1>4. PICK g : Iterates(g, n + 1, Seq(S), <<>>, more) /\ Only(t, T) = g[n + 1]
  <2>. HIDE DEF t
  <2>1. \E g : /\ Iterates(g, Len(t), Seq(S), <<>>,
                            [i \in 1..Len(t) |-> [k \in Seq(S) |->
                                IF t[i] \in T THEN Append(k, t[i]) ELSE k]])
               /\ Only(t, T) = g[Len(t)]
    BY <1>1, OnlySteps
  <2>. QED  BY <1>1, <2>1
<1>5. f[n] \in Seq(S) /\ g[n + 1] = more[n + 1][f[n]]
  <2>. HIDE DEF n, t, steps, more
  <2>. QED  BY <1>1, <1>2, <1>3, <1>4, LastStep
<1>6. more[n + 1][f[n]] = IF x \in T THEN Append(f[n], x) ELSE f[n]
  <2>1. n + 1 \in 1..n + 1
    BY <1>1
  <2>. HIDE DEF n, t
  <2>2. more[n + 1][f[n]] = IF t[n + 1] \in T THEN Append(f[n], t[n + 1]) ELSE f[n]
    BY <1>5, <2>1
  <2>. QED  BY <1>1, <2>2
<1>. QED  BY <1>3, <1>4, <1>5, <1>6

LEMMA OnlyTyped ==
  ASSUME NEW S, NEW T, NEW s \in Seq(S)
  PROVE  Only(s, T) \in Seq(S)
<1>. DEFINE n == Len(s)
<1>1. PICK g : /\ Iterates(g, n, Seq(S), <<>>,
                            [i \in 1..Len(s) |-> [k \in Seq(S) |->
                                IF s[i] \in T THEN Append(k, s[i]) ELSE k]])
               /\ Only(s, T) = g[n]
  BY OnlySteps
<1>2. n \in 0..n
  OBVIOUS
<1>. HIDE DEF n
<1>. QED  BY <1>1, <1>2 DEF Iterates

LEMMA ConcatIs ==
  ASSUME NEW S, NEW s \in Seq(S), NEW t \in Seq(S)
  PROVE  /\ s \o t \in Seq(S)
         /\ Len(s \o t) = Len(s) + Len(t)
         /\ \A i \in 1..Len(s) : (s \o t)[i] = s[i]
         /\ \A i \in 1..Len(t) : (s \o t)[Len(s) + i] = t[i]
OBVIOUS

LEMMA ElementsOfSeq ==
  ASSUME NEW S, NEW s \in Seq(S)
  PROVE  /\ \A i \in DOMAIN s : s[i] \in S
         /\ Range(s) \subseteq S
<1>. DEFINE n == Len(s)
<1>1. DOMAIN s = 1..n
  OBVIOUS
<1>2. \A i \in 1..n : s[i] \in S
  OBVIOUS
<1>3. \A i \in DOMAIN s : s[i] \in S
  <2>. HIDE DEF n
  <2>. QED  BY <1>1, <1>2
<1>4. Range(s) \subseteq S
  BY <1>3 DEF Range
<1>. QED  BY <1>3, <1>4

LEMMA RangeOfAppend ==
  ASSUME NEW S, NEW s \in Seq(S), NEW x \in S
  PROVE  Range(Append(s, x)) = Range(s) \cup {x}
<1>. DEFINE t == Append(s, x)
            n == Len(s)
<1>1. n \in Nat /\ DOMAIN s = 1..n /\ DOMAIN t = 1..n + 1
  OBVIOUS
<1>2. \A i \in 1..n : t[i] = s[i]
  OBVIOUS
<1>3. t[n + 1] = x
  OBVIOUS
<1>4. 1..n + 1 = (1..n) \cup {n + 1}
  BY <1>1
<1>. HIDE DEF t, n
<1>5. ASSUME NEW y PROVE y \in Range(t) <=> y \in Range(s) \cup {x}
  BY <1>1, <1>2, <1>3, <1>4 DEF Range
<1>. QED  BY <1>5 DEF t

(* What is kept is what the sequence has and the set has. *)
LEMMA OnlyHas ==
  ASSUME NEW S, NEW T
  PROVE  \A s \in Seq(S) : Range(Only(s, T)) = Range(s) \cap T
<1>. DEFINE I == {s \in Seq(S) : Range(Only(s, T)) = Range(s) \cap T}
<1>1. <<>> \in I
  BY OnlyEmpty DEF Range
<1>2. ASSUME NEW s \in Seq(S), NEW x \in S, s \in I PROVE Append(s, x) \in I
  <2>1. Only(s, T) \in Seq(S) /\ Append(s, x) \in Seq(S)
    BY OnlyAppend
  <2>2. \A k \in Seq(S) : Range(Append(k, x)) = Range(k) \cup {x}
    BY RangeOfAppend
  <2>3. Range(Append(s, x)) \cap T = IF x \in T THEN (Range(s) \cap T) \cup {x} ELSE Range(s) \cap T
    BY <2>2
  <2>4. Range(Only(Append(s, x), T)) = IF x \in T THEN Range(Only(s, T)) \cup {x} ELSE Range(Only(s, T))
    <3>. DEFINE kept == Only(s, T)
    <3>1. Only(Append(s, x), T) = IF x \in T THEN Append(kept, x) ELSE kept
      BY OnlyAppend
    <3>. HIDE DEF kept
    <3>2. kept \in Seq(S) /\ Range(Append(kept, x)) = Range(kept) \cup {x}
      BY <2>1, <2>2 DEF kept
    <3>3. CASE x \in T
      BY <3>1, <3>2, <3>3 DEF kept
    <3>4. CASE x \notin T
      BY <3>1, <3>4 DEF kept
    <3>. QED  BY <3>3, <3>4
  <2>5. Range(Only(s, T)) = Range(s) \cap T
    BY <1>2
  <2>6. Range(Only(Append(s, x), T)) = Range(Append(s, x)) \cap T
    BY <2>3, <2>4, <2>5
  <2>. QED  BY <2>1, <2>6
<1>. HIDE DEF I
<1>3. \A s \in Seq(S) : s \in I
  BY <1>1, <1>2, InductionOnSeq
<1>. QED  BY <1>3 DEF I

(* The first part and the second part of a sequence are kept one by one. *)
LEMMA OnlyConcat ==
  ASSUME NEW S, NEW T, NEW s \in Seq(S)
  PROVE  \A t \in Seq(S) : Only(s \o t, T) = Only(s, T) \o Only(t, T)
<1>. DEFINE I == {t \in Seq(S) : Only(s \o t, T) = Only(s, T) \o Only(t, T)}
<1>0. Only(s, T) \in Seq(S) /\ \A t \in Seq(S) : Only(t, T) \in Seq(S)
  BY OnlyTyped
<1>1. <<>> \in I
  <2>1. s \o <<>> = s /\ Only(s, T) \o <<>> = Only(s, T)
    BY <1>0
  <2>2. <<>> \in Seq(S)
    OBVIOUS
  <2>3. Only(s \o <<>>, T) = Only(s, T) \o Only(<<>>, T)
    BY <2>1, OnlyEmpty
  <2>. QED  BY <2>2, <2>3
<1>2. ASSUME NEW t \in Seq(S), NEW x \in S, t \in I PROVE Append(t, x) \in I
  <2>1. \A k \in Seq(S), l \in Seq(S) : k \o Append(l, x) = Append(k \o l, x) /\ k \o l \in Seq(S)
    OBVIOUS
  <2>2. Only(s \o Append(t, x), T) = Only(Append(s \o t, x), T)
    BY <2>1
  <2>3. Only(Append(s \o t, x), T) = IF x \in T THEN Append(Only(s \o t, T), x) ELSE Only(s \o t, T)
    <3>. DEFINE u == s \o t
    <3>1. u \in Seq(S)
      OBVIOUS
    <3>. HIDE DEF u
    <3>2. Only(Append(u, x), T) = IF x \in T THEN Append(Only(u, T), x) ELSE Only(u, T)
      BY <3>1, OnlyAppend
    <3>. QED  BY <3>2 DEF u
  <2>4. Only(Append(t, x), T) = IF x \in T THEN Append(Only(t, T), x) ELSE Only(t, T)
    BY OnlyAppend
  <2>5. Only(s \o t, T) = Only(s, T) \o Only(t, T)
    BY <1>2
  <2>6. Only(s, T) \o Append(Only(t, T), x) = Append(Only(s, T) \o Only(t, T), x)
    BY <1>0, <2>1
  <2>7. Only(s \o Append(t, x), T) = Only(s, T) \o Only(Append(t, x), T)
    BY <2>2, <2>3, <2>4, <2>5, <2>6
  <2>8. Append(t, x) \in Seq(S)
    OBVIOUS
  <2>. QED  BY <2>7, <2>8
<1>. HIDE DEF I
<1>3. \A t \in Seq(S) : t \in I
  BY <1>1, <1>2, InductionOnSeq
<1>. QED  BY <1>3 DEF I

(* Keeping twice keeps what both sets have. *)
LEMMA OnlyTwice ==
  ASSUME NEW S, NEW T, NEW U
  PROVE  \A s \in Seq(S) : Only(Only(s, T), U) = Only(s, T \cap U)
<1>. DEFINE I == {s \in Seq(S) : Only(Only(s, T), U) = Only(s, T \cap U)}
            both == T \cap U
<1>1. <<>> \in I
  <2>1. Only(Only(<<>>, T), U) = Only(<<>>, T \cap U) /\ <<>> \in Seq(S)
    BY OnlyEmpty
  <2>. QED  BY <2>1
<1>2. ASSUME NEW s \in Seq(S), NEW x \in S, s \in I PROVE Append(s, x) \in I
  <2>. DEFINE kept == Only(s, T)
  <2>1. kept \in Seq(S)
    BY OnlyTyped
  <2>2. Only(Append(s, x), T) = IF x \in T THEN Append(kept, x) ELSE kept
    BY OnlyAppend
  <2>4. Only(kept, U) = Only(s, both)
    BY <1>2
  <2>. HIDE DEF kept, both
  <2>3. Only(Append(s, x), both) = IF x \in both THEN Append(Only(s, both), x) ELSE Only(s, both)
    BY OnlyAppend
  <2>5. Only(Append(kept, x), U) = IF x \in U THEN Append(Only(kept, U), x) ELSE Only(kept, U)
    BY <2>1, OnlyAppend
  <2>6. x \in both <=> x \in T /\ x \in U
    BY DEF both
  <2>8. Only(Only(Append(s, x), T), U) = Only(Append(s, x), both)
    <3>1. CASE x \in T
      BY <2>2, <2>3, <2>4, <2>5, <2>6, <3>1
    <3>2. CASE x \notin T
      BY <2>2, <2>3, <2>4, <2>6, <3>2
    <3>. QED  BY <3>1, <3>2
  <2>7. Append(s, x) \in Seq(S)
    OBVIOUS
  <2>. QED  BY <2>7, <2>8 DEF both
<1>. HIDE DEF I
<1>3. \A s \in Seq(S) : s \in I
  BY <1>1, <1>2, InductionOnSeq
<1>. QED  BY <1>3 DEF I

(* Of two sets without a common member, each element is kept by one. *)
LEMMA OnlySplits ==
  ASSUME NEW S, NEW T, NEW U, T \cap U = {}
  PROVE  \A s \in Seq(S) : Len(Only(s, T \cup U)) = Len(Only(s, T)) + Len(Only(s, U))
<1>. DEFINE I == {s \in Seq(S) : Len(Only(s, T \cup U)) = Len(Only(s, T)) + Len(Only(s, U))}
<1>1. <<>> \in I
  <2>1. Len(Only(<<>>, T \cup U)) = 0 /\ Len(Only(<<>>, T)) = 0 /\ Len(Only(<<>>, U)) = 0
    BY OnlyEmpty
  <2>. QED  BY <2>1
<1>2. ASSUME NEW s \in Seq(S), NEW x \in S, s \in I PROVE Append(s, x) \in I
  <2>1. ASSUME NEW W
        PROVE  /\ Len(Only(s, W)) \in Nat
               /\ Len(Only(Append(s, x), W)) = IF x \in W THEN Len(Only(s, W)) + 1
                                                         ELSE Len(Only(s, W))
    <3>. DEFINE kept == Only(s, W)
    <3>1. kept \in Seq(S)
      BY OnlyTyped
    <3>2. Only(Append(s, x), W) = IF x \in W THEN Append(kept, x) ELSE kept
      BY OnlyAppend
    <3>. HIDE DEF kept
    <3>3. Len(Append(kept, x)) = Len(kept) + 1 /\ Len(kept) \in Nat
      BY <3>1
    <3>4. Len(Only(Append(s, x), W)) = IF x \in W THEN Len(kept) + 1 ELSE Len(kept)
      BY <3>2, <3>3
    <3>. QED  BY <3>3, <3>4 DEF kept
  <2>2. Len(Only(s, T \cup U)) = Len(Only(s, T)) + Len(Only(s, U))
    BY <1>2
  <2>3. Len(Only(Append(s, x), T \cup U)) = Len(Only(Append(s, x), T)) + Len(Only(Append(s, x), U))
    BY <2>1, <2>2
  <2>4. Append(s, x) \in Seq(S)
    OBVIOUS
  <2>. QED  BY <2>3, <2>4
<1>. HIDE DEF I
<1>3. \A s \in Seq(S) : s \in I
  BY <1>1, <1>2, InductionOnSeq
<1>. QED  BY <1>3 DEF I

(* A set that has the whole sequence keeps it, one that has nothing of it  *)
(* keeps nothing.                                                          *)
LEMMA OnlyAll ==
  ASSUME NEW S, NEW T
  PROVE  \A s \in Seq(S) : Range(s) \subseteq T => Only(s, T) = s
<1>. DEFINE I == {s \in Seq(S) : Range(s) \subseteq T => Only(s, T) = s}
<1>1. <<>> \in I
  <2>1. Only(<<>>, T) = <<>> /\ <<>> \in Seq(S)
    BY OnlyEmpty
  <2>. QED  BY <2>1
<1>2. ASSUME NEW s \in Seq(S), NEW x \in S, s \in I PROVE Append(s, x) \in I
  <2>1. Range(Append(s, x)) = Range(s) \cup {x}
    BY RangeOfAppend
  <2>2. Only(Append(s, x), T) = IF x \in T THEN Append(Only(s, T), x) ELSE Only(s, T)
    BY OnlyAppend
  <2>3. Range(s) \subseteq T => Only(s, T) = s
    BY <1>2
  <2>4. Range(Append(s, x)) \subseteq T => Only(Append(s, x), T) = Append(s, x)
    BY <2>1, <2>2, <2>3
  <2>5. Append(s, x) \in Seq(S)
    OBVIOUS
  <2>. QED  BY <2>4, <2>5
<1>. HIDE DEF I
<1>3. \A s \in Seq(S) : s \in I
  BY <1>1, <1>2, InductionOnSeq
<1>. QED  BY <1>3 DEF I

LEMMA OnlyNone ==
  ASSUME NEW S, NEW T, NEW s \in Seq(S), Range(s) \cap T = {}
  PROVE  Only(s, T) = <<>>
<1>1. Range(Only(s, T)) = {} /\ Only(s, T) \in Seq(S)
  BY OnlyHas, OnlyTyped
<1>. DEFINE kept == Only(s, T)
<1>. HIDE DEF kept
<1>2. \A i \in 1..Len(kept) : kept[i] \in Range(kept)
  BY <1>1 DEF Range, kept
<1>3. Len(kept) = 0 /\ kept \in Seq(S)
  BY <1>1, <1>2 DEF kept
<1>. QED  BY <1>3 DEF kept

LEMMA DistinctAppend ==
  ASSUME NEW S, NEW s \in Seq(S), NEW x \in S
  PROVE  Distinct(Append(s, x)) <=> Distinct(s) /\ x \notin Range(s)
<1>. DEFINE t == Append(s, x)
            n == Len(s)
<1>1. n \in Nat /\ DOMAIN s = 1..n /\ DOMAIN t = 1..n + 1
  OBVIOUS
<1>2. \A i \in 1..n : t[i] = s[i]
  OBVIOUS
<1>3. t[n + 1] = x
  OBVIOUS
<1>. HIDE DEF t, n
<1>4. ASSUME Distinct(t) PROVE Distinct(s) /\ x \notin Range(s)
  <2>1. Distinct(s)
    BY <1>1, <1>2, <1>4 DEF Distinct
  <2>2. \A i \in 1..n : s[i] # x
    BY <1>1, <1>2, <1>3, <1>4 DEF Distinct
  <2>. QED  BY <1>1, <2>1, <2>2 DEF Range
<1>5. ASSUME Distinct(s), x \notin Range(s) PROVE Distinct(t)
  <2>1. \A i \in 1..n : s[i] # x
    BY <1>1, <1>5 DEF Range
  <2>2. ASSUME NEW i \in 1..n + 1, NEW j \in 1..n + 1, t[i] = t[j] PROVE i = j
    <3>1. i \in 1..n \/ i = n + 1
      BY <1>1
    <3>2. j \in 1..n \/ j = n + 1
      BY <1>1
    <3>. QED  BY <1>1, <1>2, <1>3, <1>5, <2>1, <2>2, <3>1, <3>2 DEF Distinct
  <2>. QED  BY <1>1, <2>2 DEF Distinct
<1>. QED  BY <1>4, <1>5 DEF t

LEMMA OnlyDistinct ==
  ASSUME NEW S, NEW T
  PROVE  \A s \in Seq(S) : Distinct(s) => Distinct(Only(s, T))
<1>. DEFINE I == {s \in Seq(S) : Distinct(s) => Distinct(Only(s, T))}
<1>1. <<>> \in I
  <2>1. Only(<<>>, T) = <<>> /\ <<>> \in Seq(S)
    BY OnlyEmpty
  <2>. QED  BY <2>1
<1>2. ASSUME NEW s \in Seq(S), NEW x \in S, s \in I PROVE Append(s, x) \in I
  <2>. DEFINE kept == Only(s, T)
  <2>1. kept \in Seq(S) /\ Range(kept) = Range(s) \cap T
    BY OnlyTyped, OnlyHas
  <2>2. Only(Append(s, x), T) = IF x \in T THEN Append(kept, x) ELSE kept
    BY OnlyAppend
  <2>3. Distinct(s) => Distinct(kept)
    BY <1>2
  <2>. HIDE DEF kept
  <2>4. Distinct(Append(s, x)) <=> Distinct(s) /\ x \notin Range(s)
    BY DistinctAppend
  <2>5. Distinct(Append(kept, x)) <=> Distinct(kept) /\ x \notin Range(kept)
    BY <2>1, DistinctAppend
  <2>6. Distinct(Append(s, x)) => Distinct(Only(Append(s, x), T))
    BY <2>1, <2>2, <2>3, <2>4, <2>5
  <2>7. Append(s, x) \in Seq(S)
    OBVIOUS
  <2>. QED  BY <2>6, <2>7
<1>. HIDE DEF I
<1>3. \A s \in Seq(S) : s \in I
  BY <1>1, <1>2, InductionOnSeq
<1>. QED  BY <1>3 DEF I

(* Any function that takes these steps where it has a value in V takes     *)
(* them along the sequence: the one a fold chooses.                        *)
LEMMA ChosenFold ==
  ASSUME NEW n \in Nat, NEW V, NEW base \in V, NEW step \in [1..n -> [V -> V]],
         NEW C, C[{}] = base,
         \A X \in SUBSET (1..n) :
             X # {} /\ C[X \ {Max(X)}] \in V => C[X] = step[Max(X)][C[X \ {Max(X)}]]
  PROVE  Iterates([i \in 0..n |-> C[1..i]], n, V, base, step)
<1>. DEFINE c == [i \in 0..n |-> C[1..i]]
            I == {i \in 0..n : c[i] \in V /\ (i # 0 => c[i] = step[i][c[i - 1]])}
<1>1. 0 \in I /\ c[0] = base
  <2>1. 1..0 = {} /\ 0 \in 0..n
    OBVIOUS
  <2>2. c[0] = base
    BY <2>1
  <2>. QED  BY <2>1, <2>2
<1>2. ASSUME NEW i \in 1..n, i - 1 \in I PROVE i \in I
  <2>1. 1..i \in SUBSET (1..n) /\ 1..i # {} /\ Max(1..i) = i /\ (1..i) \ {i} = 1..i - 1
    BY FoldSteps
  <2>2. i \in 0..n /\ i - 1 \in 0..n /\ i # 0
    OBVIOUS
  <2>. DEFINE X == 1..i
  <2>3. c[i] = C[X] /\ c[i - 1] = C[X \ {Max(X)}] /\ c[i - 1] \in V
    BY <1>2, <2>1, <2>2
  <2>. HIDE DEF X, c
  <2>4. X \in SUBSET (1..n) /\ X # {} /\ Max(X) = i
    BY <2>1 DEF X
  <2>5. C[X] = step[Max(X)][C[X \ {Max(X)}]]
    BY <2>3, <2>4
  <2>6. c[i] = step[i][c[i - 1]] /\ c[i] \in V
    BY <2>3, <2>4, <2>5
  <2>. QED  BY <2>2, <2>6
<1>. HIDE DEF I, c
<1>3. \A i \in 0..n : i \in I
  BY <1>1, <1>2, InductionUpTo
<1>4. c \in [0..n -> V] /\ \A i \in 1..n : c[i] = step[i][c[i - 1]]
  <2>1. \A i \in 0..n : c[i] \in V /\ (i # 0 => c[i] = step[i][c[i - 1]])
    BY <1>3 DEF I
  <2>2. \A i \in 1..n : i \in 0..n /\ i # 0
    OBVIOUS
  <2>3. c \in [0..n -> V]
    BY <2>1 DEF c
  <2>. QED  BY <2>1, <2>2, <2>3
<1>5. Iterates(c, n, V, base, step)
  BY <1>1, <1>4 DEF Iterates
<1>. QED  BY <1>5 DEF c
=============================================================================
