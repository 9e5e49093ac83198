---------------------------- MODULE FoldTheorems ----------------------------
(***************************************************************************)
(* Induction over numbers, for properties given as sets, and what the fold *)
(* of an operator over a sequence is: the last value of a loop.  A module  *)
(* that proves something about its loops takes an instance for each, with  *)
(* the body of the loop for Op; env stands for what the body reads.        *)
(***************************************************************************)
EXTENDS Integers, Sequences, FiniteSetTheorems, TLAPS

CONSTANT Op(_, _, _)

Greatest(s) == CHOOSE x \in s : \A y \in s : x >= y

\* FoldLeft(LAMBDA acc, x : Op(acc, x, env), base, seq) of SequencesExt with its
\* definition expanded, so that a fold of the models is this one by definition.
Fold(base, seq, env) ==
    LET iter[s \in SUBSET DOMAIN seq] ==
            IF s = {} THEN base
            ELSE LET x == Greatest(s) IN Op(iter[s \ {x}], seq[x], env)
    IN  iter[DOMAIN seq]

\* f[i] is the value after the round at i of a loop that takes the rounds in s only.
IsLoopOn(f, base, seq, env, s) ==
    /\ DOMAIN f = 0..Len(seq) /\ f[0] = base
    /\ \A i \in 1..Len(seq) : f[i] = IF i \in s THEN Op(f[i - 1], seq[i], env) ELSE f[i - 1]

\* The rounds of s, and how those of two loops compare.
NoneAfter(s, m) == \A i \in s : ~(i > m)

SameUpTo(s, t, m) == \A i \in 1..m : i \in s <=> i \in t

LastOf(s, m, t) ==
    /\ m \in s /\ \A i \in s : i \in Int /\ i <= m
    /\ \A i : i \in t <=> i \in s /\ i # m

IsLoop(f, base, seq, env) ==
    /\ DOMAIN f = 0..Len(seq) /\ f[0] = base
    /\ \A i \in 1..Len(seq) : f[i] = Op(f[i - 1], seq[i], env)

-----------------------------------------------------------------------------
(* Induction. *)

\* Every non-empty set of naturals has a least element.
LEMMA LeastNatural ==
    ASSUME NEW S, S \subseteq Nat, S # {}
    PROVE  \E n \in S : \A m \in S : n <= m
<1> DEFINE R == {ss \in Nat \X Nat : ss[1] < ss[2]}
<1>1. IsWellFoundedOn(R, Nat)
  BY NatLessThanWellFounded DEF OpToRel
<1>2. PICK n \in S : \A m \in S : ~(<<m, n>> \in R)
  <2> HIDE DEF R
  <2>1. \E x \in S : \A y \in S : ~(<<y, x>> \in R)
    BY <1>1, WFMin
  <2> QED BY <2>1
<1>3. ASSUME NEW m \in S PROVE n <= m
  <2>1. m \in Nat /\ n \in Nat
    OBVIOUS
  <2>2. ~(m < n)
    BY <1>2, <2>1
  <2> QED BY <2>1, <2>2
<1> QED BY <1>3

\* What holds at 0 and is handed on holds of every number.
LEMMA NaturalInduction ==
    ASSUME NEW S, 0 \in S, \A n \in Nat : n \in S => n + 1 \in S
    PROVE  Nat \subseteq S
<1> SUFFICES ASSUME Nat \ S # {} PROVE FALSE
  OBVIOUS
<1>1. PICK n \in Nat \ S : \A m \in Nat \ S : n <= m
  BY LeastNatural
<1>2. n # 0
  OBVIOUS
<1>3. n - 1 \in Nat /\ n - 1 \in S
  BY <1>1, <1>2
<1> QED BY <1>3

\* The same from a number m up to a number n.
LEMMA IntervalInduction ==
    ASSUME NEW m \in Nat, NEW n \in Nat, NEW S, m \in S,
           \A i \in Nat : m <= i /\ i < n /\ i \in S => i + 1 \in S
    PROVE  \A i \in m..n : i \in S
<1> DEFINE T == {i \in Nat : m + i <= n => m + i \in S}
<1>1. 0 \in T
  OBVIOUS
<1>2. ASSUME NEW i \in Nat, i \in T PROVE i + 1 \in T
  <2> SUFFICES ASSUME m + (i + 1) <= n PROVE m + (i + 1) \in S
    OBVIOUS
  <2>1. m + i \in Nat /\ m <= m + i /\ m + i < n /\ m + i \in S
    BY <1>2
  <2>2. (m + i) + 1 \in S
    BY <2>1
  <2> QED BY <2>2
<1> HIDE DEF T
<1>3. Nat \subseteq T
  BY <1>1, <1>2, NaturalInduction
<1>4. ASSUME NEW i \in m..n PROVE i \in S
  <2>1. i - m \in Nat /\ m + (i - m) = i
    OBVIOUS
  <2> QED BY <1>3, <2>1 DEF T
<1> QED BY <1>4

-----------------------------------------------------------------------------
(* Loops. *)

\* The loop over some of the rounds exists.
LEMMA LoopExists ==
    ASSUME NEW base, NEW seq, Len(seq) \in Nat, NEW env, NEW s
    PROVE  \E f : IsLoopOn(f, base, seq, env, s)
<1> DEFINE n == Len(seq)
           Good(k, f) == /\ DOMAIN f = 0..k /\ f[0] = base
                         /\ \A i \in 1..k : f[i] = IF i \in s THEN Op(f[i - 1], seq[i], env)
                                                   ELSE f[i - 1]
           S == {k \in Nat : \E f : Good(k, f)}
<1>1. 0 \in S
  <2>1. Good(0, [i \in 0..0 |-> base])
    OBVIOUS
  <2> QED BY <2>1
<1>2. ASSUME NEW k \in Nat, k \in S PROVE k + 1 \in S
  <2>1. PICK f : Good(k, f)
    BY <1>2
  <2> DEFINE next == IF k + 1 \in s THEN Op(f[k], seq[k + 1], env) ELSE f[k]
             g == [i \in 0..k + 1 |-> IF i = k + 1 THEN next ELSE f[i]]
  <2>2. ASSUME NEW i \in 1..k + 1
        PROVE  g[i] = IF i \in s THEN Op(g[i - 1], seq[i], env) ELSE g[i - 1]
    <3>1. CASE i = k + 1
      <4>1. i - 1 = k /\ k \in 0..k + 1 /\ k # k + 1
        BY <3>1
      <4> QED BY <3>1, <4>1
    <3>2. CASE i # k + 1
      <4>1. i \in 1..k /\ i - 1 \in 0..k + 1 /\ i - 1 # k + 1
        BY <3>2
      <4> QED BY <2>1, <3>2, <4>1
    <3> QED BY <3>1, <3>2
  <2>3. g[0] = base /\ DOMAIN g = 0..k + 1
    BY <2>1
  <2> HIDE DEF g
  <2>4. Good(k + 1, g)
    BY <2>2, <2>3
  <2> QED BY <2>4
<1> HIDE DEF S
<1>3. n \in S
  BY <1>1, <1>2, NaturalInduction
<1> HIDE DEF Good
<1>4. PICK f : Good(n, f)
  BY <1>3 DEF S
<1>5. IsLoopOn(f, base, seq, env, s)
  BY <1>4 DEF IsLoopOn, Good
<1> QED BY <1>5

\* Loops that take the same rounds below m have the same values there.
LEMMA LoopsAgree ==
    ASSUME NEW base, NEW seq, Len(seq) \in Nat, NEW env, NEW s, NEW t, NEW f, NEW g,
           IsLoopOn(f, base, seq, env, s), IsLoopOn(g, base, seq, env, t),
           NEW m \in 0..Len(seq), SameUpTo(s, t, m)
    PROVE  f[m] = g[m]
<1> DEFINE S == {i \in Nat : f[i] = g[i]}
<1>1. 0 \in S
  BY DEF IsLoopOn
<1>2. ASSUME NEW i \in Nat, 0 <= i, i < m, i \in S PROVE i + 1 \in S
  <2>1. i + 1 \in 1..m /\ i + 1 \in 1..Len(seq) /\ (i + 1) - 1 = i
    BY <1>2
  <2> QED BY <1>2, <2>1 DEF IsLoopOn, SameUpTo
<1> HIDE DEF S
<1>3. \A i \in 0..m : i \in S
  BY <1>1, <1>2, IntervalInduction
<1>4. m \in 0..m
  OBVIOUS
<1> QED BY <1>3, <1>4 DEF S

\* A loop stays as it is from its last round on.
LEMMA LoopRests ==
    ASSUME NEW base, NEW seq, Len(seq) \in Nat, NEW env, NEW s, NEW f,
           IsLoopOn(f, base, seq, env, s),
           NEW m \in 0..Len(seq), NoneAfter(s, m)
    PROVE  f[Len(seq)] = f[m]
<1> DEFINE S == {i \in Nat : f[i] = f[m]}
<1>1. m \in S
  OBVIOUS
<1>2. ASSUME NEW i \in Nat, m <= i, i < Len(seq), i \in S PROVE i + 1 \in S
  <2>1. i + 1 \in 1..Len(seq) /\ (i + 1) - 1 = i /\ i + 1 > m
    BY <1>2
  <2> QED BY <1>2, <2>1 DEF IsLoopOn, NoneAfter
<1> HIDE DEF S
<1>3. m \in Nat /\ Len(seq) \in m..Len(seq)
  OBVIOUS
<1>4. \A i \in m..Len(seq) : i \in S
  BY <1>1, <1>2, <1>3, IntervalInduction
<1> QED BY <1>3, <1>4 DEF S

\* The last round of a loop comes on top of the loop over the others.
LEMMA LoopTakesLast ==
    ASSUME NEW base, NEW seq, Len(seq) \in Nat, NEW env, NEW s, NEW m \in 1..Len(seq),
           NEW t, LastOf(s, m, t), NEW f, NEW h,
           IsLoopOn(f, base, seq, env, s), IsLoopOn(h, base, seq, env, t)
    PROVE  f[Len(seq)] = Op(h[Len(seq)], seq[m], env)
<1>1. m \in 0..Len(seq) /\ m \in Int
  OBVIOUS
<1>2. NoneAfter(s, m)
  BY <1>1 DEF NoneAfter, LastOf
<1>3. f[Len(seq)] = f[m]
  BY <1>1, <1>2, LoopRests
<1>4. f[m] = Op(f[m - 1], seq[m], env)
  BY DEF IsLoopOn, LastOf
<1>5. PICK j \in 0..Len(seq) : j = m - 1
  BY <1>1
<1>6. SameUpTo(s, t, j)
  BY <1>5 DEF SameUpTo, LastOf
<1>7. NoneAfter(t, j)
  <2> SUFFICES ASSUME NEW i \in t PROVE ~(i > j)
    BY DEF NoneAfter
  <2>1. i \in Int /\ i <= m /\ i # m
    BY DEF LastOf
  <2> QED BY <1>1, <1>5, <2>1
<1>8. f[j] = h[j]
  BY <1>6, LoopsAgree
<1>9. h[Len(seq)] = h[j]
  BY <1>7, LoopRests
<1> QED BY <1>3, <1>4, <1>5, <1>8, <1>9

\* A bounded set of numbers has a greatest element.
LEMMA GreatestNatural ==
    ASSUME NEW n \in Nat, NEW S, \A i \in S : i \in Nat /\ i <= n, S # {}
    PROVE  \E m \in S : \A i \in S : i <= m
<1> DEFINE T == {j \in Nat : j <= n /\ n - j \in S}
<1>1. PICK p \in S : TRUE
  OBVIOUS
<1>2. p \in Nat /\ n - p \in Nat /\ n - (n - p) = p
  OBVIOUS
<1>3. T \subseteq Nat /\ T # {}
  BY <1>2
<1>4. PICK k \in T : \A j \in T : k <= j
  BY <1>3, LeastNatural
<1>5. n - k \in S /\ k \in Nat
  BY <1>4
<1>6. ASSUME NEW i \in S PROVE i <= n - k
  <2>1. i \in Nat /\ n - i \in Nat /\ n - (n - i) = i
    OBVIOUS
  <2>2. n - i <= n /\ n - (n - i) \in S
    BY <2>1
  <2>3. n - i \in T
    BY <2>1, <2>2
  <2> HIDE DEF T
  <2>4. k <= n - i
    BY <1>4, <2>3
  <2> QED BY <1>5, <2>1, <2>4
<1> QED BY <1>5, <1>6

\* A non-empty set of positions has a greatest one, which Greatest chooses.
LEMMA GreatestExists ==
    ASSUME NEW n \in Nat, NEW s \in SUBSET (1..n), s # {}
    PROVE  Greatest(s) \in s /\ \A i \in s : i <= Greatest(s)
<1> DEFINE P(x) == x \in s /\ \A y \in s : x >= y
<1>1. \A i \in s : i \in Nat /\ i <= n
  OBVIOUS
<1>2. PICK m \in s : \A i \in s : i <= m
  BY <1>1, GreatestNatural
<1>3. P(m)
  BY <1>1, <1>2
<1>4. Greatest(s) = CHOOSE x : P(x)
  BY DEF Greatest
<1>5. P(Greatest(s))
  <2> HIDE DEF P
  <2> QED BY <1>3, <1>4
<1>6. ASSUME NEW i \in s PROVE i <= Greatest(s)
  <2>1. Greatest(s) \in s /\ Greatest(s) >= i
    BY <1>5
  <2>2. i \in 1..n /\ Greatest(s) \in 1..n
    BY <2>1
  <2> QED BY <2>1, <2>2
<1> QED BY <1>5, <1>6

\* A solution of the equation by which a fold over a sequence is defined.
IsFold(g, base, seq, env) ==
    /\ DOMAIN g = SUBSET (1..Len(seq))
    /\ \A s \in SUBSET (1..Len(seq)) :
        g[s] = IF s = {} THEN base ELSE Op(g[s \ {Greatest(s)}], seq[Greatest(s)], env)
    /\ g = [s \in DOMAIN g |-> g[s]]

\* There is one.
LEMMA FoldEquation ==
    ASSUME NEW base, NEW seq, Len(seq) \in Nat, NEW env
    PROVE  \E g : IsFold(g, base, seq, env)
<1> DEFINE n == Len(seq)
           H(s) == CHOOSE f : IsLoopOn(f, base, seq, env, s)
           g == [s \in SUBSET (1..n) |-> H(s)[n]]
<1>1. ASSUME NEW s PROVE IsLoopOn(H(s), base, seq, env, s)
  <2>1. \E f : IsLoopOn(f, base, seq, env, s)
    BY LoopExists
  <2> QED BY <2>1
<1> HIDE DEF H
<1>2. ASSUME NEW s \in SUBSET (1..n)
      PROVE  g[s] = IF s = {} THEN base ELSE Op(g[s \ {Greatest(s)}], seq[Greatest(s)], env)
  <2>1. CASE s = {}
    <3>1. PICK j \in 0..Len(seq) : j = 0
      OBVIOUS
    <3>2. PICK f, u : u = s /\ f = H(s) /\ IsLoopOn(f, base, seq, env, u)
      BY <1>1
    <3>3. f[n] = f[j]
      <4>1. NoneAfter(u, j)
        BY <2>1, <3>2 DEF NoneAfter
      <4>2. IsLoopOn(f, base, seq, env, u)
        BY <3>2
      <4> QED BY <4>1, <4>2, LoopRests
    <3>4. f[0] = base
      BY <3>2 DEF IsLoopOn
    <3> QED BY <2>1, <3>1, <3>2, <3>3, <3>4
  <2>2. CASE s # {}
    <3>0. Greatest(s) \in s /\ \A i \in s : i <= Greatest(s)
      BY <2>2, GreatestExists
    <3>1. PICK m \in s : m = Greatest(s) /\ \A i \in s : i <= m
      BY <3>0
    <3>2. PICK t : t = s \ {m}
      OBVIOUS
    <3>3. m \in 1..Len(seq) /\ t \in SUBSET (1..n)
      BY <3>1, <3>2
    <3>4. IsLoopOn(H(s), base, seq, env, s) /\ IsLoopOn(H(t), base, seq, env, t)
      BY <1>1
    <3>5. H(s)[n] = Op(H(t)[n], seq[m], env)
      <4>1. LastOf(s, m, t)
        BY <3>1, <3>2 DEF LastOf
      <4> QED BY <3>3, <3>4, <4>1, LoopTakesLast
    <3>6. g[s] = Op(g[t], seq[m], env)
      BY <3>3, <3>5
    <3> HIDE DEF g
    <3> QED BY <2>2, <3>1, <3>2, <3>6
  <2> HIDE DEF g
  <2> QED BY <2>1, <2>2
<1>3. DOMAIN g = SUBSET (1..Len(seq)) /\ g = [s \in DOMAIN g |-> g[s]]
  OBVIOUS
<1> HIDE DEF g
<1>4. IsFold(g, base, seq, env)
  BY <1>2, <1>3 DEF IsFold
<1> QED BY <1>4

\* The fold of the models is a solution.
LEMMA FoldSolves ==
    ASSUME NEW base, NEW T, NEW seq \in Seq(T), NEW env
    PROVE  \E g : IsFold(g, base, seq, env) /\ Fold(base, seq, env) = g[1..Len(seq)]
<1> DEFINE n == Len(seq)
           Eq(g) == g = [s \in SUBSET (1..n) |->
                          IF s = {} THEN base ELSE Op(g[s \ {Greatest(s)}], seq[Greatest(s)], env)]
           iter == CHOOSE g : Eq(g)
<1>1. n \in Nat /\ DOMAIN seq = 1..n
  OBVIOUS
<1>2. PICK h : IsFold(h, base, seq, env)
  BY <1>1, FoldEquation
<1>3. Eq(h)
  <2> DEFINE e == [s \in SUBSET (1..n) |->
                     IF s = {} THEN base ELSE Op(h[s \ {Greatest(s)}], seq[Greatest(s)], env)]
  <2>1. h = [s \in SUBSET (1..n) |-> h[s]]
    BY <1>2 DEF IsFold
  <2>2. \A s \in SUBSET (1..n) : h[s] = e[s]
    BY <1>2 DEF IsFold
  <2>3. [s \in SUBSET (1..n) |-> h[s]] = e
    BY <2>2
  <2> QED BY <2>1, <2>3
<1>4. Eq(iter)
  <2> HIDE DEF Eq
  <2> QED BY <1>3
<1>5. Fold(base, seq, env) = iter[1..n]
  BY <1>1 DEF Fold
<1> HIDE DEF iter
<1>6. IsFold(iter, base, seq, env)
  <2>1. DOMAIN iter = SUBSET (1..n)
    BY <1>4
  <2>2. \A s \in SUBSET (1..n) :
          iter[s] = IF s = {} THEN base ELSE Op(iter[s \ {Greatest(s)}], seq[Greatest(s)], env)
    BY <1>4
  <2>3. iter = [s \in SUBSET (1..n) |-> iter[s]]
    BY <1>4
  <2> HIDE DEF Eq
  <2> QED BY <2>1, <2>2, <2>3 DEF IsFold
<1> QED BY <1>5, <1>6

\* FoldLeft is the last value of the loop over the sequence.
THEOREM FoldIsLoop ==
    ASSUME NEW base, NEW T, NEW seq \in Seq(T), NEW env
    PROVE  \E f : IsLoop(f, base, seq, env) /\ Fold(base, seq, env) = f[Len(seq)]
<1> DEFINE n == Len(seq)
<1>1. n \in Nat
  OBVIOUS
<1>2. PICK iter : IsFold(iter, base, seq, env) /\ Fold(base, seq, env) = iter[1..n]
  BY FoldSolves
<1> DEFINE f == [k \in 0..n |-> iter[1..k]]
<1>3. f[0] = base
  <2>1. 1..0 = {} /\ {} \in SUBSET (1..n) /\ 0 \in 0..n
    BY <1>1
  <2> QED BY <1>2, <2>1 DEF IsFold
<1>4. ASSUME NEW k \in 1..n PROVE f[k] = Op(f[k - 1], seq[k], env)
  <2>1. k \in Nat /\ k \in 0..n /\ k - 1 \in 0..n /\ k \in 1..k
    BY <1>1
  <2>2. 1..k \in SUBSET (1..n) /\ 1..k # {}
    <3>1. ASSUME NEW i \in 1..k PROVE i \in 1..n
      BY <1>1, <2>1
    <3>2. 1..k \subseteq 1..n
      BY <3>1
    <3> QED BY <2>1, <3>2
  <2>3. Greatest(1..k) \in 1..k /\ \A i \in 1..k : i <= Greatest(1..k)
    BY <2>1, <2>2, GreatestExists
  <2>4. Greatest(1..k) = k
    BY <2>1, <2>3
  <2>5. (1..k) \ {k} = 1..(k - 1)
    BY <2>1
  <2>6. iter[1..k] = Op(iter[(1..k) \ {Greatest(1..k)}], seq[Greatest(1..k)], env)
    BY <1>2, <2>2 DEF IsFold
  <2> QED BY <2>1, <2>4, <2>5, <2>6
<1>5. DOMAIN f = 0..n /\ f[n] = iter[1..n]
  BY <1>1
<1> HIDE DEF f
<1>6. IsLoop(f, base, seq, env)
  BY <1>3, <1>4, <1>5 DEF IsLoop
<1> QED BY <1>2, <1>5, <1>6

-----------------------------------------------------------------------------
(* Sums of the values of a function. *)

Pick(s) == CHOOSE x \in s : TRUE

\* SumFunctionOnSet(f, S) of Functions with its definition expanded.
Sum(f, S) ==
    LET iter[s \in SUBSET S] ==
            IF s = {} THEN 0
            ELSE LET x == Pick(s) IN f[x] + iter[s \ {x}]
    IN  iter[S]

\* A solution of the equation by which the sum is defined.
IsSum(g, f, S) ==
    /\ DOMAIN g = SUBSET S
    /\ \A s \in SUBSET S : g[s] = IF s = {} THEN 0 ELSE f[Pick(s)] + g[s \ {Pick(s)}]
    /\ g = [s \in DOMAIN g |-> g[s]]

\* The element the sum takes first is in the set, and the rest is one smaller.
LEMMA PickInSet ==
    ASSUME NEW S, IsFiniteSet(S), NEW s \in SUBSET S, s # {}
    PROVE  /\ Pick(s) \in s /\ s \ {Pick(s)} \in SUBSET S
           /\ Cardinality(s) \in Nat /\ Cardinality(s) # 0
           /\ Cardinality(s \ {Pick(s)}) = Cardinality(s) - 1
<1>1. IsFiniteSet(s)
  BY FS_Subset
<1>2. Pick(s) \in s
  BY DEF Pick
<1>3. Cardinality(s) \in Nat /\ Cardinality(s) # 0
  BY <1>1, FS_CardinalityType, FS_EmptySet
<1>4. Cardinality(s \ {Pick(s)}) = Cardinality(s) - 1
  BY <1>1, <1>2, FS_RemoveElement
<1> QED BY <1>2, <1>3, <1>4

\* There is a function that gives the sum over each subset of S.
LEMMA SumEquation ==
    ASSUME NEW f, NEW S, IsFiniteSet(S)
    PROVE  \E g : IsSum(g, f, S)
<1> DEFINE T(n) == {s \in SUBSET S : Cardinality(s) <= n}
           Good(n, g) == /\ DOMAIN g = T(n)
                         /\ \A s \in T(n) : g[s] = IF s = {} THEN 0 ELSE f[Pick(s)] + g[s \ {Pick(s)}]
           N == {n \in Nat : \E g : Good(n, g)}
<1>1. \A s \in SUBSET S : Cardinality(s) \in Nat
  BY FS_Subset, FS_CardinalityType
<1>2. 0 \in N
  <2>1. \A s \in T(0) : s = {}
    <3>1. ASSUME NEW s \in T(0) PROVE s = {}
      <4>1. IsFiniteSet(s) /\ Cardinality(s) = 0
        BY <1>1, FS_Subset
      <4> QED BY <4>1, FS_EmptySet
    <3> QED BY <3>1
  <2>2. PICK g : g = [s \in T(0) |-> 0]
    OBVIOUS
  <2>3. Good(0, g)
    BY <2>1, <2>2
  <2> HIDE DEF Good
  <2> QED BY <2>3
<1>3. ASSUME NEW n \in Nat, n \in N PROVE n + 1 \in N
  <2>1. PICK g : Good(n, g)
    BY <1>3
  <2>2. PICK h : h = [s \in T(n + 1) |-> IF s \in T(n) THEN g[s]
                                         ELSE f[Pick(s)] + g[s \ {Pick(s)}]]
    OBVIOUS
  <2>3. ASSUME NEW s \in T(n + 1)
        PROVE  h[s] = IF s = {} THEN 0 ELSE f[Pick(s)] + h[s \ {Pick(s)}]
    <3>1. CASE s = {}
      <4>1. s \in T(n)
        BY <3>1, FS_EmptySet
      <4> QED BY <2>1, <2>2, <3>1, <4>1
    <3>2. CASE s # {}
      <4>1. PICK t : t = s \ {Pick(s)}
        OBVIOUS
      <4>2. t \in SUBSET S /\ Cardinality(s) \in Nat /\ Cardinality(t) = Cardinality(s) - 1
        BY <3>2, <4>1, PickInSet
      <4>3. t \in T(n) /\ t \in T(n + 1)
        BY <4>2
      <4>4. h[t] = g[t]
        BY <2>2, <4>3
      <4>5. h[s] = f[Pick(s)] + g[t]
        <5>1. CASE s \in T(n)
          BY <2>1, <2>2, <3>2, <4>1, <5>1
        <5>2. CASE s \notin T(n)
          BY <2>2, <4>1, <5>2
        <5> QED BY <5>1, <5>2
      <4> QED BY <3>2, <4>1, <4>4, <4>5
    <3> QED BY <3>1, <3>2
  <2>4. Good(n + 1, h)
    BY <2>2, <2>3
  <2> HIDE DEF Good
  <2> QED BY <2>4
<1> HIDE DEF N
<1>4. Cardinality(S) \in N
  BY <1>1, <1>2, <1>3, NaturalInduction
<1>5. PICK g : Good(Cardinality(S), g)
  BY <1>4 DEF N
<1>6. T(Cardinality(S)) = SUBSET S
  <2>1. \A s \in SUBSET S : Cardinality(s) <= Cardinality(S)
    BY FS_Subset
  <2> QED BY <2>1
<1>7. PICK h : h = [s \in SUBSET S |-> g[s]]
  OBVIOUS
<1>8. ASSUME NEW s \in SUBSET S
      PROVE  h[s] = IF s = {} THEN 0 ELSE f[Pick(s)] + h[s \ {Pick(s)}]
  <2>1. s \ {Pick(s)} \in SUBSET S
    OBVIOUS
  <2> QED BY <1>5, <1>6, <1>7, <2>1
<1>9. IsSum(h, f, S)
  BY <1>7, <1>8 DEF IsSum
<1> QED BY <1>9

\* Sum is the value of such a function at S.
LEMMA SumSolves ==
    ASSUME NEW f, NEW S, IsFiniteSet(S)
    PROVE  \E g : IsSum(g, f, S) /\ Sum(f, S) = g[S]
<1> DEFINE Eq(g) == g = [s \in SUBSET S |-> IF s = {} THEN 0 ELSE f[Pick(s)] + g[s \ {Pick(s)}]]
           iter == CHOOSE g : Eq(g)
<1>1. PICK h : IsSum(h, f, S)
  BY SumEquation
<1>2. Eq(h)
  <2> DEFINE e == [s \in SUBSET S |-> IF s = {} THEN 0 ELSE f[Pick(s)] + h[s \ {Pick(s)}]]
  <2>1. h = [s \in SUBSET S |-> h[s]]
    BY <1>1 DEF IsSum
  <2>2. \A s \in SUBSET S : h[s] = e[s]
    BY <1>1 DEF IsSum
  <2>3. [s \in SUBSET S |-> h[s]] = e
    BY <2>2
  <2> QED BY <2>1, <2>3
<1>3. Eq(iter)
  <2> HIDE DEF Eq
  <2> QED BY <1>2
<1>4. Sum(f, S) = iter[S]
  BY DEF Sum
<1> HIDE DEF iter
<1>5. IsSum(iter, f, S)
  <2>1. DOMAIN iter = SUBSET S
    BY <1>3
  <2>2. \A s \in SUBSET S : iter[s] = IF s = {} THEN 0 ELSE f[Pick(s)] + iter[s \ {Pick(s)}]
    BY <1>3
  <2>3. iter = [s \in SUBSET S |-> iter[s]]
    BY <1>3
  <2> HIDE DEF Eq
  <2> QED BY <2>1, <2>2, <2>3 DEF IsSum
<1> QED BY <1>4, <1>5

\* Two solutions for the same function agree where both are defined.
LEMMA SumsAgree ==
    ASSUME NEW f, NEW S, NEW T, IsFiniteSet(S), NEW g, NEW h, IsSum(g, f, S), IsSum(h, f, T),
           NEW u, u \in SUBSET S, u \in SUBSET T
    PROVE  g[u] = h[u]
<1> DEFINE N == {n \in Nat : \A s \in SUBSET S : s \in SUBSET T /\ Cardinality(s) = n => g[s] = h[s]}
<1>1. 0 \in N
  <2> SUFFICES ASSUME NEW s \in SUBSET S, s \in SUBSET T, Cardinality(s) = 0 PROVE g[s] = h[s]
    OBVIOUS
  <2>1. s = {}
    BY FS_Subset, FS_EmptySet
  <2> QED BY <2>1 DEF IsSum
<1>2. ASSUME NEW n \in Nat, n \in N PROVE n + 1 \in N
  <2> SUFFICES ASSUME NEW s \in SUBSET S, s \in SUBSET T, Cardinality(s) = n + 1 PROVE g[s] = h[s]
    OBVIOUS
  <2>1. s # {}
    BY FS_EmptySet
  <2>2. PICK t : t = s \ {Pick(s)}
    OBVIOUS
  <2>3. t \in SUBSET S /\ t \in SUBSET T /\ Cardinality(t) = n
    BY <2>1, <2>2, PickInSet
  <2>4. g[t] = h[t]
    BY <1>2, <2>3
  <2> QED BY <2>1, <2>2, <2>4 DEF IsSum
<1> HIDE DEF N
<1>3. Cardinality(u) \in N
  <2>1. Cardinality(u) \in Nat
    BY FS_Subset, FS_CardinalityType
  <2> QED BY <1>1, <1>2, <2>1, NaturalInduction
<1> QED BY <1>3 DEF N

\* What holds of the empty set and is kept when an element is added holds of every
\* finite set.
LEMMA SetInduction ==
    ASSUME NEW S, IsFiniteSet(S), NEW P, {} \in P,
           \A s \in SUBSET S : \A x \in S : x \notin s /\ s \in P => s \cup {x} \in P
    PROVE  S \in P
<1> DEFINE N == {n \in Nat : \A s \in SUBSET S : Cardinality(s) = n => s \in P}
<1>1. 0 \in N
  <2> SUFFICES ASSUME NEW s \in SUBSET S, Cardinality(s) = 0 PROVE s \in P
    OBVIOUS
  <2>1. s = {}
    BY FS_Subset, FS_EmptySet
  <2> QED BY <2>1
<1>2. ASSUME NEW n \in Nat, n \in N PROVE n + 1 \in N
  <2> SUFFICES ASSUME NEW s \in SUBSET S, Cardinality(s) = n + 1 PROVE s \in P
    OBVIOUS
  <2>0. Cardinality({}) = 0
    BY FS_EmptySet
  <2>1. s # {}
    BY <2>0
  <2>2. PICK t, x : x = Pick(s) /\ t = s \ {x}
    OBVIOUS
  <2>3. t \in SUBSET S /\ Cardinality(t) = n /\ x \in s
    BY <2>1, <2>2, PickInSet
  <2>4. t \in P
    BY <1>2, <2>3
  <2>5. s = t \cup {x} /\ x \in S /\ x \notin t
    BY <2>2, <2>3
  <2>6. t \cup {x} \in P
    BY <2>3, <2>4, <2>5
  <2> QED BY <2>5, <2>6
<1> HIDE DEF N
<1>3. Cardinality(S) \in N
  <2>1. Cardinality(S) \in Nat
    BY FS_CardinalityType
  <2> QED BY <1>1, <1>2, <2>1, NaturalInduction
<1>4. S \in SUBSET S
  OBVIOUS
<1> QED BY <1>3, <1>4 DEF N

\* The sum over no elements.
LEMMA SumEmpty ==
    ASSUME NEW f
    PROVE  Sum(f, {}) = 0
<1>1. IsFiniteSet({})
  BY FS_EmptySet
<1>2. PICK g : IsSum(g, f, {}) /\ Sum(f, {}) = g[{}]
  BY <1>1, SumSolves
<1> QED BY <1>2 DEF IsSum

\* A sum is its first element and the sum of the rest.
LEMMA SumRemovesPick ==
    ASSUME NEW f, NEW S, IsFiniteSet(S), S # {}
    PROVE  Sum(f, S) = f[Pick(S)] + Sum(f, S \ {Pick(S)})
<1>1. PICK T : T = S \ {Pick(S)}
  OBVIOUS
<1>2. IsFiniteSet(T) /\ T \in SUBSET S /\ S \in SUBSET S
  BY <1>1, FS_Subset
<1>3. PICK g : IsSum(g, f, S) /\ Sum(f, S) = g[S]
  BY SumSolves
<1>4. PICK h : IsSum(h, f, T) /\ Sum(f, T) = h[T]
  BY <1>2, SumSolves
<1>5. g[T] = h[T]
  BY <1>2, <1>3, <1>4, SumsAgree
<1>6. g[S] = f[Pick(S)] + g[T]
  BY <1>1, <1>2, <1>3 DEF IsSum
<1> QED BY <1>1, <1>3, <1>4, <1>5, <1>6

\* The function has numbers for the elements of the set.
Ints(f, S) == \A x \in S : f[x] \in Int

\* A sum of integers is an integer.
LEMMA SumIsInt ==
    ASSUME NEW f, NEW S, IsFiniteSet(S), Ints(f, S)
    PROVE  Sum(f, S) \in Int
<1> DEFINE N == {n \in Nat : \A s \in SUBSET S : Cardinality(s) = n => Sum(f, s) \in Int}
<1>1. 0 \in N
  <2> SUFFICES ASSUME NEW s \in SUBSET S, Cardinality(s) = 0 PROVE Sum(f, s) \in Int
    OBVIOUS
  <2>1. s = {}
    BY FS_Subset, FS_EmptySet
  <2> QED BY <2>1, SumEmpty
<1>2. ASSUME NEW n \in Nat, n \in N PROVE n + 1 \in N
  <2> SUFFICES ASSUME NEW s \in SUBSET S, Cardinality(s) = n + 1 PROVE Sum(f, s) \in Int
    OBVIOUS
  <2>1. s # {} /\ IsFiniteSet(s)
    BY FS_EmptySet, FS_Subset
  <2>2. PICK t, x : x = Pick(s) /\ t = s \ {x}
    OBVIOUS
  <2>3. t \in SUBSET S /\ Cardinality(t) = n /\ x \in s
    BY <2>1, <2>2, PickInSet
  <2>4. Sum(f, t) \in Int /\ f[x] \in Int
    BY <1>2, <2>3 DEF Ints
  <2>5. Sum(f, s) = f[x] + Sum(f, t)
    BY <2>1, <2>2, SumRemovesPick
  <2> QED BY <2>4, <2>5
<1> HIDE DEF N
<1>3. Cardinality(S) \in N
  <2>1. Cardinality(S) \in Nat
    BY FS_CardinalityType
  <2> QED BY <1>1, <1>2, <2>1, NaturalInduction
<1>4. S \in SUBSET S
  OBVIOUS
<1> QED BY <1>3, <1>4 DEF N

\* The elements may be taken in any order.
THEOREM SumRemoves ==
    ASSUME NEW f, NEW S, IsFiniteSet(S), Ints(f, S), NEW x \in S
    PROVE  Sum(f, S) = f[x] + Sum(f, S \ {x})
<1> DEFINE N == {n \in Nat : \A s \in SUBSET S : Cardinality(s) = n =>
                    \A y \in s : Sum(f, s) = f[y] + Sum(f, s \ {y})}
<1>1. 0 \in N
  <2> SUFFICES ASSUME NEW s \in SUBSET S, Cardinality(s) = 0 PROVE s = {}
    OBVIOUS
  <2> QED BY FS_Subset, FS_EmptySet
<1>2. ASSUME NEW n \in Nat, n \in N PROVE n + 1 \in N
  <2> SUFFICES ASSUME NEW s \in SUBSET S, Cardinality(s) = n + 1, NEW y \in s
               PROVE  Sum(f, s) = f[y] + Sum(f, s \ {y})
    OBVIOUS
  <2>1. s # {} /\ IsFiniteSet(s)
    BY FS_EmptySet, FS_Subset
  <2>2. PICK t, p : p = Pick(s) /\ t = s \ {p}
    OBVIOUS
  <2>3. t \in SUBSET S /\ Cardinality(t) = n /\ p \in s
    BY <2>1, <2>2, PickInSet
  <2>4. Sum(f, s) = f[p] + Sum(f, t)
    BY <2>1, <2>2, SumRemovesPick
  <2>5. CASE y = p
    BY <2>2, <2>4, <2>5
  <2>6. CASE y # p
    <3>1. PICK u, v : u = s \ {y} /\ v = t \ {y}
      OBVIOUS
    <3>2. u \in SUBSET S /\ v \in SUBSET S /\ v = u \ {p} /\ y \in t /\ p \in u
      BY <2>2, <2>3, <2>6, <3>1
    <3>3. Cardinality(u) = n
      <4>1. Cardinality(s \ {y}) = Cardinality(s) - 1
        BY <2>1, FS_RemoveElement
      <4> QED BY <3>1, <4>1
    <3>4. Sum(f, t) = f[y] + Sum(f, v)
      BY <1>2, <2>3, <3>1, <3>2
    <3>5. Sum(f, u) = f[p] + Sum(f, v)
      BY <1>2, <3>2, <3>3
    <3>6. f[y] \in Int /\ f[p] \in Int
      BY <2>3 DEF Ints
    <3>7. Sum(f, v) \in Int
      <4>1. IsFiniteSet(v) /\ Ints(f, v)
        BY <3>2, FS_Subset DEF Ints
      <4> QED BY <4>1, SumIsInt
    <3> HIDE DEF N
    <3> QED BY <2>4, <3>1, <3>4, <3>5, <3>6, <3>7
  <2> QED BY <2>5, <2>6
<1> HIDE DEF N
<1>3. Cardinality(S) \in N
  <2>1. Cardinality(S) \in Nat
    BY FS_CardinalityType
  <2> QED BY <1>1, <1>2, <2>1, NaturalInduction
<1>4. S \in SUBSET S
  OBVIOUS
<1> QED BY <1>3, <1>4 DEF N

\* One more element adds its value.
LEMMA SumAdds ==
    ASSUME NEW f, NEW S, IsFiniteSet(S), NEW x, x \notin S, Ints(f, S), f[x] \in Int
    PROVE  Sum(f, S \cup {x}) = Sum(f, S) + f[x]
<1>1. PICK T : T = S \cup {x}
  OBVIOUS
<1>2. IsFiniteSet(T) /\ x \in T /\ S = T \ {x}
  BY <1>1, FS_AddElement
<1>3. Ints(f, T)
  BY <1>1 DEF Ints
<1>4. Sum(f, T) = f[x] + Sum(f, S)
  BY <1>2, <1>3, SumRemoves
<1>5. Sum(f, S) \in Int
  BY SumIsInt
<1> QED BY <1>1, <1>4, <1>5

\* Facts about the values of functions on a set.
SameOn(f, g, S) == \A x \in S : f[x] = g[x]

PlusOn(h, f, g, S) == \A x \in S : h[x] = f[x] + g[x]

TimesOn(h, f, k, S) == \A x \in S : h[x] = f[x] * k

ZeroOn(f, S) == \A x \in S : f[x] = 0

Disjoint(S, T) == \A x \in S : x \notin T

\* The sum depends on the values on the set only.
LEMMA SumSame ==
    ASSUME NEW f, NEW g, NEW S, IsFiniteSet(S), Ints(f, S), SameOn(f, g, S)
    PROVE  Sum(f, S) = Sum(g, S)
<1> DEFINE P == {s \in SUBSET S : Sum(f, s) = Sum(g, s)}
<1>1. {} \in P
  BY SumEmpty
<1>2. ASSUME NEW s \in SUBSET S, NEW x \in S, x \notin s, s \in P PROVE s \cup {x} \in P
  <2>1. IsFiniteSet(s) /\ Ints(f, s) /\ Ints(g, s) /\ f[x] \in Int /\ f[x] = g[x]
    BY FS_Subset DEF Ints, SameOn
  <2>2. Sum(f, s \cup {x}) = Sum(f, s) + f[x]
    BY <1>2, <2>1, SumAdds
  <2>3. Sum(g, s \cup {x}) = Sum(g, s) + g[x]
    BY <1>2, <2>1, SumAdds
  <2> QED BY <1>2, <2>1, <2>2, <2>3
<1> HIDE DEF P
<1>3. S \in P
  BY <1>1, <1>2, SetInduction
<1> QED BY <1>3 DEF P

\* The sum of pointwise sums.
LEMMA SumPlus ==
    ASSUME NEW f, NEW g, NEW h, NEW S, IsFiniteSet(S), Ints(f, S), Ints(g, S), PlusOn(h, f, g, S)
    PROVE  Sum(h, S) = Sum(f, S) + Sum(g, S)
<1> DEFINE P == {s \in SUBSET S : Sum(h, s) = Sum(f, s) + Sum(g, s)}
<1>1. {} \in P
  <2>1. Sum(f, {}) = 0 /\ Sum(g, {}) = 0 /\ Sum(h, {}) = 0
    BY SumEmpty
  <2> QED BY <2>1
<1>2. ASSUME NEW s \in SUBSET S, NEW x \in S, x \notin s, s \in P PROVE s \cup {x} \in P
  <2>1. /\ IsFiniteSet(s) /\ Ints(f, s) /\ Ints(g, s) /\ f[x] \in Int /\ g[x] \in Int
        /\ h[x] = f[x] + g[x]
    BY FS_Subset DEF Ints, PlusOn
  <2>2. Ints(h, s)
    BY DEF Ints, PlusOn
  <2>3. Sum(f, s \cup {x}) = Sum(f, s) + f[x]
    BY <1>2, <2>1, SumAdds
  <2>4. Sum(g, s \cup {x}) = Sum(g, s) + g[x]
    BY <1>2, <2>1, SumAdds
  <2>5. Sum(h, s \cup {x}) = Sum(h, s) + h[x]
    BY <1>2, <2>1, <2>2, SumAdds
  <2>6. Sum(f, s) \in Int /\ Sum(g, s) \in Int
    BY <2>1, SumIsInt
  <2>7. Sum(h, s) = Sum(f, s) + Sum(g, s)
    BY <1>2
  <2>8. Sum(h, s \cup {x}) = Sum(f, s \cup {x}) + Sum(g, s \cup {x})
    BY <2>1, <2>3, <2>4, <2>5, <2>6, <2>7
  <2> QED BY <2>8
<1> HIDE DEF P
<1>3. S \in P
  BY <1>1, <1>2, SetInduction
<1> QED BY <1>3 DEF P

\* A common factor.
LEMMA SumTimes ==
    ASSUME NEW f, NEW h, NEW k \in Int, NEW S, IsFiniteSet(S), Ints(f, S), TimesOn(h, f, k, S)
    PROVE  Sum(h, S) = Sum(f, S) * k
<1> DEFINE P == {s \in SUBSET S : Sum(h, s) = Sum(f, s) * k}
<1>1. {} \in P
  <2>1. Sum(f, {}) = 0 /\ Sum(h, {}) = 0
    BY SumEmpty
  <2> QED BY <2>1
<1>2. ASSUME NEW s \in SUBSET S, NEW x \in S, x \notin s, s \in P PROVE s \cup {x} \in P
  <2>1. IsFiniteSet(s) /\ Ints(f, s) /\ f[x] \in Int /\ h[x] = f[x] * k /\ h[x] \in Int
    BY FS_Subset DEF Ints, TimesOn
  <2>2. Ints(h, s)
    BY DEF Ints, TimesOn
  <2>3. Sum(f, s \cup {x}) = Sum(f, s) + f[x]
    BY <1>2, <2>1, SumAdds
  <2>4. Sum(h, s \cup {x}) = Sum(h, s) + h[x]
    BY <1>2, <2>1, <2>2, SumAdds
  <2>5. Sum(f, s) \in Int
    BY <2>1, SumIsInt
  <2>6. Sum(h, s) = Sum(f, s) * k
    BY <1>2
  <2>7. \A a, b \in Int : (a + b) * k = a * k + b * k
    OBVIOUS
  <2>8. Sum(h, s \cup {x}) = Sum(f, s \cup {x}) * k
    BY <2>1, <2>3, <2>4, <2>5, <2>6, <2>7
  <2> QED BY <2>8
<1> HIDE DEF P
<1>3. S \in P
  BY <1>1, <1>2, SetInduction
<1> QED BY <1>3 DEF P

\* A sum of zeros.
LEMMA SumZero ==
    ASSUME NEW f, NEW S, IsFiniteSet(S), ZeroOn(f, S)
    PROVE  Sum(f, S) = 0
<1> DEFINE P == {s \in SUBSET S : Sum(f, s) = 0}
<1>1. {} \in P
  BY SumEmpty
<1>2. ASSUME NEW s \in SUBSET S, NEW x \in S, x \notin s, s \in P PROVE s \cup {x} \in P
  <2>1. IsFiniteSet(s) /\ Ints(f, s) /\ f[x] \in Int /\ f[x] = 0
    BY FS_Subset DEF Ints, ZeroOn
  <2>2. Sum(f, s \cup {x}) = Sum(f, s) + f[x]
    BY <1>2, <2>1, SumAdds
  <2> QED BY <1>2, <2>1, <2>2
<1> HIDE DEF P
<1>3. S \in P
  BY <1>1, <1>2, SetInduction
<1> QED BY <1>3 DEF P

\* The sum over two disjoint sets.
LEMMA SumUnion ==
    ASSUME NEW f, NEW S, NEW T, IsFiniteSet(S), IsFiniteSet(T), Ints(f, S), Ints(f, T),
           Disjoint(S, T)
    PROVE  Sum(f, S \cup T) = Sum(f, S) + Sum(f, T)
<1> DEFINE P == {s \in SUBSET T : Sum(f, S \cup s) = Sum(f, S) + Sum(f, s)}
<1>0. Sum(f, S) \in Int
  BY SumIsInt
<1>1. {} \in P
  <2>1. Sum(f, {}) = 0 /\ S \cup {} = S
    BY SumEmpty
  <2> QED BY <1>0, <2>1
<1>2. ASSUME NEW s \in SUBSET T, NEW x \in T, x \notin s, s \in P PROVE s \cup {x} \in P
  <2>1. IsFiniteSet(s) /\ Ints(f, s) /\ f[x] \in Int
    BY FS_Subset DEF Ints
  <2>2. PICK u : u = S \cup s
    OBVIOUS
  <2>fin. IsFiniteSet(u)
    BY <2>1, <2>2, FS_Union
  <2>int. Ints(f, u) /\ x \notin u
    BY <1>2, <2>2 DEF Ints, Disjoint
  <2>3. IsFiniteSet(u) /\ Ints(f, u) /\ x \notin u
    BY <2>fin, <2>int
  <2>4. Sum(f, s \cup {x}) = Sum(f, s) + f[x]
    BY <1>2, <2>1, SumAdds
  <2>5. Sum(f, u \cup {x}) = Sum(f, u) + f[x]
    BY <2>1, <2>3, SumAdds
  <2>6. Sum(f, s) \in Int
    BY <2>1, SumIsInt
  <2>7. Sum(f, u) = Sum(f, S) + Sum(f, s) /\ S \cup (s \cup {x}) = u \cup {x}
    BY <1>2, <2>2
  <2>8. Sum(f, S \cup (s \cup {x})) = Sum(f, S) + Sum(f, s \cup {x})
    <3>1. Sum(f, S \cup (s \cup {x})) = Sum(f, u) + f[x]
      BY <2>5, <2>7
    <3>2. Sum(f, u) + f[x] = Sum(f, S) + (Sum(f, s) + f[x])
      BY <1>0, <2>1, <2>6, <2>7
    <3> QED BY <2>4, <3>1, <3>2
  <2> QED BY <2>8
<1> HIDE DEF P
<1>3. T \in P
  BY <1>1, <1>2, SetInduction
<1> QED BY <1>3 DEF P

\* Where the function is 0 may be left out.
LEMMA SumSupport ==
    ASSUME NEW f, NEW S, NEW T, IsFiniteSet(T), S \subseteq T, Ints(f, S), ZeroOn(f, T \ S)
    PROVE  Sum(f, T) = Sum(f, S)
<1>1. PICK Z : Z = T \ S
  OBVIOUS
<1>2. IsFiniteSet(S) /\ IsFiniteSet(Z) /\ T = S \cup Z /\ Ints(f, Z) /\ Disjoint(S, Z) /\ ZeroOn(f, Z)
  BY <1>1, FS_Subset DEF Ints, Disjoint, ZeroOn
<1>3. Sum(f, S \cup Z) = Sum(f, S) + Sum(f, Z)
  BY <1>2, SumUnion
<1>4. Sum(f, Z) = 0 /\ Sum(f, S) \in Int
  BY <1>2, SumZero, SumIsInt
<1> QED BY <1>2, <1>3, <1>4

\* The sum over one element.
LEMMA SumOne ==
    ASSUME NEW f, NEW x, f[x] \in Int
    PROVE  Sum(f, {x}) = f[x]
<1>1. IsFiniteSet({}) /\ Ints(f, {}) /\ x \notin {}
  BY FS_EmptySet DEF Ints
<1>2. Sum(f, {} \cup {x}) = Sum(f, {}) + f[x]
  BY <1>1, SumAdds
<1>3. {} \cup {x} = {x} /\ Sum(f, {}) = 0
  BY SumEmpty
<1> QED BY <1>2, <1>3

Nats(f, S) == \A x \in S : f[x] \in Nat

\* A sum of naturals is a natural.
LEMMA SumIsNat ==
    ASSUME NEW f, NEW S, IsFiniteSet(S), Nats(f, S)
    PROVE  Sum(f, S) \in Nat
<1> DEFINE P == {s \in SUBSET S : Sum(f, s) \in Nat}
<1>1. {} \in P
  BY SumEmpty
<1>2. ASSUME NEW s \in SUBSET S, NEW x \in S, x \notin s, s \in P PROVE s \cup {x} \in P
  <2>1. IsFiniteSet(s) /\ Ints(f, s) /\ f[x] \in Nat
    BY FS_Subset DEF Ints, Nats
  <2>2. Sum(f, s \cup {x}) = Sum(f, s) + f[x]
    BY <1>2, <2>1, SumAdds
  <2> QED BY <1>2, <2>1, <2>2
<1> HIDE DEF P
<1>3. S \in P
  BY <1>1, <1>2, SetInduction
<1> QED BY <1>3 DEF P

\* A column of a matrix whose rows are the functions m[a].
Column(m, A, b) == [a \in A |-> m[a][b]]

IsMatrix(m, A, B) == \A a \in A : Ints(m[a], B)

\* The rows of a table add up to what its columns add up to.
LEMMA SumExchange ==
    ASSUME NEW A, NEW B, IsFiniteSet(A), IsFiniteSet(B), NEW m, IsMatrix(m, A, B)
    PROVE  Sum([a \in A |-> Sum(m[a], B)], A) = Sum([b \in B |-> Sum(Column(m, A, b), A)], B)
<1> DEFINE row == [a \in A |-> Sum(m[a], B)]
           C(s) == [b \in B |-> Sum(Column(m, A, b), s)]
           P == {s \in SUBSET A : Sum(row, s) = Sum(C(s), B)}
<1>1. {} \in P
  <2>1. ZeroOn(C({}), B)
    BY SumEmpty DEF ZeroOn
  <2>2. Sum(C({}), B) = 0
    BY <2>1, SumZero
  <2> QED BY <2>2, SumEmpty
<1>2. \A a \in A : row[a] = Sum(m[a], B) /\ row[a] \in Int
  <2> SUFFICES ASSUME NEW a \in A PROVE Sum(m[a], B) \in Int
    OBVIOUS
  <2> QED BY SumIsInt DEF IsMatrix
<1>3. ASSUME NEW s \in SUBSET A, NEW b \in B PROVE Ints(Column(m, A, b), s)
  BY DEF Ints, IsMatrix, Column
<1>4. ASSUME NEW s \in SUBSET A, NEW x \in A, x \notin s, s \in P PROVE s \cup {x} \in P
  <2>1. IsFiniteSet(s) /\ Ints(row, s)
    BY <1>2, FS_Subset DEF Ints
  <2>2. row[x] \in Int /\ row[x] = Sum(m[x], B)
    BY <1>2
  <2>3. Sum(row, s \cup {x}) = Sum(row, s) + row[x]
    <3> HIDE DEF row
    <3> QED BY <1>4, <2>1, <2>2, SumAdds
  <2>4. Ints(C(s), B)
    <3> SUFFICES ASSUME NEW b \in B PROVE Sum(Column(m, A, b), s) \in Int
      BY DEF Ints
    <3> QED BY <1>3, <2>1, SumIsInt
  <2>5. Ints(m[x], B)
    BY DEF IsMatrix
  <2>6. PlusOn(C(s \cup {x}), C(s), m[x], B)
    <3> SUFFICES ASSUME NEW b \in B
                 PROVE Sum(Column(m, A, b), s \cup {x}) = Sum(Column(m, A, b), s) + m[x][b]
      BY DEF PlusOn
    <3>1. PICK c : c = Column(m, A, b)
      OBVIOUS
    <3>2. Ints(c, s)
      BY <1>3, <3>1
    <3>3. c[x] = m[x][b] /\ c[x] \in Int
      BY <2>5, <3>1 DEF Column, Ints
    <3>4. Sum(c, s \cup {x}) = Sum(c, s) + c[x]
      BY <1>4, <2>1, <3>2, <3>3, SumAdds
    <3> QED BY <3>1, <3>3, <3>4
  <2>7. Sum(C(s \cup {x}), B) = Sum(C(s), B) + Sum(m[x], B)
    <3> HIDE DEF C
    <3> QED BY <2>4, <2>5, <2>6, SumPlus
  <2>8. Sum(row, s) = Sum(C(s), B) /\ s \cup {x} \in SUBSET A
    BY <1>4
  <2> HIDE DEF row, C
  <2> QED BY <2>2, <2>3, <2>7, <2>8
<1>5. A \in P
  <2> HIDE DEF P
  <2> QED BY <1>1, <1>4, SetInduction
<1> QED BY <1>5

\* Everything p gives to the elements of dom[p], counted by receiver or by giver.
Receivers(dom, P, A) == \A p \in P : dom[p] \subseteq A

GiversOf(dom, P, a) == {p \in P : a \in dom[p]}

Gifts(m, dom, P) == \A p \in P : Ints(m[p], dom[p])

Received(row, m, dom, P, A) ==
    \A a \in A : row[a] = Sum([p \in GiversOf(dom, P, a) |-> m[p][a]], GiversOf(dom, P, a))

Given(col, m, dom, P) == \A p \in P : col[p] = Sum(m[p], dom[p])

\* What all receive is what all give, if each gives to some of them.
LEMMA SumReceived ==
    ASSUME NEW A, NEW P, IsFiniteSet(A), IsFiniteSet(P), NEW dom, Receivers(dom, P, A),
           NEW m, Gifts(m, dom, P), NEW row, Received(row, m, dom, P, A), NEW col, Given(col, m, dom, P)
    PROVE  Sum(row, A) = Sum(col, P)
<1> DEFINE G(a) == GiversOf(dom, P, a)
           M == [a \in A |-> [p \in P |-> IF a \in dom[p] THEN m[p][a] ELSE 0]]
           R == [a \in A |-> Sum(M[a], P)]
           K == [p \in P |-> Sum(Column(M, A, p), A)]
<1>1. IsMatrix(M, A, P)
  BY DEF IsMatrix, Ints, Gifts
<1>2. Sum(R, A) = Sum(K, P)
  <2> HIDE DEF M
  <2> QED BY <1>1, SumExchange
<1>3. ASSUME NEW a \in A PROVE R[a] = row[a] /\ R[a] \in Int
  <2>1. PICK r : r = M[a]
    OBVIOUS
  <2>2. Ints(r, P) /\ Ints(r, G(a)) /\ G(a) \subseteq P
    BY <2>1 DEF Ints, GiversOf, Gifts
  <2>3. ZeroOn(r, P \ G(a))
    BY <2>1 DEF ZeroOn, GiversOf
  <2>4. Sum(r, P) = Sum(r, G(a))
    <3> HIDE DEF G
    <3> QED BY <2>2, <2>3, SumSupport
  <2>5. PICK g : g = [p \in G(a) |-> m[p][a]]
    OBVIOUS
  <2>6. SameOn(r, g, G(a))
    BY <2>1, <2>5 DEF SameOn, GiversOf
  <2>7. IsFiniteSet(G(a))
    <3> HIDE DEF G
    <3> QED BY <2>2, FS_Subset
  <2>8. Sum(r, G(a)) = Sum(g, G(a))
    <3> HIDE DEF G
    <3> QED BY <2>2, <2>6, <2>7, SumSame
  <2>9. Sum(r, P) \in Int
    BY <2>2, SumIsInt
  <2>10. row[a] = Sum(g, G(a))
    BY <2>5 DEF Received
  <2> HIDE DEF M, G
  <2> QED BY <2>1, <2>4, <2>8, <2>9, <2>10
<1>4. ASSUME NEW p \in P PROVE K[p] = col[p] /\ K[p] \in Int
  <2>1. PICK c : c = Column(M, A, p)
    OBVIOUS
  <2>2. PICK d : d = dom[p]
    OBVIOUS
  <2>3. d \subseteq A /\ Ints(m[p], d) /\ col[p] = Sum(m[p], d)
    BY <2>2 DEF Receivers, Gifts, Given
  <2>4. \A a \in A : c[a] = IF a \in d THEN m[p][a] ELSE 0
    BY <2>1, <2>2 DEF Column
  <2> HIDE DEF M
  <2>5. Ints(c, A) /\ Ints(c, d) /\ ZeroOn(c, A \ d) /\ SameOn(c, m[p], d)
    BY <2>3, <2>4 DEF Ints, ZeroOn, SameOn
  <2>6. Sum(c, A) = Sum(c, d)
    BY <2>3, <2>5, SumSupport
  <2>7. IsFiniteSet(d)
    BY <2>3, FS_Subset
  <2>8. Sum(c, d) = Sum(m[p], d)
    BY <2>5, <2>7, SumSame
  <2>9. Sum(c, A) \in Int
    BY <2>5, SumIsInt
  <2> QED BY <2>1, <2>3, <2>6, <2>8, <2>9
<1>5. Ints(R, A) /\ SameOn(R, row, A) /\ Ints(K, P) /\ SameOn(K, col, P)
  <2> HIDE DEF R, K
  <2> QED BY <1>3, <1>4 DEF Ints, SameOn
<1> HIDE DEF R, K
<1>6. Sum(R, A) = Sum(row, A) /\ Sum(K, P) = Sum(col, P)
  BY <1>5, SumSame
<1> QED BY <1>2, <1>6

Fibre(g, I, a) == {i \in I : g[i] = a}

MapsTo(g, I, A) == \A i \in I : g[i] \in A

FibreSums(row, f, g, I, A) == \A a \in A : row[a] = Sum(f, Fibre(g, I, a))

\* A sum may be taken by the fibres of a function.
LEMMA SumByFibres ==
    ASSUME NEW A, NEW I, IsFiniteSet(A), IsFiniteSet(I), NEW g, MapsTo(g, I, A),
           NEW f, Ints(f, I), NEW row, FibreSums(row, f, g, I, A)
    PROVE  Sum(row, A) = Sum(f, I)
<1> DEFINE dom == [i \in I |-> {g[i]}]
           m == [i \in I |-> [a \in {g[i]} |-> f[i]]]
<1>1. Receivers(dom, I, A) /\ Gifts(m, dom, I)
  BY DEF Receivers, Ints, Gifts, MapsTo
<1>2. ASSUME NEW i \in I PROVE f[i] = Sum(m[i], dom[i])
  <2>1. PICK h, x : h = m[i] /\ x = g[i]
    OBVIOUS
  <2>2. h[x] = f[i] /\ h[x] \in Int /\ dom[i] = {x}
    BY <2>1 DEF Ints
  <2>3. Sum(h, {x}) = h[x]
    BY <2>2, SumOne
  <2> HIDE DEF m
  <2> QED BY <2>1, <2>2, <2>3
<1>3. ASSUME NEW a \in A
      PROVE row[a] = Sum([i \in GiversOf(dom, I, a) |-> m[i][a]], GiversOf(dom, I, a))
  <2>1. GiversOf(dom, I, a) = Fibre(g, I, a)
    BY DEF GiversOf, Fibre
  <2>2. PICK S : S = Fibre(g, I, a)
    OBVIOUS
  <2>3. PICK h : h = [i \in S |-> m[i][a]]
    OBVIOUS
  <2>4. S \subseteq I /\ Ints(f, S) /\ SameOn(f, h, S)
    BY <2>2, <2>3 DEF Fibre, Ints, SameOn
  <2>5. IsFiniteSet(S)
    BY <2>4, FS_Subset
  <2>6. Sum(f, S) = Sum(h, S)
    BY <2>4, <2>5, SumSame
  <2>7. row[a] = Sum(f, S)
    BY <2>2 DEF FibreSums
  <2> HIDE DEF m, dom
  <2> QED BY <2>1, <2>2, <2>3, <2>6, <2>7
<1> HIDE DEF dom, m
<1>4. Given(f, m, dom, I) /\ Received(row, m, dom, I, A)
  BY <1>2, <1>3 DEF Given, Received
<1> QED BY <1>1, <1>4, SumReceived

\* T holds values of f on S only.
FromOn(T, f, S) == \A t \in T : \E s \in S : t = f[s]

\* A finite set has finitely many values.
LEMMA FiniteValues ==
    ASSUME NEW S, IsFiniteSet(S), NEW f, NEW T, FromOn(T, f, S)
    PROVE  IsFiniteSet(T)
<1> DEFINE g == [s \in S |-> f[s]]
           U == {f[s] : s \in S}
<1>1. g \in Surjection(S, U)
  BY DEF Surjection
<1>2. IsFiniteSet(U)
  <2> HIDE DEF g, U
  <2> QED BY <1>1, FS_Surjection
<1>3. T \subseteq U
  BY DEF FromOn
<1> QED BY <1>2, <1>3, FS_Subset

\* C holds elements of the sets dom[p] only.
WithinOn(C, dom, P) == \A c \in C : \E p \in P : c \in dom[p]

FiniteOn(dom, P) == \A p \in P : IsFiniteSet(dom[p])

\* Finitely many finite sets have finitely many elements.
LEMMA FiniteFamily ==
    ASSUME NEW P, IsFiniteSet(P), NEW dom, FiniteOn(dom, P), NEW C, WithinOn(C, dom, P)
    PROVE  IsFiniteSet(C)
<1> DEFINE D == {dom[p] : p \in P}
<1>1. FromOn(D, dom, P)
  BY DEF FromOn
<1>2. \A T \in D : IsFiniteSet(T)
  BY DEF FiniteOn
<1>3. C \subseteq UNION D
  BY DEF WithinOn
<1> HIDE DEF D
<1>4. IsFiniteSet(D)
  BY <1>1, FiniteValues
<1>5. IsFiniteSet(UNION D)
  BY <1>2, <1>4, FS_UNION
<1> QED BY <1>3, <1>5, FS_Subset

\* A change at one place changes the sum by as much.
LEMMA SumChanges ==
    ASSUME NEW f, NEW g, NEW S, IsFiniteSet(S), Ints(f, S), Ints(g, S), NEW x \in S,
           SameOn(f, g, S \ {x})
    PROVE  Sum(g, S) = Sum(f, S) - f[x] + g[x]
<1>1. PICK T : T = S \ {x}
  OBVIOUS
<1>2. IsFiniteSet(T) /\ Ints(f, T) /\ SameOn(f, g, T) /\ f[x] \in Int /\ g[x] \in Int
  BY <1>1, FS_Subset DEF Ints
<1>3. Sum(f, S) = f[x] + Sum(f, T) /\ Sum(g, S) = g[x] + Sum(g, T)
  BY <1>1, SumRemoves
<1>4. Sum(f, T) = Sum(g, T) /\ Sum(f, T) \in Int
  BY <1>2, SumSame, SumIsInt
<1> QED BY <1>2, <1>3, <1>4

AtMostOn(f, g, S) == \A x \in S : f[x] <= g[x]

\* Smaller parts have a smaller sum.
LEMMA SumAtMost ==
    ASSUME NEW f, NEW g, NEW S, IsFiniteSet(S), Ints(f, S), Ints(g, S), AtMostOn(f, g, S)
    PROVE  Sum(f, S) <= Sum(g, S)
<1>1. PICK h : h = [x \in S |-> g[x] - f[x]]
  OBVIOUS
<1>2. Nats(h, S) /\ Ints(h, S) /\ PlusOn(g, f, h, S)
  BY <1>1 DEF Nats, Ints, PlusOn, AtMostOn
<1>3. Sum(g, S) = Sum(f, S) + Sum(h, S)
  BY <1>2, SumPlus
<1>4. Sum(h, S) \in Nat /\ Sum(f, S) \in Int
  BY <1>2, SumIsNat, SumIsInt
<1> QED BY <1>3, <1>4

\* No part is larger than the sum.
LEMMA PartAtMostSum ==
    ASSUME NEW f, NEW S, IsFiniteSet(S), Nats(f, S), NEW x \in S
    PROVE  f[x] <= Sum(f, S)
<1>1. PICK T : T = S \ {x}
  OBVIOUS
<1>2. IsFiniteSet(T) /\ Nats(f, T) /\ Ints(f, S) /\ f[x] \in Nat
  BY <1>1, FS_Subset DEF Nats, Ints
<1>3. Sum(f, S) = f[x] + Sum(f, T)
  BY <1>1, <1>2, SumRemoves
<1>4. Sum(f, T) \in Nat
  BY <1>2, SumIsNat
<1> QED BY <1>2, <1>3, <1>4
=============================================================================
