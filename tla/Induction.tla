----------------------------- MODULE Induction -----------------------------
(***************************************************************************)
(* Induction over the natural numbers and over the subsets of a finite     *)
(* set, stated for a set instead of a predicate, so that it can be cited   *)
(* for what recursive functions and folds compute.  Both follow from the   *)
(* least counterexample under inclusion.                                   *)
(***************************************************************************)
EXTENDS Naturals, FiniteSetTheorems, TLAPS

\* A nonempty collection of finite sets has a member with no smaller one.
LEMMA LeastSet ==
  ASSUME NEW C, C # {}, \A U \in C : IsFiniteSet(U)
  PROVE  \E U \in C : \A V \in C : ~ (V \subseteq U /\ V # U)
<1> DEFINE S == UNION C
           R == StrictSubsetOrdering(S)
<1>1. C \subseteq FiniteSubsetsOf(S)
  BY DEF FiniteSubsetsOf
<1>2. IsWellFoundedOn(R, FiniteSubsetsOf(S))
  BY FS_StrictSubsetOrderingWellFounded
<1>3. \A U, V \in C : <<V, U>> \in R <=> V \subseteq U /\ V # U
  BY DEF StrictSubsetOrdering
<1> HIDE DEF R, S
<1>4. \E U \in C : \A V \in C : ~ (<<V, U>> \in R)
  BY <1>1, <1>2, WFMin
<1> QED BY <1>3, <1>4

LEMMA FiniteInduction ==
  ASSUME NEW S, IsFiniteSet(S),
         NEW T, {} \in T,
         \A U \in SUBSET S : \A x \in S \ U : U \in T => U \cup {x} \in T
  PROVE  S \in T
<1> DEFINE C == {U \in SUBSET S : S \ U \in T}
<1>1. \A U \in C : IsFiniteSet(U)
  BY FS_Subset
<1>2. S \in C
  <2>1. S \ S = {}
    OBVIOUS
  <2> QED BY <2>1
<1>3. PICK U \in C : \A V \in C : ~ (V \subseteq U /\ V # U)
  <2> HIDE DEF C
  <2> QED BY <1>1, <1>2, LeastSet
<1>4. ASSUME NEW x \in U PROVE FALSE
  <2>1. S \ (U \ {x}) = (S \ U) \cup {x}
    OBVIOUS
  <2>2. S \ U \in T /\ x \in S \ (S \ U)
    OBVIOUS
  <2>3. U \ {x} \in C
    BY <2>1, <2>2
  <2> QED BY <1>3, <2>3
<1>5. S \ U = S
  BY <1>4
<1> QED BY <1>5

LEMMA NatInductionOn ==
  ASSUME NEW T, 0 \in T, \A n \in Nat : n \in T => n + 1 \in T
  PROVE  \A n \in Nat : n \in T
<1> SUFFICES ASSUME NEW n \in Nat, n \notin T PROVE FALSE
  OBVIOUS
<1> DEFINE C == {1 .. m : m \in Nat \ T}
<1>1. \A U \in C : IsFiniteSet(U)
  BY FS_Interval
<1>2. C # {}
  OBVIOUS
<1>3. PICK U \in C : \A V \in C : ~ (V \subseteq U /\ V # U)
  <2> HIDE DEF C
  <2> QED BY <1>1, <1>2, LeastSet
<1>4. PICK m \in Nat \ T : U = 1 .. m
  OBVIOUS
<1>5. m # 0 /\ m - 1 \in Nat /\ m - 1 \notin T
  <2>1. m # 0
    OBVIOUS
  <2>2. m - 1 \in Nat /\ (m - 1) + 1 = m
    BY <2>1
  <2> QED BY <2>1, <2>2
<1>6. 1 .. (m - 1) \in C
  BY <1>5
<1>7. 1 .. (m - 1) \subseteq U /\ m \in U /\ m \notin 1 .. (m - 1)
  BY <1>4, <1>5
<1> QED BY <1>3, <1>6, <1>7

LEMMA LeastNumber ==
  ASSUME NEW T \in SUBSET Nat, T # {}
  PROVE  \E n \in T : \A m \in T : n <= m
<1> DEFINE C == {1 .. m : m \in T}
<1>1. \A U \in C : IsFiniteSet(U)
  BY FS_Interval
<1>2. C # {}
  OBVIOUS
<1>3. PICK U \in C : \A V \in C : ~ (V \subseteq U /\ V # U)
  <2> HIDE DEF C
  <2> QED BY <1>1, <1>2, LeastSet
<1>4. PICK n \in T : U = 1 .. n
  OBVIOUS
<1>5. ASSUME NEW m \in T, m < n PROVE FALSE
  <2>1. n \in 1 .. n /\ n \notin 1 .. m /\ 1 .. m \subseteq 1 .. n
    BY <1>5
  <2>2. 1 .. m \in C
    OBVIOUS
  <2> QED BY <1>3, <1>4, <2>1, <2>2
<1> QED BY <1>5

\* A function that repeats F from a start exists, so a recursive definition of
\* it says what it seems to.
StepsIn(F, S, s, N) == F \in [S -> S] /\ s \in S /\ N \in Nat
Repeats(g, F, S, s, N) ==
  g \in [0 .. N -> S] /\ g[0] = s /\ \A k \in 1 .. N : g[k] = F[g[k - 1]]

LEMMA Iterates ==
  ASSUME NEW S, NEW F, NEW s, NEW N, StepsIn(F, S, s, N)
  PROVE  \E g : Repeats(g, F, S, s, N)
<1> USE DEF StepsIn
<1> DEFINE Again(g, k) == g[0] = s /\ \A i \in 1 .. k : g[i] = F[g[i - 1]]
           T == {k \in Nat : \E g \in [0 .. k -> S] : Again(g, k)}
<1>1. 0 \in T
  <2>1. [i \in 0 .. 0 |-> s] \in [0 .. 0 -> S] /\ Again([i \in 0 .. 0 |-> s], 0)
    OBVIOUS
  <2> QED BY <2>1
<1>2. ASSUME NEW k \in Nat, k \in T PROVE k + 1 \in T
  <2>1. PICK g \in [0 .. k -> S] : Again(g, k)
    BY <1>2
  <2> DEFINE h == [i \in 0 .. k + 1 |-> IF i = k + 1 THEN F[g[k]] ELSE g[i]]
  <2>2. h \in [0 .. k + 1 -> S]
    OBVIOUS
  <2>3. h[0] = s
    BY <2>1
  <2>4. ASSUME NEW i \in 1 .. k + 1 PROVE h[i] = F[h[i - 1]]
    <3>1. CASE i = k + 1
      BY <3>1
    <3>2. CASE i # k + 1
      <4>1. i \in 1 .. k /\ i - 1 \in 0 .. k /\ i - 1 # k + 1
        BY <3>2
      <4> QED BY <2>1, <4>1
    <3> QED BY <3>1, <3>2
  <2> HIDE DEF h
  <2> QED BY <2>2, <2>3, <2>4
<1> HIDE DEF T
<1>3. N \in T
  BY <1>1, <1>2, NatInductionOn
<1> QED BY <1>3 DEF T, Repeats

\* The sums of f over the subsets of S, as SumFunction computes them: an element
\* is chosen and added to the sum of the others.
Pick(s) == CHOOSE x \in s : TRUE
Sums(f, S) ==
  CHOOSE g : g = [s \in SUBSET S |-> IF s = {} THEN 0 ELSE f[Pick(s)] + g[s \ {Pick(s)}]]

\* g sums f over every subset of S that has n elements at most.
SumsTo(g, f, S, n) ==
  /\ g \in [SUBSET S -> Nat]
  /\ g[{}] = 0
  /\ \A s \in SUBSET S : s # {} /\ Cardinality(s) <= n => g[s] = f[Pick(s)] + g[s \ {Pick(s)}]

LEMMA SumIsSums == \A f, S : SumFunctionOnSet(f, S) = Sums(f, S)[S]
BY DEF SumFunctionOnSet, FoldFunctionOnSet, MapThenFoldSet, Sums, Pick

LEMMA PickFacts ==
  ASSUME NEW S, IsFiniteSet(S), NEW s \in SUBSET S, s # {}
  PROVE  /\ Pick(s) \in s /\ s \ {Pick(s)} \in SUBSET S
         /\ Cardinality(s) \in Nat /\ Cardinality(s \ {Pick(s)}) = Cardinality(s) - 1
         /\ Cardinality(s \ {Pick(s)}) \in Nat
<1>1. Pick(s) \in s
  BY DEF Pick
<1>2. IsFiniteSet(s)
  BY FS_Subset
<1> QED
  BY <1>1, <1>2, FS_RemoveElement, FS_CardinalityType, FS_Subset

LEMMA SumsExist ==
  ASSUME NEW S, IsFiniteSet(S), NEW f \in [S -> Nat]
  PROVE  \E g : SumsTo(g, f, S, Cardinality(S))
<1> DEFINE T == {n \in Nat : \E g : SumsTo(g, f, S, n)}
<1>1. 0 \in T
  <2> DEFINE g == [s \in SUBSET S |-> 0]
  <2>1. ASSUME NEW s \in SUBSET S, s # {} PROVE ~ (Cardinality(s) <= 0)
    <3>1. /\ Cardinality(s) \in Nat /\ Cardinality(s \ {Pick(s)}) \in Nat
          /\ Cardinality(s \ {Pick(s)}) = Cardinality(s) - 1
      BY <2>1, PickFacts
    <3> QED BY <3>1
  <2>2. SumsTo(g, f, S, 0)
    BY <2>1 DEF SumsTo
  <2> QED BY <2>2
<1>2. ASSUME NEW n \in Nat, n \in T PROVE n + 1 \in T
  <2>1. PICK g : SumsTo(g, f, S, n)
    BY <1>2
  <2> DEFINE h == [s \in SUBSET S |->
                     IF Cardinality(s) <= n \/ s = {} THEN g[s] ELSE f[Pick(s)] + g[s \ {Pick(s)}]]
  <2>2. g \in [SUBSET S -> Nat] /\ g[{}] = 0
    BY <2>1 DEF SumsTo
  <2>3. ASSUME NEW s \in SUBSET S, s # {}
        PROVE  /\ f[Pick(s)] \in Nat /\ g[s \ {Pick(s)}] \in Nat
               /\ Cardinality(s) <= n => g[s] = f[Pick(s)] + g[s \ {Pick(s)}]
    <3>1. Pick(s) \in S /\ s \ {Pick(s)} \in SUBSET S
      BY <2>3, PickFacts
    <3> QED BY <2>1, <2>2, <2>3, <3>1 DEF SumsTo
  <2>4. h \in [SUBSET S -> Nat]
    BY <2>2, <2>3
  <2>5. h[{}] = 0
    BY <2>2
  <2>6. ASSUME NEW s \in SUBSET S, s # {}, Cardinality(s) <= n + 1
        PROVE  h[s] = f[Pick(s)] + h[s \ {Pick(s)}]
    <3>1. /\ s \ {Pick(s)} \in SUBSET S
          /\ Cardinality(s) \in Nat /\ Cardinality(s \ {Pick(s)}) = Cardinality(s) - 1
      BY <2>6, PickFacts
    <3>2. Cardinality(s \ {Pick(s)}) <= n
      BY <2>6, <3>1
    <3>3. h[s \ {Pick(s)}] = g[s \ {Pick(s)}]
      BY <3>1, <3>2
    <3>4. h[s] = f[Pick(s)] + g[s \ {Pick(s)}]
      BY <2>3, <2>6
    <3> QED BY <3>3, <3>4
  <2> HIDE DEF h
  <2>7. SumsTo(h, f, S, n + 1)
    BY <2>4, <2>5, <2>6 DEF SumsTo
  <2> QED BY <2>7
<1>3. Cardinality(S) \in Nat
  BY FS_CardinalityType
<1> HIDE DEF T
<1>4. Cardinality(S) \in T
  BY <1>1, <1>2, <1>3, NatInductionOn
<1> QED BY <1>4 DEF T

LEMMA SumsRule ==
  ASSUME NEW S, IsFiniteSet(S), NEW f \in [S -> Nat]
  PROVE  /\ Sums(f, S)[{}] = 0
         /\ \A s \in SUBSET S : s # {} =>
              Sums(f, S)[s] = f[Pick(s)] + Sums(f, S)[s \ {Pick(s)}]
<1> DEFINE R(g) == [s \in SUBSET S |-> IF s = {} THEN 0 ELSE f[Pick(s)] + g[s \ {Pick(s)}]]
<1>1. \E g : g = R(g)
  <2>1. PICK g : SumsTo(g, f, S, Cardinality(S))
    BY SumsExist
  <2>2. ASSUME NEW s \in SUBSET S PROVE Cardinality(s) <= Cardinality(S)
    BY FS_Subset
  <2>3. g = R(g)
    BY <2>1, <2>2 DEF SumsTo
  <2> QED BY <2>3
<1>2. Sums(f, S) = CHOOSE g : g = R(g)
  BY DEF Sums
<1>3. Sums(f, S) = R(Sums(f, S))
  BY <1>1, <1>2
<1> DEFINE p == Sums(f, S)
<1> HIDE DEF p
<1>4. p = [s \in SUBSET S |-> IF s = {} THEN 0 ELSE f[Pick(s)] + p[s \ {Pick(s)}]]
  BY <1>3 DEF p
<1>5. p[{}] = 0 /\ \A s \in SUBSET S : s # {} => p[s] = f[Pick(s)] + p[s \ {Pick(s)}]
  BY <1>4
<1> QED BY <1>5 DEF p

\* Whatever a function on finite sets adds up to, a least set fails if one does.
LEMMA SmallerSets ==
  ASSUME NEW S, IsFiniteSet(S), NEW T, {} \in T,
         \A s \in SUBSET S : s # {} /\ s \ {Pick(s)} \in T => s \in T
  PROVE  \A s \in SUBSET S : s \in T
<1> SUFFICES ASSUME NEW s \in SUBSET S, s \notin T PROVE FALSE
  OBVIOUS
<1> DEFINE C == {U \in SUBSET S : U \notin T}
<1>1. C # {} /\ \A U \in C : IsFiniteSet(U)
  BY FS_Subset
<1>2. PICK U \in C : \A V \in C : ~ (V \subseteq U /\ V # U)
  <2> HIDE DEF C
  <2> QED BY <1>1, LeastSet
<1>3. U # {} /\ U \in SUBSET S
  OBVIOUS
<1>4. Pick(U) \in U /\ U \ {Pick(U)} \in SUBSET S
  BY <1>3, PickFacts
<1>5. U \ {Pick(U)} \in C
  BY <1>3, <1>4
<1> QED BY <1>2, <1>4, <1>5

LEMMA SumsNatural ==
  ASSUME NEW S, IsFiniteSet(S), NEW f \in [S -> Nat]
  PROVE  \A s \in SUBSET S : Sums(f, S)[s] \in Nat
<1> DEFINE p == Sums(f, S)
           T == {s \in SUBSET S : p[s] \in Nat}
<1>1. p[{}] = 0 /\ \A s \in SUBSET S : s # {} => p[s] = f[Pick(s)] + p[s \ {Pick(s)}]
  BY SumsRule
<1> HIDE DEF p
<1>2. {} \in T
  BY <1>1
<1>3. ASSUME NEW s \in SUBSET S, s # {}, s \ {Pick(s)} \in T PROVE s \in T
  <2>1. Pick(s) \in S
    BY <1>3, PickFacts
  <2>2. f[Pick(s)] \in Nat /\ p[s \ {Pick(s)}] \in Nat
    BY <2>1, <1>3
  <2>3. p[s] = f[Pick(s)] + p[s \ {Pick(s)}]
    BY <1>1, <1>3
  <2>4. p[s] \in Nat
    BY <2>2, <2>3
  <2> QED BY <2>4
<1> HIDE DEF T
<1>4. \A s \in SUBSET S : s \in T
  BY <1>2, <1>3, SmallerSets
<1> QED BY <1>4 DEF T, p

\* A new value at one place changes the sum by the difference.
Differs(g, f, S, x, u) ==
  /\ IsFiniteSet(S) /\ f \in [S -> Nat] /\ x \in S /\ u \in Nat
  /\ g = [f EXCEPT ![x] = u]

LEMMA SumChange ==
  ASSUME NEW S, NEW f, NEW x, NEW u, NEW g, Differs(g, f, S, x, u)
  PROVE  SumFunction(g) + f[x] = SumFunction(f) + u
<1> USE DEF Differs
<1> DEFINE p == Sums(f, S)
           q == Sums(g, S)
           T == {s \in SUBSET S : /\ x \notin s => q[s] = p[s]
                                  /\ x \in s => q[s] + f[x] = p[s] + u}
<1>0. g \in [S -> Nat]
  OBVIOUS
<1>1. /\ p[{}] = 0 /\ \A s \in SUBSET S : s # {} => p[s] = f[Pick(s)] + p[s \ {Pick(s)}]
      /\ q[{}] = 0 /\ \A s \in SUBSET S : s # {} => q[s] = g[Pick(s)] + q[s \ {Pick(s)}]
      /\ \A s \in SUBSET S : p[s] \in Nat /\ q[s] \in Nat
  BY <1>0, SumsRule, SumsNatural
<1> HIDE DEF p, q
<1>2. {} \in T
  BY <1>1
<1>3. ASSUME NEW s \in SUBSET S, s # {}, s \ {Pick(s)} \in T PROVE s \in T
  <2> DEFINE c == Pick(s)
             r == s \ {c}
  <2>1. c \in s /\ c \in S /\ r \in SUBSET S
    BY <1>3, PickFacts
  <2>2. /\ p[s] = f[c] + p[r] /\ q[s] = g[c] + q[r]
        /\ p[r] \in Nat /\ q[r] \in Nat /\ f[c] \in Nat /\ f[x] \in Nat
    BY <1>1, <1>3, <2>1
  <2>3. (x \notin r => q[r] = p[r]) /\ (x \in r => q[r] + f[x] = p[r] + u)
    BY <1>3
  <2>4. g[x] = u /\ (c # x => g[c] = f[c])
    BY <2>1
  <2>5. (c = x => x \in s /\ x \notin r) /\ (c # x => (x \in s <=> x \in r))
    BY <2>1
  <2> HIDE DEF c, r
  <2>6. CASE c = x
    BY <2>2, <2>3, <2>4, <2>5, <2>6
  <2>7. CASE c # x
    BY <2>2, <2>3, <2>4, <2>5, <2>7
  <2> QED BY <2>6, <2>7
<1> HIDE DEF T
<1>4. \A s \in SUBSET S : s \in T
  BY <1>2, <1>3, SmallerSets
<1>5. q[S] + f[x] = p[S] + u
  BY <1>4 DEF T
<1>6. DOMAIN f = S /\ DOMAIN g = S
  OBVIOUS
<1>7. SumFunction(f) = p[S] /\ SumFunction(g) = q[S]
  BY <1>6, SumIsSums DEF SumFunction, p, q
<1> QED BY <1>5, <1>7

\* A sum of natural numbers is one, and nothing but zeros is zero.
LEMMA SumOfNaturals ==
  ASSUME NEW S, IsFiniteSet(S), NEW f \in [S -> Nat]
  PROVE  SumFunction(f) \in Nat
<1>1. SumFunction(f) = Sums(f, S)[S]
  BY SumIsSums DEF SumFunction
<1> QED BY <1>1, SumsNatural

LEMMA SumOfZeros ==
  ASSUME NEW S, IsFiniteSet(S), NEW f \in [S -> Nat], \A x \in S : f[x] = 0
  PROVE  SumFunction(f) = 0
<1> DEFINE p == Sums(f, S)
           T == {s \in SUBSET S : p[s] = 0}
<1>1. p[{}] = 0 /\ \A s \in SUBSET S : s # {} => p[s] = f[Pick(s)] + p[s \ {Pick(s)}]
  BY SumsRule
<1>2. SumFunction(f) = p[S]
  BY SumIsSums DEF SumFunction
<1> HIDE DEF p
<1>3. {} \in T
  BY <1>1
<1>4. ASSUME NEW s \in SUBSET S, s # {}, s \ {Pick(s)} \in T PROVE s \in T
  <2>1. Pick(s) \in S
    BY <1>4, PickFacts
  <2> QED BY <1>1, <1>4, <2>1
<1> HIDE DEF T
<1>5. \A s \in SUBSET S : s \in T
  BY <1>3, <1>4, SmallerSets
<1> QED BY <1>2, <1>5 DEF T

\* A smaller function has the smaller sum, and an equal one only if it is equal.
Dominated(f, g, S) ==
  /\ IsFiniteSet(S) /\ f \in [S -> Nat] /\ g \in [S -> Nat]
  /\ \A x \in S : f[x] <= g[x]

LEMMA SumOrder ==
  ASSUME NEW S, NEW f, NEW g, Dominated(f, g, S)
  PROVE  /\ SumFunction(f) \in Nat /\ SumFunction(g) \in Nat
         /\ SumFunction(f) <= SumFunction(g)
         /\ SumFunction(f) = SumFunction(g) => \A x \in S : f[x] = g[x]
<1> USE DEF Dominated
<1> DEFINE p == Sums(f, S)
           q == Sums(g, S)
           T == {s \in SUBSET S : p[s] <= q[s] /\ (p[s] = q[s] => \A x \in s : f[x] = g[x])}
<1>1. /\ p[{}] = 0 /\ \A s \in SUBSET S : s # {} => p[s] = f[Pick(s)] + p[s \ {Pick(s)}]
      /\ q[{}] = 0 /\ \A s \in SUBSET S : s # {} => q[s] = g[Pick(s)] + q[s \ {Pick(s)}]
      /\ \A s \in SUBSET S : p[s] \in Nat /\ q[s] \in Nat
  BY SumsRule, SumsNatural
<1>2. SumFunction(f) = p[S] /\ SumFunction(g) = q[S]
  BY SumIsSums DEF SumFunction
<1> HIDE DEF p, q
<1>3. {} \in T
  BY <1>1
<1>4. ASSUME NEW s \in SUBSET S, s # {}, s \ {Pick(s)} \in T PROVE s \in T
  <2> DEFINE c == Pick(s)
             r == s \ {c}
  <2>1. c \in s /\ c \in S /\ r \in SUBSET S
    BY <1>4, PickFacts
  <2>2. /\ p[s] = f[c] + p[r] /\ q[s] = g[c] + q[r]
        /\ p[r] \in Nat /\ q[r] \in Nat /\ f[c] \in Nat /\ g[c] \in Nat /\ f[c] <= g[c]
    BY <1>1, <1>4, <2>1
  <2>3. p[r] <= q[r] /\ (p[r] = q[r] => \A x \in r : f[x] = g[x])
    BY <1>4
  <2>4. \A x \in s : x = c \/ x \in r
    OBVIOUS
  <2> HIDE DEF c, r
  <2>5. p[s] <= q[s] /\ (p[s] = q[s] => f[c] = g[c] /\ p[r] = q[r])
    BY <2>2, <2>3
  <2>6. p[s] = q[s] => \A x \in s : f[x] = g[x]
    BY <2>3, <2>4, <2>5
  <2> QED BY <2>5, <2>6
<1> HIDE DEF T
<1>5. \A s \in SUBSET S : s \in T
  BY <1>3, <1>4, SmallerSets
<1>6. S \in T
  BY <1>5
<1> QED BY <1>1, <1>2, <1>6 DEF T

LEMMA SumIsZero ==
  ASSUME NEW S, IsFiniteSet(S), NEW f \in [S -> Nat]
  PROVE  SumFunction(f) = 0 <=> \A x \in S : f[x] = 0
<1> DEFINE z == [x \in S |-> 0]
<1>1. z \in [S -> Nat] /\ \A x \in S : z[x] = 0
  OBVIOUS
<1>2. Dominated(z, f, S)
  BY <1>1 DEF Dominated
<1> HIDE DEF z
<1>3. SumFunction(z) = 0
  BY <1>1, SumOfZeros
<1>4. SumFunction(f) = 0 => \A x \in S : f[x] = 0
  BY <1>1, <1>2, <1>3, SumOrder
<1>5. (\A x \in S : f[x] = 0) => SumFunction(f) = 0
  BY SumOfZeros
<1> QED BY <1>4, <1>5

\* How many elements sets have together: none if and only if each is empty.
LEMMA SumOfCounts ==
  ASSUME NEW S, IsFiniteSet(S), NEW H, \A i \in S : IsFiniteSet(H[i])
  PROVE  LET f == [i \in S |-> Cardinality(H[i])] IN
         /\ f \in [S -> Nat] /\ SumFunction(f) \in Nat
         /\ SumFunction(f) = 0 <=> \A i \in S : H[i] = {}
<1> DEFINE f == [i \in S |-> Cardinality(H[i])]
<1>1. f \in [S -> Nat]
  BY FS_CardinalityType
<1>2. \A i \in S : f[i] = 0 <=> H[i] = {}
  BY FS_EmptySet
<1> HIDE DEF f
<1>3. SumFunction(f) \in Nat /\ (SumFunction(f) = 0 <=> \A i \in S : f[i] = 0)
  BY <1>1, SumIsZero, SumOfNaturals
<1> QED BY <1>1, <1>2, <1>3 DEF f
=============================================================================
