--------------------------- MODULE DrillOff_proofs --------------------------
(***************************************************************************)
(* Lemmas about the operators of DrillOff, for every finite list of        *)
(* points: sums over sets and over groups of them, the least and the       *)
(* greatest of a set, the order of quotients, the k-th value of a list,    *)
(* quartiles and fences, and the steps of a curve.                         *)
(***************************************************************************)
EXTENDS DrillOff, FiniteSetTheorems, WellFoundedInduction, NaturalsInduction, TLAPS

-----------------------------------------------------------------------------
(***************************************************************************)
(* Induction, and the least and the greatest.                              *)
(***************************************************************************)
\* Induction over the naturals, and over the subsets of a finite set, as sets
\* of what has the property.
LEMMA NatSet ==
  ASSUME NEW P, 0 \in P, \A n \in Nat : n \in P => n + 1 \in P
  PROVE  Nat \subseteq P
<1> SUFFICES ASSUME ~ (Nat \subseteq P) PROVE FALSE
  OBVIOUS
<1> DEFINE T == Nat \ P
           R == OpToRel(<, Nat)
<1>1. PICK j \in T : \A k \in T : ~(<<k, j>> \in R)
  <2>1. T \subseteq Nat /\ T # {}
    OBVIOUS
  <2>2. IsWellFoundedOn(R, Nat)
    BY NatLessThanWellFounded
  <2> HIDE DEF T, R
  <2> QED BY <2>1, <2>2, WFMin
<1>2. \A k \in T : ~(k < j)
  <2>1. R = {ss \in Nat \X Nat : ss[1] < ss[2]} /\ T \subseteq Nat
    BY DEF OpToRel
  <2> HIDE DEF R, T
  <2> QED BY <1>1, <2>1
<1>3. j - 1 \in Nat /\ j - 1 \notin T
  BY <1>2
<1> QED BY <1>3

\* Induction over the subsets of a finite set.
LEMMA FiniteInduction ==
  ASSUME NEW S, IsFiniteSet(S), NEW P, {} \in P,
         \A T \in SUBSET S : \A x \in S \ T : T \in P => T \union {x} \in P
  PROVE  S \in P
<1> DEFINE N == {n \in Nat : \A T \in SUBSET S : Cardinality(T) = n => T \in P}
<1>1. 0 \in N
  BY FS_EmptySet, FS_Subset
<1>2. ASSUME NEW n \in Nat, n \in N PROVE n + 1 \in N
  <2> SUFFICES ASSUME NEW T \in SUBSET S, Cardinality(T) = n + 1 PROVE T \in P
    OBVIOUS
  <2>1. IsFiniteSet(T)
    BY FS_Subset
  <2>2. T # {}
    <3>1. Cardinality(T) # 0
      OBVIOUS
    <3> QED BY <2>1, <3>1, FS_EmptySet
  <2>3. PICK x \in T : TRUE
    BY <2>2
  <2>4. Cardinality(T \ {x}) = n /\ T \ {x} \in SUBSET S
    <3>1. Cardinality(T \ {x}) = Cardinality(T) - 1
      BY <2>1, <2>3, FS_RemoveElement
    <3> QED BY <3>1
  <2>5. T \ {x} \in P
    BY <1>2, <2>4
  <2>6. (T \ {x}) \union {x} = T /\ x \in S \ (T \ {x})
    BY <2>3
  <2> QED BY <2>4, <2>5, <2>6
<1>3. Nat \subseteq N
  <2> HIDE DEF N
  <2> QED BY <1>1, <1>2, NatSet
<1>4. Cardinality(S) \in Nat
  BY FS_CardinalityType
<1> QED BY <1>3, <1>4

\* A recursion over the first naturals has a solution.
LEMMA Recursion ==
  ASSUME NEW S, NEW first \in S, NEW n \in Nat, NEW step \in [1..n -> [S -> S]]
  PROVE  \E h \in [0..n -> S] : h[0] = first /\ \A k \in 1..n : h[k] = step[k][h[k - 1]]
<1> DEFINE Solves(h, m) == /\ h \in [0..m -> S] /\ h[0] = first
                           /\ \A k \in 1..m : h[k] = step[k][h[k - 1]]
           A == {m \in Nat : m <= n => \E h : Solves(h, m)}
<1>1. 0 \in A
  <2>1. Solves([k \in 0..0 |-> first], 0)
    OBVIOUS
  <2> QED BY <2>1
<1>2. ASSUME NEW m \in Nat, m \in A PROVE m + 1 \in A
  <2> SUFFICES ASSUME m + 1 <= n PROVE \E h : Solves(h, m + 1)
    OBVIOUS
  <2>1. PICK f : Solves(f, m)
    BY <1>2
  <2> DEFINE new == step[m + 1][f[m]]
             h == [k \in 0..(m + 1) |-> IF k = m + 1 THEN new ELSE f[k]]
  <2>2. new \in S
    <3>1. f[m] \in S /\ step[m + 1] \in [S -> S]
      BY <2>1
    <3> QED BY <3>1
  <2>3. h \in [0..(m + 1) -> S]
    <3> HIDE DEF new
    <3> QED BY <2>1, <2>2
  <2>4. h[m + 1] = new /\ \A k \in 0..m : h[k] = f[k]
    OBVIOUS
  <2> HIDE DEF h
  <2>5. ASSUME NEW k \in 1..(m + 1) PROVE h[k] = step[k][h[k - 1]]
    <3>1. CASE k = m + 1
      <4>1. k - 1 = m /\ h[k - 1] = f[m]
        BY <2>4, <3>1
      <4> QED BY <2>4, <3>1, <4>1
    <3>2. CASE k \in 1..m
      <4>1. f[k] = step[k][f[k - 1]] /\ k \in 0..m /\ k - 1 \in 0..m
        BY <2>1, <3>2
      <4> QED BY <2>4, <4>1
    <3> QED BY <3>1, <3>2
  <2>6. h[0] = first
    BY <2>1, <2>4
  <2>7. Solves(h, m + 1)
    BY <2>3, <2>5, <2>6
  <2> QED BY <2>7
<1>3. Nat \subseteq A
  <2> HIDE DEF A
  <2> QED BY <1>1, <1>2, NatSet
<1> QED BY <1>3

\* A finite set of integers has a least and a greatest member.
LEMMA MinMax ==
  ASSUME NEW S \in SUBSET Int, IsFiniteSet(S), S # {}
  PROVE  /\ Min(S) \in S /\ \A y \in S : Min(S) <= y
         /\ Max(S) \in S /\ \A y \in S : Max(S) >= y
<1> DEFINE P == {T \in SUBSET S : T # {} => /\ \E lo \in T : \A y \in T : lo <= y
                                           /\ \E hi \in T : \A y \in T : hi >= y}
<1>1. {} \in P
  OBVIOUS
<1>2. ASSUME NEW T \in SUBSET S, NEW x \in S \ T, T \in P
      PROVE  T \union {x} \in P
  <2>1. CASE T = {}
    BY <2>1
  <2>2. CASE T # {}
    <3>1. PICK lo \in T : \A y \in T : lo <= y
      BY <1>2, <2>2
    <3>2. PICK hi \in T : \A y \in T : hi >= y
      BY <1>2, <2>2
    <3>3. \E l \in T \union {x} : \A y \in T \union {x} : l <= y
      <4>1. CASE x <= lo
        BY <3>1, <4>1
      <4>2. CASE lo <= x
        BY <3>1, <4>2
      <4> QED BY <4>1, <4>2
    <3>4. \E h \in T \union {x} : \A y \in T \union {x} : h >= y
      <4>1. CASE x >= hi
        BY <3>2, <4>1
      <4>2. CASE hi >= x
        BY <3>2, <4>2
      <4> QED BY <4>1, <4>2
    <3> QED BY <3>3, <3>4
  <2> QED BY <2>1, <2>2
<1>3. S \in P
  <2> HIDE DEF P
  <2> QED BY <1>1, <1>2, FiniteInduction
<1> QED BY <1>3 DEF Min, Max

-----------------------------------------------------------------------------
(***************************************************************************)
(* Sums.                                                                   *)
(***************************************************************************)
\* The sum of the values of a finite set, whatever the order it takes them in.
IsSum(g, v, U) ==
  /\ g \in [SUBSET U -> Int]
  /\ g[{}] = 0
  /\ \A s \in SUBSET U : s # {} => \E y \in s : g[s] = v[y] + g[s \ {y}]
  /\ \A S \in SUBSET U : SumFunctionOnSet(v, S) = g[S]

\* A sum takes its values one at a time.
LEMMA SumExists ==
  ASSUME NEW U, IsFiniteSet(U), NEW v, \A x \in U : v[x] \in Int
  PROVE  \E g : IsSum(g, v, U)
<1> DEFINE c(s) == CHOOSE x \in s : TRUE
           Good(g, s) == g[s] = IF s = {} THEN 0 ELSE v[c(s)] + g[s \ {c(s)}]
           A == {n \in Nat : \E g \in [SUBSET U -> Int] :
                   \A s \in SUBSET U : Cardinality(s) <= n => Good(g, s)}
<1>0. \A s \in SUBSET U : /\ IsFiniteSet(s) /\ Cardinality(s) \in Nat
                          /\ s # {} => /\ c(s) \in s /\ v[c(s)] \in Int
                                       /\ s \ {c(s)} \in SUBSET U
                                       /\ Cardinality(s \ {c(s)}) = Cardinality(s) - 1
                          /\ Cardinality(s) = 0 => s = {}
  BY FS_Subset, FS_CardinalityType, FS_RemoveElement, FS_EmptySet
<1>1. 0 \in A
  <2> DEFINE g == [s \in SUBSET U |-> 0]
  <2>1. g \in [SUBSET U -> Int] /\ \A s \in SUBSET U : Cardinality(s) <= 0 => Good(g, s)
    BY <1>0
  <2> QED BY <2>1
<1>2. ASSUME NEW n \in Nat, n \in A PROVE n + 1 \in A
  <2>1. PICK f \in [SUBSET U -> Int] : \A s \in SUBSET U : Cardinality(s) <= n => Good(f, s)
    BY <1>2
  <2> DEFINE g == [s \in SUBSET U |-> IF s = {} THEN 0 ELSE v[c(s)] + f[s \ {c(s)}]]
  <2>2. g \in [SUBSET U -> Int]
    BY <1>0
  <2>3. \A s \in SUBSET U : Cardinality(s) <= n => g[s] = f[s]
    BY <2>1
  <2>4. ASSUME NEW s \in SUBSET U, Cardinality(s) <= n + 1 PROVE Good(g, s)
    <3>1. CASE s = {}
      BY <3>1
    <3>2. CASE s # {}
      <4>1. Cardinality(s \ {c(s)}) <= n /\ s \ {c(s)} \in SUBSET U
        BY <1>0, <2>4, <3>2
      <4> QED BY <2>3, <3>2, <4>1
    <3> QED BY <3>1, <3>2
  <2> HIDE DEF g, Good
  <2>5. \E h \in [SUBSET U -> Int] : \A s \in SUBSET U : Cardinality(s) <= n + 1 => Good(h, s)
    BY <2>2, <2>4
  <2> QED BY <2>5
<1>3. Nat \subseteq A
  <2> HIDE DEF A
  <2> QED BY <1>1, <1>2, NatSet
<1>4. PICK g \in [SUBSET U -> Int] : \A s \in SUBSET U : Good(g, s)
  <2>1. Cardinality(U) \in A
    BY <1>0, <1>3
  <2>2. \A s \in SUBSET U : Cardinality(s) <= Cardinality(U)
    BY FS_Subset
  <2> QED BY <2>1, <2>2
<1>5. ASSUME NEW S \in SUBSET U PROVE SumFunctionOnSet(v, S) = g[S]
  <2> DEFINE F(f) == [s \in SUBSET S |-> IF s = {} THEN 0 ELSE v[c(s)] + f[s \ {c(s)}]]
             h == [s \in SUBSET S |-> g[s]]
  <2>1. h = F(h)
    BY <1>0, <1>4
  <2> DEFINE f == CHOOSE f : f = F(f)
  <2>2. f = F(f)
    <3> HIDE DEF h, F
    <3> QED BY <2>1
  <2>3. SumFunctionOnSet(v, S) = f[S]
    BY DEF SumFunctionOnSet, FoldFunctionOnSet, MapThenFoldSet
  <2> DEFINE B == {n \in Nat : \A s \in SUBSET S : Cardinality(s) = n => f[s] = g[s]}
  <2>r. /\ f = [s \in SUBSET S |-> IF s = {} THEN 0 ELSE v[c(s)] + f[s \ {c(s)}]]
    BY <2>2
  <2> HIDE DEF f
  <2>s. \A s \in SUBSET S : f[s] = IF s = {} THEN 0 ELSE v[c(s)] + f[s \ {c(s)}]
    BY <2>r
  <2>4. 0 \in B
    BY <1>0, <1>4, <2>s
  <2>5. ASSUME NEW n \in Nat, n \in B PROVE n + 1 \in B
    <3> SUFFICES ASSUME NEW s \in SUBSET S, Cardinality(s) = n + 1 PROVE f[s] = g[s]
      OBVIOUS
    <3>1. s # {} /\ Cardinality(s \ {c(s)}) = n /\ s \ {c(s)} \in SUBSET S
      <4>1. s \in SUBSET U
        OBVIOUS
      <4>2. s # {}
        <5>1. Cardinality(s) # 0
          OBVIOUS
        <5> QED BY <5>1, FS_EmptySet
      <4> QED BY <1>0, <4>1, <4>2
    <3>2. f[s \ {c(s)}] = g[s \ {c(s)}]
      BY <2>5, <3>1
    <3> QED BY <1>4, <2>s, <3>1, <3>2
  <2>6. Nat \subseteq B
    <3> HIDE DEF B
    <3> QED BY <2>4, <2>5, NatSet
  <2>7. Cardinality(S) \in Nat
    BY <1>0
  <2> QED BY <2>3, <2>6, <2>7
<1>6. g[{}] = 0
  BY <1>4
<1>7. ASSUME NEW s \in SUBSET U, s # {} PROVE \E y \in s : g[s] = v[y] + g[s \ {y}]
  <2>1. c(s) \in s /\ g[s] = v[c(s)] + g[s \ {c(s)}]
    BY <1>0, <1>4, <1>7
  <2> HIDE DEF c
  <2> QED BY <2>1
<1> HIDE DEF c
<1>8. IsSum(g, v, U)
  BY <1>4, <1>5, <1>6, <1>7 DEF IsSum
<1> QED BY <1>8

\* One value more adds to a sum.
LEMMA SumAdd ==
  ASSUME NEW U, IsFiniteSet(U), NEW v, \A x \in U : v[x] \in Int
  PROVE  /\ SumFunctionOnSet(v, {}) = 0
         /\ \A T \in SUBSET U : SumFunctionOnSet(v, T) \in Int
         /\ \A T \in SUBSET U : \A x \in U \ T :
              SumFunctionOnSet(v, T \union {x}) = v[x] + SumFunctionOnSet(v, T)
<1>0. PICK g : IsSum(g, v, U)
  BY SumExists
<1>1. /\ g \in [SUBSET U -> Int]
      /\ g[{}] = 0
      /\ \A s \in SUBSET U : s # {} => \E y \in s : g[s] = v[y] + g[s \ {y}]
      /\ \A S \in SUBSET U : SumFunctionOnSet(v, S) = g[S]
  BY <1>0 DEF IsSum
<1> DEFINE B == {n \in Nat : \A T \in SUBSET U : \A x \in U \ T :
                   Cardinality(T) = n => g[T \union {x}] = v[x] + g[T]}
<1>2. 0 \in B
  <2> SUFFICES ASSUME NEW T \in SUBSET U, NEW x \in U \ T, Cardinality(T) = 0
               PROVE  g[T \union {x}] = v[x] + g[T]
    OBVIOUS
  <2>1. T = {}
    BY FS_Subset, FS_EmptySet
  <2>2. PICK y \in T \union {x} : g[T \union {x}] = v[y] + g[(T \union {x}) \ {y}]
    BY <1>1
  <2>3. y = x /\ (T \union {x}) \ {y} = T
    BY <2>1
  <2> QED BY <2>2, <2>3
<1>3. ASSUME NEW n \in Nat, n \in B PROVE n + 1 \in B
  <2> SUFFICES ASSUME NEW T \in SUBSET U, NEW x \in U \ T, Cardinality(T) = n + 1
               PROVE  g[T \union {x}] = v[x] + g[T]
    OBVIOUS
  <2> DEFINE W == T \union {x}
  <2>1. PICK y \in W : g[W] = v[y] + g[W \ {y}]
    BY <1>1
  <2>3. CASE y = x
    <3>1. W \ {y} = T
      BY <2>3
    <3> QED BY <2>1, <2>3, <3>1
  <2>4. CASE y # x
    <3>1. y \in T /\ W \ {y} = (T \ {y}) \union {x} /\ T = (T \ {y}) \union {y}
      BY <2>4
    <3>2. Cardinality(T \ {y}) = n
      <4>1. IsFiniteSet(T)
        BY FS_Subset
      <4>2. Cardinality(T \ {y}) = Cardinality(T) - 1
        BY <3>1, <4>1, FS_RemoveElement
      <4> QED BY <4>2
    <3>3. g[(T \ {y}) \union {x}] = v[x] + g[T \ {y}]
      BY <1>3, <3>2
    <3>4. g[(T \ {y}) \union {y}] = v[y] + g[T \ {y}]
      BY <1>3, <3>1, <3>2
    <3>5. g[W] = v[y] + (v[x] + g[T \ {y}]) /\ g[T] = v[y] + g[T \ {y}]
      BY <2>1, <3>1, <3>3, <3>4
    <3>6. v[x] \in Int /\ v[y] \in Int /\ g[T \ {y}] \in Int
      BY <1>1, <3>1
    <3> HIDE DEF W
    <3>7. g[W] = v[x] + g[T]
      BY <3>5, <3>6
    <3> QED BY <3>7 DEF W
  <2> QED BY <2>3, <2>4
<1>4. Nat \subseteq B
  <2> HIDE DEF B
  <2> QED BY <1>2, <1>3, NatSet
<1>5. ASSUME NEW T \in SUBSET U, NEW x \in U \ T
      PROVE  g[T \union {x}] = v[x] + g[T]
  <2>1. Cardinality(T) \in Nat
    BY FS_Subset, FS_CardinalityType
  <2> QED BY <1>4, <2>1
<1>6. g[{}] = 0
  BY <1>1
<1>7. \A T \in SUBSET U : \A x \in U \ T : T \union {x} \in SUBSET U
  OBVIOUS
<1> QED BY <1>1, <1>5, <1>6, <1>7

\* Equal values have equal sums, and larger values larger ones.
LEMMA SumMonotone ==
  ASSUME NEW S, IsFiniteSet(S), NEW v, NEW w,
         \A x \in S : v[x] \in Int /\ w[x] \in Int /\ v[x] <= w[x]
  PROVE  SumFunctionOnSet(v, S) <= SumFunctionOnSet(w, S)
<1> DEFINE P == {T \in SUBSET S : SumFunctionOnSet(v, T) <= SumFunctionOnSet(w, T)}
<1>1. /\ SumFunctionOnSet(v, {}) = 0 /\ SumFunctionOnSet(w, {}) = 0
      /\ \A T \in SUBSET S : SumFunctionOnSet(v, T) \in Int /\ SumFunctionOnSet(w, T) \in Int
      /\ \A T \in SUBSET S : \A x \in S \ T :
           /\ SumFunctionOnSet(v, T \union {x}) = v[x] + SumFunctionOnSet(v, T)
           /\ SumFunctionOnSet(w, T \union {x}) = w[x] + SumFunctionOnSet(w, T)
  <2>1. /\ SumFunctionOnSet(v, {}) = 0
        /\ \A T \in SUBSET S : SumFunctionOnSet(v, T) \in Int
        /\ \A T \in SUBSET S : \A x \in S \ T :
             SumFunctionOnSet(v, T \union {x}) = v[x] + SumFunctionOnSet(v, T)
    BY SumAdd
  <2>2. /\ SumFunctionOnSet(w, {}) = 0
        /\ \A T \in SUBSET S : SumFunctionOnSet(w, T) \in Int
        /\ \A T \in SUBSET S : \A x \in S \ T :
             SumFunctionOnSet(w, T \union {x}) = w[x] + SumFunctionOnSet(w, T)
    BY SumAdd
  <2> QED BY <2>1, <2>2
<1>2. {} \in P
  BY <1>1
<1>3. ASSUME NEW T \in SUBSET S, NEW x \in S \ T, T \in P PROVE T \union {x} \in P
  <2>1. /\ SumFunctionOnSet(v, T \union {x}) = v[x] + SumFunctionOnSet(v, T)
        /\ SumFunctionOnSet(w, T \union {x}) = w[x] + SumFunctionOnSet(w, T)
        /\ SumFunctionOnSet(v, T) \in Int /\ SumFunctionOnSet(w, T) \in Int
        /\ SumFunctionOnSet(v, T) <= SumFunctionOnSet(w, T)
    BY <1>1, <1>3
  <2> QED BY <2>1
<1>4. S \in P
  <2> HIDE DEF P
  <2> QED BY <1>2, <1>3, FiniteInduction
<1> QED BY <1>4

\* Equal values have equal sums.
LEMMA SumSame ==
  ASSUME NEW S, IsFiniteSet(S), NEW v, NEW w,
         \A x \in S : v[x] \in Int /\ w[x] = v[x]
  PROVE  SumFunctionOnSet(v, S) = SumFunctionOnSet(w, S)
<1>1. SumFunctionOnSet(v, S) \in Int /\ SumFunctionOnSet(w, S) \in Int
  BY SumAdd
<1>2. SumFunctionOnSet(v, S) <= SumFunctionOnSet(w, S)
  BY SumMonotone
<1>3. SumFunctionOnSet(w, S) <= SumFunctionOnSet(v, S)
  BY SumMonotone
<1> QED BY <1>1, <1>2, <1>3

\* The sum over two sets that have nothing in common.
LEMMA SumUnion ==
  ASSUME NEW S, IsFiniteSet(S), NEW v, \A x \in S : v[x] \in Int,
         NEW A \in SUBSET S, NEW B \in SUBSET S, A \intersect B = {}
  PROVE  SumFunctionOnSet(v, A \union B) = SumFunctionOnSet(v, A) + SumFunctionOnSet(v, B)
<1> DEFINE P == {T \in SUBSET B : SumFunctionOnSet(v, A \union T)
                                    = SumFunctionOnSet(v, A) + SumFunctionOnSet(v, T)}
<1>1. /\ SumFunctionOnSet(v, {}) = 0
      /\ \A T \in SUBSET S : SumFunctionOnSet(v, T) \in Int
      /\ \A T \in SUBSET S : \A x \in S \ T :
           SumFunctionOnSet(v, T \union {x}) = v[x] + SumFunctionOnSet(v, T)
  BY SumAdd
<1>2. {} \in P
  <2>1. A \union {} = A
    OBVIOUS
  <2> QED BY <1>1, <2>1
<1>3. ASSUME NEW T \in SUBSET B, NEW x \in B \ T, T \in P PROVE T \union {x} \in P
  <2>1. A \union (T \union {x}) = (A \union T) \union {x}
    OBVIOUS
  <2>2. A \union T \in SUBSET S /\ x \in S \ (A \union T) /\ T \in SUBSET S /\ x \in S \ T
    OBVIOUS
  <2>3. /\ SumFunctionOnSet(v, (A \union T) \union {x}) = v[x] + SumFunctionOnSet(v, A \union T)
        /\ SumFunctionOnSet(v, T \union {x}) = v[x] + SumFunctionOnSet(v, T)
        /\ SumFunctionOnSet(v, A) \in Int /\ SumFunctionOnSet(v, T) \in Int /\ v[x] \in Int
    BY <1>1, <2>2
  <2>4. SumFunctionOnSet(v, A \union T) = SumFunctionOnSet(v, A) + SumFunctionOnSet(v, T)
    BY <1>3
  <2>5. SumFunctionOnSet(v, A \union (T \union {x})) = SumFunctionOnSet(v, (A \union T) \union {x})
    BY <2>1
  <2>6. SumFunctionOnSet(v, A \union (T \union {x}))
          = SumFunctionOnSet(v, A) + SumFunctionOnSet(v, T \union {x})
    BY <2>3, <2>4, <2>5
  <2> QED BY <2>6
<1>4. B \in P
  <2>1. IsFiniteSet(B)
    BY FS_Subset
  <2> HIDE DEF P
  <2> QED BY <1>2, <1>3, <2>1, FiniteInduction
<1> QED BY <1>4

\* The sum of ones.
LEMMA SumOnes ==
  ASSUME NEW S, IsFiniteSet(S), NEW v, \A x \in S : v[x] = 1
  PROVE  SumFunctionOnSet(v, S) = Cardinality(S)
<1> DEFINE P == {T \in SUBSET S : SumFunctionOnSet(v, T) = Cardinality(T)}
<1>1. /\ SumFunctionOnSet(v, {}) = 0
      /\ \A T \in SUBSET S : \A x \in S \ T :
           SumFunctionOnSet(v, T \union {x}) = v[x] + SumFunctionOnSet(v, T)
  BY SumAdd
<1>2. {} \in P
  BY <1>1, FS_EmptySet
<1>3. ASSUME NEW T \in SUBSET S, NEW x \in S \ T, T \in P PROVE T \union {x} \in P
  <2>1. IsFiniteSet(T) /\ Cardinality(T) \in Nat
    BY FS_Subset, FS_CardinalityType
  <2>2. Cardinality(T \union {x}) = Cardinality(T) + 1
    BY <2>1, FS_AddElement
  <2> QED BY <1>1, <1>3, <2>1, <2>2
<1>4. S \in P
  <2> HIDE DEF P
  <2> QED BY <1>2, <1>3, FiniteInduction
<1> QED BY <1>4

\* Finitely many groups that have nothing in common and together hold S.
Splits(groups, S) ==
  /\ IsFiniteSet(DOMAIN groups)
  /\ UNION {groups[k] : k \in DOMAIN groups} = S
  /\ \A k, l \in DOMAIN groups : k # l => groups[k] \intersect groups[l] = {}

\* The sum over groups is that over all they hold.
LEMMA SumGroups ==
  ASSUME NEW S, IsFiniteSet(S), NEW v, \A x \in S : v[x] \in Int,
         NEW groups, Splits(groups, S),
         NEW t, \A k \in DOMAIN groups : t[k] = SumFunctionOnSet(v, groups[k])
  PROVE  SumFunctionOnSet(t, DOMAIN groups) = SumFunctionOnSet(v, S)
<1> DEFINE D == DOMAIN groups
           All(E) == UNION {groups[k] : k \in E}
           P == {E \in SUBSET D : SumFunctionOnSet(t, E) = SumFunctionOnSet(v, All(E))}
<1>0. /\ IsFiniteSet(D) /\ All(D) = S
      /\ \A k, l \in D : k # l => groups[k] \intersect groups[l] = {}
      /\ \A k \in D : groups[k] \subseteq S
  BY DEF Splits
<1> HIDE DEF D
<1>1. /\ SumFunctionOnSet(v, {}) = 0
      /\ \A T \in SUBSET S : SumFunctionOnSet(v, T) \in Int
  BY SumAdd
<1>2. \A k \in D : t[k] \in Int
  BY <1>0, <1>1 DEF D
<1>3. /\ SumFunctionOnSet(t, {}) = 0
      /\ \A E \in SUBSET D : SumFunctionOnSet(t, E) \in Int
      /\ \A E \in SUBSET D : \A k \in D \ E :
           SumFunctionOnSet(t, E \union {k}) = t[k] + SumFunctionOnSet(t, E)
  BY <1>0, <1>2, SumAdd
<1>4. {} \in P
  <2>1. All({}) = {}
    OBVIOUS
  <2> HIDE DEF All
  <2> QED BY <1>1, <1>3, <2>1
<1>5. ASSUME NEW E \in SUBSET D, NEW k \in D \ E, E \in P PROVE E \union {k} \in P
  <2>1. /\ All(E \union {k}) = groups[k] \union All(E)
        /\ groups[k] \in SUBSET S /\ All(E) \in SUBSET S /\ groups[k] \intersect All(E) = {}
    BY <1>0
  <2>2. SumFunctionOnSet(t, E) = SumFunctionOnSet(v, All(E))
    BY <1>5
  <2>3. SumFunctionOnSet(t, E \union {k}) = t[k] + SumFunctionOnSet(t, E)
    BY <1>3
  <2>4. t[k] = SumFunctionOnSet(v, groups[k])
    BY DEF D
  <2> HIDE DEF All
  <2>5. SumFunctionOnSet(v, groups[k] \union All(E))
          = SumFunctionOnSet(v, groups[k]) + SumFunctionOnSet(v, All(E))
    BY <2>1, SumUnion
  <2> QED BY <2>1, <2>2, <2>3, <2>4, <2>5
<1>6. D \in P
  <2> HIDE DEF P
  <2> QED BY <1>0, <1>4, <1>5, FiniteInduction
<1> HIDE DEF All
<1> QED BY <1>0, <1>6 DEF D

\* The sizes of groups add up.
LEMMA CountGroups ==
  ASSUME NEW S, IsFiniteSet(S), NEW groups, Splits(groups, S),
         NEW t, \A k \in DOMAIN groups : t[k] = Cardinality(groups[k])
  PROVE  SumFunctionOnSet(t, DOMAIN groups) = Cardinality(S)
<1> DEFINE v == [x \in S |-> 1]
<1>1. \A x \in S : v[x] = 1
  OBVIOUS
<1> HIDE DEF v
<1>2. ASSUME NEW T \in SUBSET S PROVE SumFunctionOnSet(v, T) = Cardinality(T)
  <2>1. IsFiniteSet(T) /\ \A x \in T : v[x] = 1
    BY <1>1, FS_Subset
  <2> QED BY <2>1, SumOnes
<1>3. \A k \in DOMAIN groups : groups[k] \in SUBSET S
  BY DEF Splits
<1>4. \A k \in DOMAIN groups : t[k] = SumFunctionOnSet(v, groups[k])
  BY <1>2, <1>3
<1>5. SumFunctionOnSet(t, DOMAIN groups) = SumFunctionOnSet(v, S)
  <2>1. \A x \in S : v[x] \in Int
    BY <1>1
  <2> QED BY <1>4, <2>1, SumGroups
<1> QED BY <1>2, <1>5

\* A product distributes over a sum.
LEMMA Distribute ==
  ASSUME NEW a \in Int, NEW b \in Int, NEW c \in Int
  PROVE  a * (b + c) = a * b + a * c
OBVIOUS

\* A weighted mean is between the least and the greatest of the values.
LEMMA SumBounds ==
  ASSUME NEW S, IsFiniteSet(S), NEW w, NEW p, NEW lo \in Int, NEW hi \in Int,
         NEW v, \A x \in S : v[x] \in Int /\ lo <= v[x] /\ v[x] <= hi,
         \A x \in S : w[x] \in Nat /\ p[x] = v[x] * w[x]
  PROVE  /\ lo * SumFunctionOnSet(w, S) <= SumFunctionOnSet(p, S)
         /\ SumFunctionOnSet(p, S) <= hi * SumFunctionOnSet(w, S)
<1> DEFINE P == {T \in SUBSET S : /\ lo * SumFunctionOnSet(w, T) <= SumFunctionOnSet(p, T)
                                  /\ SumFunctionOnSet(p, T) <= hi * SumFunctionOnSet(w, T)}
<1>1. \A x \in S : w[x] \in Int /\ p[x] \in Int
  OBVIOUS
<1>2. /\ SumFunctionOnSet(w, {}) = 0
      /\ \A T \in SUBSET S : SumFunctionOnSet(w, T) \in Int
      /\ \A T \in SUBSET S : \A x \in S \ T :
           SumFunctionOnSet(w, T \union {x}) = w[x] + SumFunctionOnSet(w, T)
  BY <1>1, SumAdd
<1>3. /\ SumFunctionOnSet(p, {}) = 0
      /\ \A T \in SUBSET S : SumFunctionOnSet(p, T) \in Int
      /\ \A T \in SUBSET S : \A x \in S \ T :
           SumFunctionOnSet(p, T \union {x}) = p[x] + SumFunctionOnSet(p, T)
  BY <1>1, SumAdd
<1>4. {} \in P
  <2>1. lo * 0 = 0 /\ hi * 0 = 0
    OBVIOUS
  <2> QED BY <1>2, <1>3, <2>1
<1>5. ASSUME NEW T \in SUBSET S, NEW x \in S \ T, T \in P PROVE T \union {x} \in P
  <2> DEFINE sw == SumFunctionOnSet(w, T)
             sp == SumFunctionOnSet(p, T)
  <2>1. /\ SumFunctionOnSet(w, T \union {x}) = w[x] + sw
        /\ SumFunctionOnSet(p, T \union {x}) = p[x] + sp
        /\ sw \in Int /\ sp \in Int /\ w[x] \in Nat /\ v[x] \in Int
        /\ lo * sw <= sp /\ sp <= hi * sw /\ p[x] = v[x] * w[x] /\ lo <= v[x] /\ v[x] <= hi
    BY <1>2, <1>3, <1>5
  <2> HIDE DEF sw, sp
  <2>2. lo * w[x] <= v[x] * w[x] /\ v[x] * w[x] <= hi * w[x]
    BY <2>1
  <2>3. /\ lo * (w[x] + sw) = lo * w[x] + lo * sw
        /\ hi * (w[x] + sw) = hi * w[x] + hi * sw
    BY <2>1, Distribute
  <2>4. /\ lo * w[x] \in Int /\ lo * sw \in Int /\ hi * w[x] \in Int /\ hi * sw \in Int
        /\ p[x] \in Int
    BY <2>1
  <2>5. lo * (w[x] + sw) <= p[x] + sp /\ p[x] + sp <= hi * (w[x] + sw)
    BY <2>1, <2>2, <2>3, <2>4
  <2> QED BY <2>1, <2>5
<1>6. S \in P
  <2> HIDE DEF P
  <2> QED BY <1>4, <1>5, FiniteInduction
<1> QED BY <1>6

\* A sum of naturals is one.
LEMMA SumNat ==
  ASSUME NEW S, IsFiniteSet(S), NEW v, \A x \in S : v[x] \in Nat
  PROVE  SumFunctionOnSet(v, S) \in Nat
<1> DEFINE P == {T \in SUBSET S : SumFunctionOnSet(v, T) \in Nat}
<1>1. \A x \in S : v[x] \in Int
  OBVIOUS
<1>2. /\ SumFunctionOnSet(v, {}) = 0
      /\ \A T \in SUBSET S : \A x \in S \ T :
           SumFunctionOnSet(v, T \union {x}) = v[x] + SumFunctionOnSet(v, T)
  BY <1>1, SumAdd
<1>3. {} \in P
  BY <1>2
<1>4. ASSUME NEW T \in SUBSET S, NEW x \in S \ T, T \in P PROVE T \union {x} \in P
  <2>1. SumFunctionOnSet(v, T \union {x}) = v[x] + SumFunctionOnSet(v, T)
        /\ v[x] \in Nat /\ SumFunctionOnSet(v, T) \in Nat
    BY <1>2, <1>4
  <2> QED BY <2>1
<1>5. S \in P
  <2> HIDE DEF P
  <2> QED BY <1>3, <1>4, FiniteInduction
<1> QED BY <1>5

\* The values of a finite set are finitely many.
LEMMA Image ==
  ASSUME NEW S, IsFiniteSet(S), NEW v
  PROVE  IsFiniteSet({v[x] : x \in S})
<1> DEFINE T == {v[x] : x \in S}
           f == [x \in S |-> v[x]]
<1>1. f \in Surjection(S, T)
  BY DEF Surjection
<1> QED BY <1>1, FS_Surjection

\* The sum of nothing but zeros.
LEMMA SumZero ==
  ASSUME NEW S, IsFiniteSet(S), NEW v, \A x \in S : v[x] = 0
  PROVE  SumFunctionOnSet(v, S) = 0
<1> DEFINE P == {T \in SUBSET S : SumFunctionOnSet(v, T) = 0}
<1>1. \A x \in S : v[x] \in Int
  OBVIOUS
<1>2. /\ SumFunctionOnSet(v, {}) = 0
      /\ \A T \in SUBSET S : \A x \in S \ T :
           SumFunctionOnSet(v, T \union {x}) = v[x] + SumFunctionOnSet(v, T)
  BY <1>1, SumAdd
<1>3. {} \in P
  BY <1>2
<1>4. ASSUME NEW T \in SUBSET S, NEW x \in S \ T, T \in P PROVE T \union {x} \in P
  <2>1. SumFunctionOnSet(v, T \union {x}) = v[x] + SumFunctionOnSet(v, T)
        /\ v[x] = 0 /\ SumFunctionOnSet(v, T) = 0
    BY <1>2, <1>4
  <2> QED BY <2>1
<1>5. S \in P
  <2> HIDE DEF P
  <2> QED BY <1>3, <1>4, FiniteInduction
<1> QED BY <1>5

\* The sum of one value.
LEMMA SumOne ==
  ASSUME NEW x, NEW v, v[x] \in Int
  PROVE  SumFunctionOnSet(v, {x}) = v[x]
<1>1. IsFiniteSet({x})
  BY FS_Singleton
<1>2. \A y \in {x} : v[y] \in Int
  OBVIOUS
<1>3. /\ SumFunctionOnSet(v, {}) = 0
      /\ \A T \in SUBSET {x} : \A y \in {x} \ T :
           SumFunctionOnSet(v, T \union {y}) = v[y] + SumFunctionOnSet(v, T)
  BY <1>1, <1>2, SumAdd
<1>4. SumFunctionOnSet(v, {} \union {x}) = v[x] + SumFunctionOnSet(v, {})
  <2>1. {} \in SUBSET {x} /\ x \in {x} \ {}
    OBVIOUS
  <2> QED BY <1>3, <2>1
<1>5. {} \union {x} = {x}
  OBVIOUS
<1> QED BY <1>3, <1>4, <1>5

\* Two values are finitely many.
LEMMA FinitePair ==
  ASSUME NEW x, NEW y
  PROVE  IsFiniteSet({x, y})
<1>1. IsFiniteSet({x})
  BY FS_Singleton
<1>2. IsFiniteSet({x} \union {y})
  BY <1>1, FS_AddElement
<1>3. {x} \union {y} = {x, y}
  OBVIOUS
<1> QED BY <1>2, <1>3

\* A quotient with its remainder.
LEMMA DivUnique ==
  ASSUME NEW q \in Nat, NEW d \in Nat \ {0}, NEW r \in 0..(d - 1)
  PROVE  (q * d + r) \div d = q
OBVIOUS

-----------------------------------------------------------------------------
(***************************************************************************)
(* Quotients and curves.                                                   *)
(***************************************************************************)
\* Products with a number above zero keep their order.
LEMMA Times ==
  ASSUME NEW k \in Nat \ {0}, NEW x \in Int, NEW y \in Int
  PROVE  x < y <=> k * x < k * y
<1>1. ASSUME x < y PROVE k * x < k * y
  BY <1>1
<1>2. ASSUME x >= y PROVE k * x >= k * y
  BY <1>2
<1>3. k * x \in Int /\ k * y \in Int
  OBVIOUS
<1> QED BY <1>1, <1>2, <1>3

\* A quotient, with a denominator above zero.
IsQuotient(a) == a[1] \in Int /\ a[2] \in Nat \ {0}

\* Their order is transitive.
LEMMA LessTransitive ==
  ASSUME NEW a, NEW b, NEW c, IsQuotient(a), IsQuotient(b), IsQuotient(c), Less(a, b), Less(b, c)
  PROVE  Less(a, c)
<1> DEFINE n1 == a[1]
           d1 == a[2]
           n2 == b[1]
           d2 == b[2]
           n3 == c[1]
           d3 == c[2]
<1>1. /\ n1 \in Int /\ n2 \in Int /\ n3 \in Int
      /\ d1 \in Nat \ {0} /\ d2 \in Nat \ {0} /\ d3 \in Nat \ {0}
      /\ n1 * d2 < n2 * d1 /\ n2 * d3 < n3 * d2
  BY DEF IsQuotient, Less
<1>s. SUFFICES n1 * d3 < n3 * d1
  BY DEF Less
<1> HIDE DEF n1, n2, n3, d1, d2, d3
<1>2. n1 * d2 \in Int /\ n2 * d1 \in Int /\ n2 * d3 \in Int /\ n3 * d2 \in Int
      /\ n1 * d3 \in Int /\ n3 * d1 \in Int
  BY <1>1
<1>3. d3 * (n1 * d2) < d3 * (n2 * d1)
  BY <1>1, <1>2, Times
<1>4. d1 * (n2 * d3) < d1 * (n3 * d2)
  BY <1>1, <1>2, Times
<1>5. d3 * (n2 * d1) = d1 * (n2 * d3)
  BY <1>1
<1>6. d3 * (n1 * d2) = d2 * (n1 * d3) /\ d1 * (n3 * d2) = d2 * (n3 * d1)
  BY <1>1
<1>7. d2 * (n1 * d3) < d2 * (n3 * d1)
  <2>1. /\ d3 * (n1 * d2) \in Int /\ d1 * (n2 * d3) \in Int /\ d1 * (n3 * d2) \in Int
    BY <1>1, <1>2
  <2> QED BY <1>3, <1>4, <1>5, <1>6, <2>1
<1> QED BY <1>1, <1>2, <1>7, Times

\* The member before another, and the second one.
LEMMA BeforeIs ==
  ASSUME NEW D, IsFiniteSet(D), \A a \in D : a \in Int,
         NEW b \in Int, NEW e \in D, e < b
  PROVE  /\ Before(D, b) \in D /\ Before(D, b) < b
         /\ \A a \in D : a < b => a <= Before(D, b)
<1> DEFINE S == {a \in D : a < b}
<1>1. S \in SUBSET Int /\ IsFiniteSet(S) /\ S # {}
  BY FS_Subset
<1>2. Max(S) \in S /\ \A y \in S : Max(S) >= y
  <2> HIDE DEF S
  <2> QED BY <1>1, MinMax
<1>3. Before(D, b) = Max(S)
  BY DEF Before
<1> HIDE DEF Before
<1>4. Before(D, b) \in S /\ \A y \in S : Before(D, b) >= y
  BY <1>2, <1>3
<1> QED BY <1>4

\* The least member and the second one.
LEMMA SecondIs ==
  ASSUME NEW D, IsFiniteSet(D), \A a \in D : a \in Int, Cardinality(D) >= 2
  PROVE  /\ Min(D) \in D /\ Second(D) \in D /\ Min(D) < Second(D)
         /\ \A a \in D : a = Min(D) \/ a >= Second(D)
         /\ \A a \in D : a >= Min(D)
<1>1. D \in SUBSET Int /\ D # {}
  <2>1. D # {}
    BY FS_EmptySet
  <2> QED BY <2>1
<1>2. Min(D) \in D /\ \A y \in D : Min(D) <= y
  BY <1>1, MinMax
<1> DEFINE S == D \ {Min(D)}
<1>3. IsFiniteSet(S) /\ S # {} /\ S \in SUBSET Int
  <2>1. Cardinality(S) = Cardinality(D) - 1 /\ IsFiniteSet(S)
    BY <1>2, FS_RemoveElement, FS_Subset
  <2>2. S # {}
    <3>1. Cardinality(D) \in Nat
      BY FS_CardinalityType
    <3>2. Cardinality(S) # 0
      BY <2>1, <3>1
    <3> HIDE DEF S
    <3> QED BY <3>2, FS_EmptySet
  <2> QED BY <1>1, <2>1, <2>2
<1>4. Min(S) \in S /\ \A y \in S : Min(S) <= y
  <2> HIDE DEF S
  <2> QED BY <1>3, MinMax
<1>5. Second(D) = Min(S)
  BY DEF Second
<1>6. Second(D) \in S /\ \A y \in S : Second(D) <= y
  BY <1>4, <1>5
<1>7. Second(D) \in D /\ Second(D) # Min(D) /\ \A y \in D : y = Min(D) \/ y \in S
  BY <1>6
<1> HIDE DEF S
<1>8. Min(D) < Second(D) /\ (\A a \in D : a >= Min(D)) /\ \A a \in D : a = Min(D) \/ a >= Second(D)
  BY <1>2, <1>6, <1>7
<1> QED BY <1>2, <1>7, <1>8

\* The bin of a value between the least and the greatest.
LEMMA BinInRange ==
  ASSUME NEW lo \in Int, NEW hi \in Int, NEW w \in Int, lo < hi, lo <= w, w <= hi, NEW n \in Nat \ {0}
  PROVE  Bin(w, lo, hi, n) \in 0..(n - 1)
<1> DEFINE q == ((w - lo) * n) \div (hi - lo)
           S == {q, n - 1}
<1>1. q \in Nat
  <2>1. (w - lo) * n \in Nat
    <3>1. w - lo \in Nat /\ n \in Nat
      OBVIOUS
    <3> QED BY <3>1
  <2>2. hi - lo \in Nat \ {0}
    OBVIOUS
  <2> QED BY <2>1, <2>2
<1> HIDE DEF q
<1>2. S \in SUBSET Int /\ IsFiniteSet(S) /\ S # {}
  <2>1. IsFiniteSet({q}) /\ S = {q} \union {n - 1}
    BY FS_Singleton
  <2>2. IsFiniteSet(S)
    BY <2>1, FS_AddElement
  <2> QED BY <1>1, <2>2
<1>3. Min(S) \in S /\ \A y \in S : Min(S) <= y
  <2> HIDE DEF S
  <2> QED BY <1>2, MinMax
<1>4. Bin(w, lo, hi, n) = Min(S)
  BY DEF Bin, q
<1>5. Min(S) = q \/ Min(S) = n - 1
  BY <1>3
<1>6. Min(S) <= n - 1
  BY <1>3
<1> HIDE DEF S
<1> QED BY <1>1, <1>4, <1>5, <1>6

\* The bins of a curve and their ROP.
IsCurve(c) ==
  /\ IsFiniteSet(DOMAIN c)
  /\ \A b \in DOMAIN c : b \in Nat /\ IsQuotient(c[b].rop)

\* A step of a rising curve that has not fallen gains ROP.
LEMMA StepUp ==
  ASSUME NEW c, IsCurve(c), Rises(c),
         NEW b \in DOMAIN c, b # Min(DOMAIN c), b \notin Fallen(c)
  PROVE  Less(c[Before(DOMAIN c, b)].rop, c[b].rop)
<1> DEFINE D == DOMAIN c
           f == Min(D)
           s == Second(D)
           a == Before(D, b)
<1>1. /\ IsFiniteSet(D) /\ (\A x \in D : x \in Int) /\ Cardinality(D) >= 2
      /\ \A x \in D : x \in Nat /\ IsQuotient(c[x].rop)
  BY DEF IsCurve, Rises
<1>2. f \in D /\ s \in D /\ f < s /\ b >= s /\ f < b /\ (\A x \in D : x = f \/ x >= s)
  <2> HIDE DEF D
  <2>1. /\ Min(D) \in D /\ Second(D) \in D /\ Min(D) < Second(D)
        /\ \A x \in D : x = Min(D) \/ x >= Second(D)
        /\ \A x \in D : x >= Min(D)
    BY <1>1, SecondIs
  <2>2. b \in D /\ b # f
    BY DEF D
  <2> QED BY <1>1, <2>1, <2>2
<1>3. a \in D /\ a < b /\ \A x \in D : x < b => x <= a
  <2> HIDE DEF D
  <2>2. b \in D
    BY DEF D
  <2> QED BY <1>1, <1>2, <2>2, BeforeIs
<1>4. CurveSlope(f, s, c)[1] > 0
  BY DEF Rises
<1>5. ASSUME NEW x \in D, NEW y \in D, CurveSlope(x, y, c)[1] > 0
      PROVE  Less(c[x].rop, c[y].rop)
  <2> DEFINE p == c[x].rop
             q == c[y].rop
  <2>1. q[1] * p[2] - p[1] * q[2] > 0
    BY <1>5 DEF CurveSlope
  <2>2. q[1] * p[2] \in Int /\ p[1] * q[2] \in Int
    <3>1. IsQuotient(p) /\ IsQuotient(q)
      BY <1>1
    <3> HIDE DEF p, q
    <3> QED BY <3>1 DEF IsQuotient
  <2> HIDE DEF p, q
  <2>3. Less(p, q)
    BY <2>1, <2>2 DEF Less
  <2> QED BY <2>3 DEF p, q
<1>6. ASSUME NEW x \in D, NEW y \in D, x < y
      PROVE  IsQuotient(CurveSlope(x, y, c))
  <2> DEFINE p == c[x].rop
             q == c[y].rop
  <2>1. IsQuotient(p) /\ IsQuotient(q) /\ y - x \in Nat \ {0}
    BY <1>1, <1>6
  <2>2. CurveSlope(x, y, c) = <<q[1] * p[2] - p[1] * q[2], p[2] * q[2] * (y - x)>>
    BY DEF CurveSlope
  <2> HIDE DEF p, q
  <2>3. p[2] * q[2] \in Nat \ {0} /\ q[1] * p[2] - p[1] * q[2] \in Int
    BY <2>1 DEF IsQuotient
  <2>4. p[2] * q[2] * (y - x) \in Nat \ {0}
    BY <2>1, <2>3
  <2> QED BY <2>2, <2>3, <2>4 DEF IsQuotient
<1>7. CASE b = s
  <2>1. a = f
    BY <1>1, <1>2, <1>3, <1>7
  <2>2. Less(c[f].rop, c[s].rop)
    BY <1>2, <1>4, <1>5
  <2> QED BY <1>7, <2>1, <2>2
<1>8. CASE b # s
  <2>1. ~Less(CurveSlope(a, b, c), Share(Threshold, CurveSlope(f, s, c)))
    <3>1. b > s
      BY <1>1, <1>2, <1>8
    <3> QED BY <3>1 DEF Fallen
  <2> DEFINE z == CurveSlope(a, b, c)
             y == CurveSlope(f, s, c)
  <2>2. IsQuotient(z) /\ IsQuotient(y) /\ y[1] > 0
    <3>1. b \in D
      OBVIOUS
    <3> HIDE DEF D, a, f, s
    <3> QED BY <1>2, <1>3, <1>4, <1>6, <3>1
  <2>3. ~(z[1] * (Threshold[2] * y[2]) < (Threshold[1] * y[1]) * z[2])
    BY <2>1 DEF Less, Share
  <2> HIDE DEF z, y
  <2>4. z[1] > 0
    <3>1. Threshold[1] \in Nat \ {0} /\ Threshold[2] \in Nat \ {0}
      BY ThresholdAssumption
    <3>2. z[1] \in Int /\ z[2] \in Nat \ {0} /\ y[1] \in Nat \ {0} /\ y[2] \in Nat \ {0}
      BY <2>2 DEF IsQuotient
    <3>3. Threshold[2] * y[2] \in Nat \ {0} /\ Threshold[1] * y[1] \in Nat \ {0}
      BY <3>1, <3>2
    <3>4. (Threshold[1] * y[1]) * z[2] \in Nat \ {0}
      BY <3>2, <3>3
    <3>5. ASSUME z[1] <= 0 PROVE z[1] * (Threshold[2] * y[2]) <= 0
      BY <3>2, <3>3, <3>5
    <3>6. z[1] * (Threshold[2] * y[2]) \in Int
      BY <3>2, <3>3
    <3> QED BY <2>3, <3>2, <3>4, <3>5, <3>6
  <2> QED BY <1>3, <1>5, <2>4 DEF z
<1> QED BY <1>7, <1>8

\* Where no step up to a bin has fallen, no lower bin is as fast.
LEMMA Fastest ==
  ASSUME NEW c, IsCurve(c), Rises(c), NEW o \in DOMAIN c,
         \A x \in DOMAIN c : x <= o => x \notin Fallen(c)
  PROVE  \A b \in DOMAIN c : b < o => Less(c[b].rop, c[o].rop)
<1> SUFFICES ASSUME ~ \A b \in DOMAIN c : b < o => Less(c[b].rop, c[o].rop) PROVE FALSE
  OBVIOUS
<1> DEFINE D == DOMAIN c
           X == {b \in D : b < o /\ ~Less(c[b].rop, c[o].rop)}
           m == Max(X)
           N == {x \in D : x > m}
           n == Min(N)
<1>1. IsFiniteSet(D) /\ (\A x \in D : x \in Int /\ IsQuotient(c[x].rop)) /\ o \in D
  BY DEF IsCurve
<1>2. /\ m \in D /\ m < o /\ ~Less(c[m].rop, c[o].rop) /\ \A y \in X : m >= y
  <2>1. X \in SUBSET Int /\ X # {} /\ IsFiniteSet(X)
    BY <1>1, FS_Subset
  <2>2. m \in X /\ \A y \in X : m >= y
    <3> HIDE DEF X
    <3> QED BY <2>1, MinMax
  <2> HIDE DEF m
  <2> QED BY <2>2
<1>3. /\ n \in D /\ n > m /\ n <= o /\ \A y \in D : y > m => n <= y
  <2> HIDE DEF m
  <2>1. N \in SUBSET Int /\ IsFiniteSet(N) /\ o \in N
    BY <1>1, <1>2, FS_Subset
  <2>2. n \in N /\ \A y \in N : n <= y
    <3> HIDE DEF N
    <3> QED BY <2>1, MinMax
  <2> HIDE DEF n
  <2> QED BY <2>1, <2>2
<1> HIDE DEF m, n
<1>4. Before(D, n) = m
  <2> HIDE DEF D
  <2>1. /\ Before(D, n) \in D /\ Before(D, n) < n
        /\ \A a \in D : a < n => a <= Before(D, n)
    BY <1>1, <1>2, <1>3, BeforeIs
  <2>2. ~(Before(D, n) > m)
    BY <1>1, <1>2, <1>3, <2>1
  <2> QED BY <1>1, <1>2, <1>3, <2>1, <2>2
<1>5. Less(c[m].rop, c[n].rop)
  <2>1. n # Min(D)
    <3> HIDE DEF D
    <3>1. D \in SUBSET Int /\ D # {}
      BY <1>1
    <3>2. \A y \in D : Min(D) <= y
      BY <1>1, <3>1, MinMax
    <3> QED BY <1>1, <1>2, <1>3, <3>2
  <2>2. n \notin Fallen(c)
    BY <1>3
  <2> QED BY <1>3, <1>4, <2>1, <2>2, StepUp
<1>6. CASE n = o
  BY <1>2, <1>5, <1>6
<1>7. CASE n # o
  <2>1. n < o
    BY <1>1, <1>3, <1>7
  <2>2. Less(c[n].rop, c[o].rop)
    BY <1>1, <1>2, <1>3, <2>1
  <2>3. Less(c[m].rop, c[o].rop)
    BY <1>1, <1>2, <1>3, <1>5, <2>2, LessTransitive
  <2> QED BY <1>2, <2>3
<1> QED BY <1>6, <1>7

-----------------------------------------------------------------------------
(***************************************************************************)
(* Order statistics.                                                       *)
(***************************************************************************)
\* A finite list of integers, and those of it below one.
IsList(v) == IsFiniteSet(DOMAIN v) /\ \A i \in DOMAIN v : v[i] \in Int
Below(v, x) == {i \in DOMAIN v : v[i] < x}

\* How many values are below one, and at or below it.
LEMMA Counts ==
  ASSUME NEW v, IsList(v), NEW x \in Int
  PROVE  /\ IsFiniteSet(Below(v, x)) /\ IsFiniteSet(AtOrBelow(v, x))
         /\ Cardinality(Below(v, x)) \in Nat /\ Cardinality(AtOrBelow(v, x)) \in Nat
         /\ Cardinality(DOMAIN v) \in Nat
         /\ Cardinality(AtOrBelow(v, x)) <= Cardinality(DOMAIN v)
         /\ Cardinality(Below(v, x)) <= Cardinality(AtOrBelow(v, x))
<1>1. IsFiniteSet(DOMAIN v)
  BY DEF IsList
<1>2. AtOrBelow(v, x) \subseteq DOMAIN v /\ Below(v, x) \subseteq AtOrBelow(v, x)
  BY DEF AtOrBelow, Below, IsList
<1>3. IsFiniteSet(AtOrBelow(v, x)) /\ Cardinality(AtOrBelow(v, x)) <= Cardinality(DOMAIN v)
  BY <1>1, <1>2, FS_Subset
<1>4. /\ IsFiniteSet(Below(v, x))
      /\ Cardinality(Below(v, x)) <= Cardinality(AtOrBelow(v, x))
  BY <1>2, <1>3, FS_Subset
<1> QED BY <1>1, <1>3, <1>4, FS_CardinalityType

\* Fewer are at or below a value than below a larger one.
LEMMA CountsGrow ==
  ASSUME NEW v, IsList(v), NEW x \in Int, NEW y \in Int, x < y
  PROVE  Cardinality(AtOrBelow(v, x)) <= Cardinality(Below(v, y))
<1>1. AtOrBelow(v, x) \subseteq Below(v, y)
  BY DEF AtOrBelow, Below, IsList
<1>2. IsFiniteSet(Below(v, y))
  BY Counts
<1> QED BY <1>1, <1>2, FS_Subset

\* The k-th value: fewer than k are below it, and k at or below it.
IsKth(v, k, x) ==
  /\ \E i \in DOMAIN v : v[i] = x
  /\ Cardinality(Below(v, x)) < k /\ k <= Cardinality(AtOrBelow(v, x))

\* Sorted finds the k-th value.
LEMMA SortedIsKth ==
  ASSUME NEW v, IsList(v), NEW k \in 1..Cardinality(DOMAIN v)
  PROVE  Sorted(v, k) \in Int /\ IsKth(v, k, Sorted(v, k))
<1> DEFINE D == DOMAIN v
           I == {i \in D : Cardinality(AtOrBelow(v, v[i])) >= k}
           S == {v[i] : i \in I}
<1>0. IsFiniteSet(D) /\ (\A i \in D : v[i] \in Int) /\ D # {} /\ k \in Nat \ {0}
  <2>1. IsFiniteSet(D) /\ \A i \in D : v[i] \in Int
    BY DEF IsList
  <2>2. Cardinality(D) \in Nat
    BY <2>1, FS_CardinalityType
  <2>3. D # {}
    <3>1. Cardinality(D) # 0
      BY <2>2
    <3> HIDE DEF D
    <3> QED BY <3>1, FS_EmptySet
  <2> QED BY <2>1, <2>2, <2>3
<1>1. \A E \in SUBSET D : IsFiniteSet({v[i] : i \in E})
  <2> TAKE E \in SUBSET D
  <2>1. IsFiniteSet(E)
    BY <1>0, FS_Subset
  <2> QED BY <2>1, Image
<1>2. I # {}
  <2> DEFINE A == {v[i] : i \in D}
  <2>1. A \in SUBSET Int /\ A # {} /\ IsFiniteSet(A)
    BY <1>0, <1>1
  <2>2. Max(A) \in A /\ \A y \in A : Max(A) >= y
    <3> HIDE DEF A
    <3> QED BY <2>1, MinMax
  <2>3. PICK i \in D : v[i] = Max(A)
    BY <2>2
  <2>4. AtOrBelow(v, v[i]) = D
    <3>1. \A j \in D : v[j] <= v[i]
      BY <1>0, <2>2, <2>3
    <3> QED BY <3>1 DEF AtOrBelow
  <2> QED BY <2>3, <2>4
<1>3. S \in SUBSET Int /\ S # {} /\ IsFiniteSet(S)
  BY <1>0, <1>1, <1>2
<1>4. Min(S) \in S /\ \A y \in S : Min(S) <= y
  <2> HIDE DEF S
  <2> QED BY <1>3, MinMax
<1> DEFINE x == Sorted(v, k)
<1>5. x \in S /\ \A y \in S : x <= y
  BY <1>4 DEF Sorted
<1> HIDE DEF x
<1>6. (\E i \in D : v[i] = x) /\ x \in Int /\ Cardinality(AtOrBelow(v, x)) >= k
  BY <1>0, <1>5
<1>7. Cardinality(Below(v, x)) < k
  <2> DEFINE L == Below(v, x)
             B == {v[i] : i \in L}
  <2>1. CASE L = {}
    <3>1. Cardinality(L) = 0
      BY <2>1, FS_EmptySet
    <3> QED BY <1>0, <3>1
  <2>2. CASE L # {}
    <3>1. L \subseteq D /\ \A i \in L : v[i] < x
      BY DEF Below
    <3>2. B \in SUBSET Int /\ B # {} /\ IsFiniteSet(B)
      <4> HIDE DEF L
      <4> QED BY <1>0, <1>1, <2>2, <3>1
    <3>3. Max(B) \in B /\ \A y \in B : Max(B) >= y
      <4> HIDE DEF B
      <4> QED BY <3>2, MinMax
    <3>4. PICK i \in L : v[i] = Max(B)
      BY <3>3
    <3>5. AtOrBelow(v, v[i]) = L
      <4>1. \A j \in D : v[j] <= v[i] <=> v[j] < x
        <5> TAKE j \in D
        <5>1. v[i] < x /\ v[i] \in Int /\ v[j] \in Int
          BY <1>0, <3>1, <3>4
        <5>2. v[j] < x => v[j] <= v[i]
          BY <3>3, <3>4 DEF Below
        <5> QED BY <1>6, <5>1, <5>2
      <4> QED BY <4>1 DEF AtOrBelow, Below
    <3>6. i \in D /\ v[i] < x
      BY <3>1, <3>4
    <3>7. i \notin I
      <4>1. ASSUME i \in I PROVE FALSE
        <5>1. x <= v[i]
          BY <1>5, <4>1
        <5> QED BY <1>0, <1>6, <3>6, <5>1
      <4> QED BY <4>1
    <3>8. ~(Cardinality(L) >= k)
      BY <3>5, <3>6, <3>7
    <3>9. Cardinality(L) \in Nat
      BY <1>6, Counts
    <3> QED BY <1>0, <3>8, <3>9
  <2> QED BY <2>1, <2>2
<1> QED BY <1>6, <1>7 DEF IsKth, x

\* There is one k-th value.
LEMMA KthIsSorted ==
  ASSUME NEW v, IsList(v), NEW k \in 1..Cardinality(DOMAIN v), NEW x \in Int, IsKth(v, k, x)
  PROVE  Sorted(v, k) = x
<1> DEFINE y == Sorted(v, k)
<1>1. y \in Int /\ IsKth(v, k, y)
  BY SortedIsKth
<1>2. k \in Int
  BY Counts
<1> HIDE DEF y
<1>3. \A a, b \in Int : IsKth(v, k, a) /\ IsKth(v, k, b) => ~(a < b)
  <2> SUFFICES ASSUME NEW a \in Int, NEW b \in Int, IsKth(v, k, a), IsKth(v, k, b), a < b
               PROVE  FALSE
    OBVIOUS
  <2>1. Cardinality(AtOrBelow(v, a)) <= Cardinality(Below(v, b))
    BY CountsGrow
  <2>2. k <= Cardinality(AtOrBelow(v, a)) /\ Cardinality(Below(v, b)) < k
    BY DEF IsKth
  <2>3. Cardinality(AtOrBelow(v, a)) \in Nat /\ Cardinality(Below(v, b)) \in Nat
    BY Counts
  <2> QED BY <1>2, <2>1, <2>2, <2>3
<1>4. ~(x < y) /\ ~(y < x)
  BY <1>1, <1>3
<1>5. x = y
  BY <1>1, <1>4
<1> QED BY <1>5 DEF y

\* The k-th values ascend.
LEMMA SortedAscends ==
  ASSUME NEW v, IsList(v), NEW k \in 1..Cardinality(DOMAIN v), NEW l \in 1..Cardinality(DOMAIN v),
         k <= l
  PROVE  Sorted(v, k) <= Sorted(v, l)
<1> DEFINE x == Sorted(v, k)
           y == Sorted(v, l)
<1>1. x \in Int /\ y \in Int /\ IsKth(v, k, x) /\ IsKth(v, l, y)
  BY SortedIsKth
<1>2. k \in Int /\ l \in Int
  BY Counts
<1> HIDE DEF x, y
<1>3. ASSUME y < x PROVE FALSE
  <2>1. Cardinality(AtOrBelow(v, y)) <= Cardinality(Below(v, x))
    BY <1>1, <1>3, CountsGrow
  <2>2. Cardinality(Below(v, x)) < k /\ l <= Cardinality(AtOrBelow(v, y))
    BY <1>1 DEF IsKth
  <2>3. Cardinality(AtOrBelow(v, y)) \in Nat /\ Cardinality(Below(v, x)) \in Nat
    BY <1>1, Counts
  <2> QED BY <1>2, <2>1, <2>2, <2>3
<1>4. x <= y
  BY <1>1, <1>3
<1> QED BY <1>4 DEF x, y

\* A list turned around in M.
Mirror(v, M) == [i \in DOMAIN v |-> M - v[i]]

\* It is a list again.
LEMMA MirrorIsList ==
  ASSUME NEW v, IsList(v), NEW M \in Int
  PROVE  IsList(Mirror(v, M)) /\ DOMAIN Mirror(v, M) = DOMAIN v
BY DEF IsList, Mirror

\* Its values come in the reverse order.
LEMMA SortedMirror ==
  ASSUME NEW v, IsList(v), NEW M \in Int, NEW w, w = Mirror(v, M),
         NEW n, n = Cardinality(DOMAIN v), NEW k \in 1..n
  PROVE  Sorted(w, k) = M - Sorted(v, n + 1 - k)
<1>0. IsList(w) /\ DOMAIN w = DOMAIN v /\ n \in Nat
      /\ (\A i \in DOMAIN v : w[i] = M - v[i] /\ v[i] \in Int)
  BY MirrorIsList, FS_CardinalityType DEF Mirror, IsList
<1> DEFINE l == n + 1 - k
           x == Sorted(v, l)
           y == M - x
<1>1. l \in 1..n
  BY <1>0
<1>2. x \in Int /\ IsKth(v, l, x)
  BY <1>1, SortedIsKth
<1> HIDE DEF x
<1>3. y \in Int
  BY <1>2
<1>4. AtOrBelow(w, y) = DOMAIN v \ Below(v, x)
  <2>1. \A i \in DOMAIN v : w[i] <= y <=> ~(v[i] < x)
    BY <1>0, <1>2
  <2> QED BY <1>0, <2>1 DEF AtOrBelow, Below
<1>5. Below(w, y) = DOMAIN v \ AtOrBelow(v, x)
  <2>1. \A i \in DOMAIN v : w[i] < y <=> ~(v[i] <= x)
    BY <1>0, <1>2
  <2> QED BY <1>0, <2>1 DEF AtOrBelow, Below
<1>6. /\ Cardinality(AtOrBelow(w, y)) = n - Cardinality(Below(v, x))
      /\ Cardinality(Below(w, y)) = n - Cardinality(AtOrBelow(v, x))
  <2>1. \A T \in SUBSET DOMAIN v : Cardinality(DOMAIN v \ T) = n - Cardinality(T)
    <3> TAKE T \in SUBSET DOMAIN v
    <3>1. IsFiniteSet(DOMAIN v)
      BY DEF IsList
    <3>2. IsFiniteSet(T)
      BY <3>1, FS_Subset
    <3>3. Cardinality(DOMAIN v \ T) = Cardinality(DOMAIN v) - Cardinality(DOMAIN v \intersect T)
      BY <3>1, <3>2, FS_Difference
    <3>4. DOMAIN v \intersect T = T
      OBVIOUS
    <3> QED BY <3>3, <3>4
  <2>2. Below(v, x) \in SUBSET DOMAIN v /\ AtOrBelow(v, x) \in SUBSET DOMAIN v
    BY DEF Below, AtOrBelow
  <2> QED BY <1>4, <1>5, <2>1, <2>2
<1>7. IsKth(w, k, y)
  <2>1. /\ Cardinality(Below(v, x)) \in Nat /\ Cardinality(AtOrBelow(v, x)) \in Nat
    BY <1>2, Counts
  <2>2. Cardinality(Below(v, x)) < l /\ l <= Cardinality(AtOrBelow(v, x))
    BY <1>2 DEF IsKth
  <2>3. Cardinality(Below(w, y)) < k /\ k <= Cardinality(AtOrBelow(w, y))
    BY <1>0, <1>6, <2>1, <2>2
  <2>4. \E i \in DOMAIN w : w[i] = y
    <3>1. PICK i \in DOMAIN v : v[i] = x
      BY <1>2 DEF IsKth
    <3> QED BY <1>0, <3>1
  <2> QED BY <2>3, <2>4 DEF IsKth
<1> HIDE DEF y
<1>8. Sorted(w, k) = y
  BY <1>0, <1>3, <1>7, KthIsSorted
<1> QED BY <1>8 DEF y, x

\* The places that the quartiles are read at.
LEMMA Places ==
  ASSUME NEW n \in Nat \ {0}
  PROVE  \E a \in Nat, r \in 0..3 :
           /\ n = 4 * a + r + 1
           /\ ((n - 1) * 1) \div 4 = a /\ ((n - 1) * 1) % 4 = r
           /\ ((n - 1) * 3) \div 4 = 3 * a + (IF r = 0 THEN 0 ELSE r - 1)
           /\ ((n - 1) * 3) % 4 = IF r = 0 THEN 0 ELSE 4 - r
<1> DEFINE a == (n - 1) \div 4
           r == (n - 1) % 4
<1>1. a \in Nat /\ r \in 0..3 /\ n = 4 * a + r + 1
  OBVIOUS
<1>2. (n - 1) * 1 = n - 1
  OBVIOUS
<1> HIDE DEF a, r
<1>3. r = 0 \/ r = 1 \/ r = 2 \/ r = 3
  BY <1>1
<1>4. /\ ((n - 1) * 3) \div 4 = 3 * a + (IF r = 0 THEN 0 ELSE r - 1)
      /\ ((n - 1) * 3) % 4 = IF r = 0 THEN 0 ELSE 4 - r
  BY <1>1, <1>3
<1>5. (n - 1) \div 4 = a /\ (n - 1) % 4 = r
  BY DEF a, r
<1> QED BY <1>1, <1>2, <1>4, <1>5

\* The quartiles, by the remainder.
LEMMA Quartiles ==
  ASSUME NEW v, IsList(v), DOMAIN v # {}
  PROVE  \E a \in Nat, r \in 0..3 :
           /\ Cardinality(DOMAIN v) = 4 * a + r + 1
           /\ Quantile4(v, 1) = IF r = 0 THEN 4 * Sorted(v, a + 1)
                ELSE 4 * Sorted(v, a + 1) + r * (Sorted(v, a + 2) - Sorted(v, a + 1))
           /\ Quantile4(v, 3) = IF r = 0 THEN 4 * Sorted(v, 3 * a + 1)
                ELSE 4 * Sorted(v, 3 * a + r)
                     + (4 - r) * (Sorted(v, 3 * a + r + 1) - Sorted(v, 3 * a + r))
<1> DEFINE n == Cardinality(DOMAIN v)
<1>1. n \in Nat \ {0}
  <2>1. IsFiniteSet(DOMAIN v)
    BY DEF IsList
  <2> QED BY <2>1, FS_EmptySet, FS_CardinalityType
<1> HIDE DEF n
<1>2. PICK a \in Nat, r \in 0..3 :
           /\ n = 4 * a + r + 1
           /\ ((n - 1) * 1) \div 4 = a /\ ((n - 1) * 1) % 4 = r
           /\ ((n - 1) * 3) \div 4 = 3 * a + (IF r = 0 THEN 0 ELSE r - 1)
           /\ ((n - 1) * 3) % 4 = IF r = 0 THEN 0 ELSE 4 - r
  BY <1>1, Places
<1>3. \A k : Quantile4(v, k) =
        IF ((n - 1) * k) % 4 = 0 THEN 4 * Sorted(v, ((n - 1) * k) \div 4 + 1)
        ELSE 4 * Sorted(v, ((n - 1) * k) \div 4 + 1)
             + (((n - 1) * k) % 4) * (Sorted(v, ((n - 1) * k) \div 4 + 1 + 1)
                                      - Sorted(v, ((n - 1) * k) \div 4 + 1))
  BY DEF Quantile4, n
<1>4. Quantile4(v, 1) = IF r = 0 THEN 4 * Sorted(v, a + 1)
        ELSE 4 * Sorted(v, a + 1) + r * (Sorted(v, a + 2) - Sorted(v, a + 1))
  <2>1. a + 1 + 1 = a + 2
    OBVIOUS
  <2> QED BY <1>2, <1>3, <2>1
<1>5. CASE r = 0
  <2>1. Quantile4(v, 3) = 4 * Sorted(v, 3 * a + 1)
    <3>1. 3 * a + 0 + 1 = 3 * a + 1
      OBVIOUS
    <3> QED BY <1>2, <1>3, <1>5, <3>1
  <2> QED BY <1>2, <1>4, <1>5, <2>1 DEF n
<1>6. CASE r # 0
  <2>1. Quantile4(v, 3) = 4 * Sorted(v, 3 * a + r)
                     + (4 - r) * (Sorted(v, 3 * a + r + 1) - Sorted(v, 3 * a + r))
    <3>1. 3 * a + (r - 1) + 1 = 3 * a + r /\ 4 - r # 0
      OBVIOUS
    <3> QED BY <1>2, <1>3, <1>6, <3>1
  <2> QED BY <1>2, <1>4, <1>6, <2>1 DEF n
<1> QED BY <1>5, <1>6

\* Turned around, the quartiles change places.
LEMMA QuartilesMirror ==
  ASSUME NEW v, IsList(v), DOMAIN v # {}, NEW M \in Int, NEW w, w = Mirror(v, M)
  PROVE  /\ Quantile4(w, 1) = 4 * M - Quantile4(v, 3)
         /\ Quantile4(w, 3) = 4 * M - Quantile4(v, 1)
         /\ Quantile4(v, 1) \in Int /\ Quantile4(v, 3) \in Int
<1>0. IsList(w) /\ DOMAIN w = DOMAIN v
  BY MirrorIsList
<1> DEFINE n == Cardinality(DOMAIN v)
<1>1. PICK a \in Nat, r \in 0..3 :
           /\ n = 4 * a + r + 1
           /\ Quantile4(v, 1) = IF r = 0 THEN 4 * Sorted(v, a + 1)
                ELSE 4 * Sorted(v, a + 1) + r * (Sorted(v, a + 2) - Sorted(v, a + 1))
           /\ Quantile4(v, 3) = IF r = 0 THEN 4 * Sorted(v, 3 * a + 1)
                ELSE 4 * Sorted(v, 3 * a + r)
                     + (4 - r) * (Sorted(v, 3 * a + r + 1) - Sorted(v, 3 * a + r))
  BY Quartiles
<1>2. PICK b \in Nat, s \in 0..3 :
           /\ n = 4 * b + s + 1
           /\ Quantile4(w, 1) = IF s = 0 THEN 4 * Sorted(w, b + 1)
                ELSE 4 * Sorted(w, b + 1) + s * (Sorted(w, b + 2) - Sorted(w, b + 1))
           /\ Quantile4(w, 3) = IF s = 0 THEN 4 * Sorted(w, 3 * b + 1)
                ELSE 4 * Sorted(w, 3 * b + s)
                     + (4 - s) * (Sorted(w, 3 * b + s + 1) - Sorted(w, 3 * b + s))
  BY <1>0, Quartiles
<1>3. \A k \in 1..n : Sorted(v, k) \in Int /\ Sorted(w, k) = M - Sorted(v, n + 1 - k)
  BY SortedIsKth, SortedMirror
<1> HIDE DEF n
<1>4. a = b /\ r = s
  BY <1>1, <1>2
<1>5. CASE r = 0
  <2>1. /\ a + 1 \in 1..n /\ 3 * a + 1 \in 1..n
        /\ n + 1 - (a + 1) = 3 * a + 1 /\ n + 1 - (3 * a + 1) = a + 1
    BY <1>1, <1>5
  <2>2. /\ Sorted(w, a + 1) = M - Sorted(v, 3 * a + 1) /\ Sorted(v, 3 * a + 1) \in Int
        /\ Sorted(w, 3 * a + 1) = M - Sorted(v, a + 1) /\ Sorted(v, a + 1) \in Int
    BY <1>3, <2>1
  <2> QED BY <1>1, <1>2, <1>4, <1>5, <2>2
<1>6. CASE r # 0
  <2>1. /\ a + 1 \in 1..n /\ a + 2 \in 1..n /\ 3 * a + r \in 1..n /\ 3 * a + r + 1 \in 1..n
        /\ n + 1 - (a + 1) = 3 * a + r + 1 /\ n + 1 - (a + 2) = 3 * a + r
        /\ n + 1 - (3 * a + r) = a + 2 /\ n + 1 - (3 * a + r + 1) = a + 1
    BY <1>1, <1>6
  <2> DEFINE p == Sorted(v, a + 1)
             q == Sorted(v, a + 2)
             y == Sorted(v, 3 * a + r)
             z == Sorted(v, 3 * a + r + 1)
  <2>2. /\ Sorted(w, a + 1) = M - z /\ z \in Int
        /\ Sorted(w, a + 2) = M - y /\ y \in Int
        /\ Sorted(w, 3 * a + r) = M - q /\ q \in Int
        /\ Sorted(w, 3 * a + r + 1) = M - p /\ p \in Int
    BY <1>3, <2>1
  <2>3. /\ Quantile4(v, 1) = 4 * p + r * (q - p)
        /\ Quantile4(v, 3) = 4 * y + (4 - r) * (z - y)
    BY <1>1, <1>6
  <2>4. /\ Quantile4(w, 1) = 4 * Sorted(w, a + 1) + r * (Sorted(w, a + 2) - Sorted(w, a + 1))
        /\ Quantile4(w, 3) = 4 * Sorted(w, 3 * a + r)
                     + (4 - r) * (Sorted(w, 3 * a + r + 1) - Sorted(w, 3 * a + r))
    BY <1>2, <1>4, <1>6
  <2> HIDE DEF p, q, y, z
  <2>5. /\ Quantile4(w, 1) = 4 * (M - z) + r * ((M - y) - (M - z))
        /\ Quantile4(w, 3) = 4 * (M - q) + (4 - r) * ((M - p) - (M - q))
    BY <2>2, <2>4
  <2>6. r = 1 \/ r = 2 \/ r = 3
    BY <1>6
  <2> QED BY <2>2, <2>3, <2>5, <2>6
<1> QED BY <1>5, <1>6

\* Turned around, the fence is turned around.
LEMMA FenceMirror ==
  ASSUME NEW v, IsList(v), DOMAIN v # {}, NEW M \in Int, NEW w, w = Mirror(v, M)
  PROVE  /\ IqrFence8(w).lo = 8 * M - IqrFence8(v).hi
         /\ IqrFence8(w).hi = 8 * M - IqrFence8(v).lo
         /\ IqrFence8(v).lo \in Int /\ IqrFence8(v).hi \in Int
<1> DEFINE q1 == Quantile4(v, 1)
           q3 == Quantile4(v, 3)
           u1 == Quantile4(w, 1)
           u3 == Quantile4(w, 3)
<1>1. u1 = 4 * M - q3 /\ u3 = 4 * M - q1 /\ q1 \in Int /\ q3 \in Int
  BY QuartilesMirror
<1>2. /\ IqrFence8(v).lo = 2 * q1 - 3 * (q3 - q1) /\ IqrFence8(v).hi = 2 * q3 + 3 * (q3 - q1)
      /\ IqrFence8(w).lo = 2 * u1 - 3 * (u3 - u1) /\ IqrFence8(w).hi = 2 * u3 + 3 * (u3 - u1)
  BY DEF IqrFence8
<1> HIDE DEF q1, q3, u1, u3
<1> QED BY <1>1, <1>2

\* Below the fence is the lowest quarter.
LEMMA BelowFence ==
  ASSUME NEW v, IsList(v), Cardinality(DOMAIN v) >= 4, NEW x \in Int, 8 * x < IqrFence8(v).lo
  PROVE  4 * Cardinality(AtOrBelow(v, x)) <= Cardinality(DOMAIN v)
<1> DEFINE n == Cardinality(DOMAIN v)
<1>0. DOMAIN v # {}
  BY FS_EmptySet
<1>1. PICK a \in Nat, r \in 0..3 :
           /\ n = 4 * a + r + 1
           /\ Quantile4(v, 1) = IF r = 0 THEN 4 * Sorted(v, a + 1)
                ELSE 4 * Sorted(v, a + 1) + r * (Sorted(v, a + 2) - Sorted(v, a + 1))
           /\ Quantile4(v, 3) = IF r = 0 THEN 4 * Sorted(v, 3 * a + 1)
                ELSE 4 * Sorted(v, 3 * a + r)
                     + (4 - r) * (Sorted(v, 3 * a + r + 1) - Sorted(v, 3 * a + r))
  BY <1>0, Quartiles
<1>2. 8 * x < 2 * Quantile4(v, 1) - 3 * (Quantile4(v, 3) - Quantile4(v, 1))
  BY DEF IqrFence8
<1>3. \A k \in 1..n : Sorted(v, k) \in Int
  BY SortedIsKth
<1>4. \A k, l \in 1..n : k <= l => Sorted(v, k) <= Sorted(v, l)
  BY SortedAscends
<1>5. \A k \in 1..n : x < Sorted(v, k) => Cardinality(AtOrBelow(v, x)) < k
  <2> SUFFICES ASSUME NEW k \in 1..n, x < Sorted(v, k) PROVE Cardinality(AtOrBelow(v, x)) < k
    OBVIOUS
  <2>1. Cardinality(AtOrBelow(v, x)) <= Cardinality(Below(v, Sorted(v, k)))
    BY <1>3, CountsGrow
  <2>2. Cardinality(Below(v, Sorted(v, k))) < k
    BY SortedIsKth DEF IsKth
  <2>3. Cardinality(AtOrBelow(v, x)) \in Nat /\ Cardinality(Below(v, Sorted(v, k))) \in Nat /\ k \in Int
    BY <1>3, Counts
  <2> QED BY <2>1, <2>2, <2>3
<1>6. Cardinality(AtOrBelow(v, x)) \in Nat /\ n \in Nat /\ n >= 4
  BY Counts
<1> HIDE DEF n
<1>7. CASE r = 0
  <2> DEFINE p == Sorted(v, a + 1)
             y == Sorted(v, 3 * a + 1)
  <2>1. a + 1 \in 1..n /\ 3 * a + 1 \in 1..n /\ a + 1 <= 3 * a + 1
    BY <1>1, <1>7
  <2>2. p \in Int /\ y \in Int /\ p <= y
    BY <1>3, <1>4, <2>1
  <2>3. 8 * x < 2 * (4 * p) - 3 * (4 * y - 4 * p)
    BY <1>1, <1>2, <1>7
  <2>4. x < p
    <3> HIDE DEF p, y
    <3> QED BY <2>2, <2>3
  <2>5. Cardinality(AtOrBelow(v, x)) < a + 1
    BY <1>5, <2>1, <2>4
  <2> QED BY <1>1, <1>6, <1>7, <2>5 DEF n
<1>8. CASE r # 0
  <2> DEFINE p == Sorted(v, a + 1)
             q == Sorted(v, a + 2)
             y == Sorted(v, 3 * a + r)
             z == Sorted(v, 3 * a + r + 1)
  <2>1. /\ a + 1 \in 1..n /\ a + 2 \in 1..n /\ 3 * a + r \in 1..n /\ 3 * a + r + 1 \in 1..n
        /\ a + 1 <= a + 2 /\ a + 2 <= 3 * a + r /\ 3 * a + r <= 3 * a + r + 1
    BY <1>1, <1>6, <1>8
  <2>2. p \in Int /\ q \in Int /\ y \in Int /\ z \in Int /\ p <= q /\ q <= y /\ y <= z
    BY <1>3, <1>4, <2>1
  <2>3. 8 * x < 2 * (4 * p + r * (q - p))
                - 3 * ((4 * y + (4 - r) * (z - y)) - (4 * p + r * (q - p)))
    BY <1>1, <1>2, <1>8
  <2>4. IF r = 3 THEN x < q ELSE x < p
    <3>1. r = 1 \/ r = 2 \/ r = 3
      BY <1>8
    <3> HIDE DEF p, q, y, z
    <3> QED BY <2>2, <2>3, <3>1
  <2>5. CASE r = 3
    <3>1. Cardinality(AtOrBelow(v, x)) < a + 2
      BY <1>5, <2>1, <2>4, <2>5
    <3> QED BY <1>1, <1>6, <2>5, <3>1 DEF n
  <2>6. CASE r # 3
    <3>1. Cardinality(AtOrBelow(v, x)) < a + 1
      BY <1>5, <2>1, <2>4, <2>6
    <3> QED BY <1>1, <1>6, <3>1 DEF n
  <2> QED BY <2>5, <2>6
<1> QED BY <1>7, <1>8

\* Outside the fence is the lowest or the highest quarter.
LEMMA OutsideFence ==
  ASSUME NEW v, IsList(v), Cardinality(DOMAIN v) >= 4, NEW i \in DOMAIN v,
         \/ 8 * v[i] < IqrFence8(v).lo
         \/ 8 * v[i] > IqrFence8(v).hi
  PROVE  \/ 4 * Cardinality({j \in DOMAIN v : v[j] <= v[i]}) <= Cardinality(DOMAIN v)
         \/ 4 * Cardinality({j \in DOMAIN v : v[j] >= v[i]}) <= Cardinality(DOMAIN v)
<1>0. \A j \in DOMAIN v : v[j] \in Int
  BY DEF IsList
<1>1. CASE 8 * v[i] < IqrFence8(v).lo
  <2>1. 4 * Cardinality(AtOrBelow(v, v[i])) <= Cardinality(DOMAIN v)
    BY <1>0, <1>1, BelowFence
  <2> QED BY <2>1 DEF AtOrBelow
<1>2. CASE 8 * v[i] > IqrFence8(v).hi
  <2> DEFINE w == Mirror(v, 0)
  <2>1. IsList(w) /\ DOMAIN w = DOMAIN v /\ \A j \in DOMAIN v : w[j] = 0 - v[j]
    BY MirrorIsList DEF Mirror
  <2>2. IqrFence8(w).lo = 8 * 0 - IqrFence8(v).hi /\ IqrFence8(v).hi \in Int
    <3>1. DOMAIN v # {}
      OBVIOUS
    <3>2. w = Mirror(v, 0)
      OBVIOUS
    <3> HIDE DEF w
    <3> QED BY <3>1, <3>2, FenceMirror
  <2> HIDE DEF w
  <2>3. 8 * w[i] < IqrFence8(w).lo /\ w[i] \in Int
    BY <1>0, <1>2, <2>1, <2>2
  <2>4. 4 * Cardinality(AtOrBelow(w, w[i])) <= Cardinality(DOMAIN w)
    BY <2>1, <2>3, BelowFence
  <2>5. AtOrBelow(w, w[i]) = {j \in DOMAIN v : v[j] >= v[i]}
    <3>1. \A j \in DOMAIN v : w[j] <= w[i] <=> v[j] >= v[i]
      BY <1>0, <2>1
    <3> QED BY <2>1, <3>1 DEF AtOrBelow
  <2> QED BY <2>1, <2>4, <2>5
<1> QED BY <1>1, <1>2
=============================================================================
