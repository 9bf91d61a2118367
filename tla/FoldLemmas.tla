----------------------------- MODULE FoldLemmas -----------------------------
(***************************************************************************)
(* What the recursive definitions of the model compute: induction over     *)
(* numbers and finite sets, stated with sets, and from it the equations of *)
(* sums over a set and of folds along a list.                              *)
(***************************************************************************)
EXTENDS Lists, Integers, SequenceTheorems, FiniteSetTheorems, WellFoundedInduction, TLAPS

-----------------------------------------------------------------------------
(* Induction *)

\* A set of numbers has a least one.
LEMMA LeastNumber ==
    ASSUME NEW T \in SUBSET Nat, T # {}
    PROVE  \E m \in T : \A n \in T : m <= n
<1>1. PICK m \in T : \A n \in T : ~ (<<n, m>> \in OpToRel(<, Nat))
  BY NatLessThanWellFounded, WFMin
<1>2. ASSUME NEW n \in T PROVE m <= n
  <2>1. <<n, m>> \in Nat \X Nat
    OBVIOUS
  <2>2. ~ (n < m)
    BY <1>1, <2>1 DEF OpToRel
  <2> QED
    BY <2>2
<1> QED
  BY <1>2

\* A set with 0 and with every successor holds every number.
LEMMA EveryNumber ==
    ASSUME NEW N, 0 \in N, \A n \in Nat : n \in N => n + 1 \in N
    PROVE  Nat \subseteq N
<1> SUFFICES ASSUME Nat \ N # {} PROVE FALSE
  OBVIOUS
<1>1. PICK m \in Nat \ N : \A n \in Nat \ N : m <= n
  <2>1. Nat \ N \in SUBSET Nat
    OBVIOUS
  <2> QED
    BY <2>1, LeastNumber
<1>2. m # 0 /\ m - 1 \in Nat
  BY <1>1
<1>3. m - 1 \in N
  BY <1>1, <1>2
<1> QED
  BY <1>1, <1>2, <1>3

\* Up to a bound, it is enough that the set grows below it.
LEMMA EveryNumberUpTo ==
    ASSUME NEW k \in Nat, NEW N, 0 \in N, \A n \in 0..(k - 1) : n \in N => n + 1 \in N
    PROVE  0..k \subseteq N
<1> DEFINE M == {n \in Nat : n <= k => n \in N}
<1>1. 0 \in M /\ \A n \in Nat : n \in M => n + 1 \in M
  OBVIOUS
<1>2. Nat \subseteq M
  <2> HIDE DEF M
  <2> QED
    BY <1>1, EveryNumber
<1> QED
  BY <1>2

\* Every subset of a finite set is reached by adding one element after the other.
LEMMA EverySubset ==
    ASSUME NEW S, IsFiniteSet(S), NEW C, {} \in C,
           \A T \in SUBSET S : \A x \in S \ T : T \in C => T \cup {x} \in C
    PROVE  SUBSET S \subseteq C
<1> DEFINE N == {n \in Nat : \A T \in SUBSET S : Cardinality(T) = n => T \in C}
<1>1. 0 \in N
  BY FS_Subset, FS_EmptySet
<1>2. ASSUME NEW n \in Nat, n \in N PROVE n + 1 \in N
  <2> SUFFICES ASSUME NEW T \in SUBSET S, Cardinality(T) = n + 1 PROVE T \in C
    OBVIOUS
  <2>1. IsFiniteSet(T)
    BY FS_Subset
  <2>2. PICK x : x \in T
    BY <2>1, FS_EmptySet
  <2>3. Cardinality(T \ {x}) = Cardinality(T) - 1
    BY <2>1, <2>2, FS_RemoveElement
  <2>4. T \ {x} \in C
    BY <1>2, <2>3
  <2>5. T = (T \ {x}) \cup {x}
    BY <2>2
  <2> QED
    BY <2>2, <2>4, <2>5
<1>3. Nat \subseteq N
  <2> HIDE DEF N
  <2> QED
    BY <1>1, <1>2, EveryNumber
<1>4. \A T \in SUBSET S : Cardinality(T) \in Nat
  BY FS_Subset, FS_CardinalityType
<1> QED
  BY <1>3, <1>4

-----------------------------------------------------------------------------
(* The function behind a fold: a value for every subset, got by taking one *)
(* element away.                                                           *)

FoldLaw(h, S, base, g, ch) ==
    \A T \in SUBSET S : h[T] = IF T = {} THEN base ELSE g[<<ch[T], h[T \ {ch[T]}]>>]

LEMMA FoldExists ==
    ASSUME NEW S, IsFiniteSet(S), NEW X, NEW base \in X, NEW g \in [S \X X -> X],
           NEW ch, \A T \in SUBSET S : T # {} => ch[T] \in T
    PROVE  \E h \in [SUBSET S -> X] : FoldLaw(h, S, base, g, ch)
<1> DEFINE Small(n) == {T \in SUBSET S : Cardinality(T) <= n}
           Law(h, n) == \A T \in Small(n) :
                          h[T] = IF T = {} THEN base ELSE g[<<ch[T], h[T \ {ch[T]}]>>]
           N == {n \in Nat : \E h \in [Small(n) -> X] : Law(h, n)}
<1>0. \A T \in SUBSET S : IsFiniteSet(T) /\ Cardinality(T) \in Nat
  BY FS_Subset, FS_CardinalityType
<1>1. 0 \in N
  <2>1. \A T \in Small(0) : T = {}
    BY <1>0, FS_EmptySet
  <2> DEFINE h == [T \in Small(0) |-> base]
  <2>2. h \in [Small(0) -> X] /\ Law(h, 0)
    BY <2>1
  <2> QED
    BY <2>2
<1>2. ASSUME NEW n \in Nat, n \in N PROVE n + 1 \in N
  <2>1. PICK h \in [Small(n) -> X] : Law(h, n)
    BY <1>2
  <2> DEFINE Next(T) == IF T = {} THEN base ELSE g[<<ch[T], h[T \ {ch[T]}]>>]
             k == [T \in Small(n + 1) |-> Next(T)]
  <2>2. ASSUME NEW T \in Small(n + 1), T # {}
        PROVE  ch[T] \in S /\ T \ {ch[T]} \in Small(n) /\ T \ {ch[T]} \in Small(n + 1)
    <3>1. ch[T] \in T
      BY <2>2
    <3>2. Cardinality(T \ {ch[T]}) = Cardinality(T) - 1
      BY <1>0, <3>1, FS_RemoveElement
    <3>3. Cardinality(T) \in Nat /\ Cardinality(T \ {ch[T]}) \in Nat
      BY <1>0
    <3> QED
      BY <3>1, <3>2, <3>3
  <2>3. \A T \in Small(n + 1) : Next(T) \in X
    BY <2>2
  <2>4. k \in [Small(n + 1) -> X]
    BY <2>3
  <2>5. \A T \in Small(n) : T \in Small(n + 1) /\ k[T] = h[T]
    <3>1. \A T \in Small(n) : T \in Small(n + 1)
      BY <1>0
    <3> QED
      BY <2>1, <3>1
  <2>6. Law(k, n + 1)
    <3> SUFFICES ASSUME NEW T \in Small(n + 1)
                 PROVE  k[T] = IF T = {} THEN base ELSE g[<<ch[T], k[T \ {ch[T]}]>>]
      OBVIOUS
    <3>1. CASE T = {}
      BY <3>1
    <3>2. CASE T # {}
      <4>1. k[T \ {ch[T]}] = h[T \ {ch[T]}]
        BY <2>2, <2>5, <3>2
      <4>2. k[T] = g[<<ch[T], h[T \ {ch[T]}]>>]
        BY <3>2
      <4> QED
        BY <3>2, <4>1, <4>2
    <3> QED
      BY <3>1, <3>2
  <2> HIDE DEF k, Small, Law
  <2> QED
    BY <2>4, <2>6
<1>3. Cardinality(S) \in N
  <2> HIDE DEF N
  <2>1. Nat \subseteq N
    BY <1>1, <1>2, EveryNumber
  <2> QED
    BY <1>0, <2>1
<1>4. Small(Cardinality(S)) = SUBSET S
  BY FS_Subset
<1> QED
  BY <1>3, <1>4 DEF FoldLaw

-----------------------------------------------------------------------------
(* Sums *)

\* The function that SumFunctionOnSet builds.
SumIter(f, S) ==
    CHOOSE h : h = [T \in SUBSET S |-> IF T = {} THEN 0
                      ELSE f[CHOOSE x \in T : TRUE] + h[T \ {CHOOSE x \in T : TRUE}]]

LEMMA SumIsIter ==
    ASSUME NEW f, NEW S
    PROVE  SumFunctionOnSet(f, S) = SumIter(f, S)[S]
BY DEF SumFunctionOnSet, FoldFunctionOnSet, MapThenFoldSet, SumIter

LEMMA SumIterLaw ==
    ASSUME NEW S, IsFiniteSet(S), NEW f, \A x \in S : f[x] \in Int
    PROVE  /\ SumIter(f, S) \in [SUBSET S -> Int]
           /\ SumIter(f, S)[{}] = 0
           /\ \A T \in SUBSET S : T # {} =>
                /\ (CHOOSE x \in T : TRUE) \in T
                /\ SumIter(f, S)[T] = f[CHOOSE x \in T : TRUE]
                                        + SumIter(f, S)[T \ {CHOOSE x \in T : TRUE}]
<1> DEFINE ch == [T \in SUBSET S |-> CHOOSE x \in T : TRUE]
           g == [p \in S \X Int |-> f[p[1]] + p[2]]
           IsSum(h) == h = [T \in SUBSET S |-> IF T = {} THEN 0
                              ELSE f[CHOOSE x \in T : TRUE] + h[T \ {CHOOSE x \in T : TRUE}]]
<1>1. \A T \in SUBSET S : T # {} => ch[T] \in T /\ ch[T] \in S
  OBVIOUS
<1>2. g \in [S \X Int -> Int]
  OBVIOUS
<1>3. PICK h \in [SUBSET S -> Int] : FoldLaw(h, S, 0, g, ch)
  <2>1. 0 \in Int
    OBVIOUS
  <2> HIDE DEF g, ch
  <2> QED
    BY <1>1, <1>2, <2>1, FoldExists
<1>4. IsSum(h)
  <2>1. \A T \in SUBSET S : h[T] = IF T = {} THEN 0
                              ELSE f[CHOOSE x \in T : TRUE] + h[T \ {CHOOSE x \in T : TRUE}]
    <3> SUFFICES ASSUME NEW T \in SUBSET S, T # {}
                 PROVE  h[T] = f[ch[T]] + h[T \ {ch[T]}]
      BY <1>3 DEF FoldLaw
    <3>1. h[T] = g[<<ch[T], h[T \ {ch[T]}]>>]
      BY <1>3 DEF FoldLaw
    <3>2. ch[T] \in S /\ h[T \ {ch[T]}] \in Int
      BY <1>1, <1>3
    <3> QED
      BY <3>1, <3>2
  <2> QED
    BY <2>1
<1>5. IsSum(SumIter(f, S))
  BY <1>4 DEF SumIter
<1>6. \A T \in SUBSET S : T # {} => (CHOOSE x \in T : TRUE) \in T
  OBVIOUS
<1>7. SumIter(f, S) \in [SUBSET S -> Int]
  <2> DEFINE k == SumIter(f, S)
             C == {T \in SUBSET S : k[T] \in Int}
  <2>1. {} \in C
    BY <1>5
  <2> DEFINE N == {n \in Nat : \A T \in SUBSET S : Cardinality(T) = n => T \in C}
  <2>2. 0 \in N
    BY <2>1, FS_Subset, FS_EmptySet
  <2>3. ASSUME NEW n \in Nat, n \in N PROVE n + 1 \in N
    <3> SUFFICES ASSUME NEW T \in SUBSET S, Cardinality(T) = n + 1 PROVE T \in C
      OBVIOUS
    <3>1. IsFiniteSet(T) /\ T # {}
      BY FS_Subset, FS_EmptySet
    <3> DEFINE c == CHOOSE x \in T : TRUE
    <3>2. c \in T /\ c \in S
      BY <3>1
    <3>3. Cardinality(T \ {c}) = Cardinality(T) - 1
      <4> HIDE DEF c
      <4> QED
        BY <3>1, <3>2, FS_RemoveElement
    <3>4. T \ {c} \in C
      BY <2>3, <3>3
    <3>5. k[T] = f[c] + k[T \ {c}]
      BY <1>5, <3>1
    <3> QED
      BY <3>2, <3>4, <3>5
  <2>4. Nat \subseteq N
    <3> HIDE DEF N
    <3> QED
      BY <2>2, <2>3, EveryNumber
  <2>5. \A T \in SUBSET S : Cardinality(T) \in Nat
    BY FS_Subset, FS_CardinalityType
  <2>6. \A T \in SUBSET S : k[T] \in Int
    BY <2>4, <2>5
  <2>7. k = [T \in SUBSET S |-> k[T]]
    BY <1>5
  <2> HIDE DEF k
  <2>8. k \in [SUBSET S -> Int]
    BY <2>6, <2>7
  <2> QED
    BY <2>8 DEF k
<1> QED
  BY <1>5, <1>6, <1>7

\* Any element may be the first that is added.
LEMMA SumIterAny ==
    ASSUME NEW S, IsFiniteSet(S), NEW f, \A x \in S : f[x] \in Int
    PROVE  \A T \in SUBSET S : \A x \in T :
              SumIter(f, S)[T] = f[x] + SumIter(f, S)[T \ {x}]
<1> DEFINE k == SumIter(f, S)
           N == {n \in Nat : \A T \in SUBSET S : Cardinality(T) = n =>
                                \A x \in T : k[T] = f[x] + k[T \ {x}]}
<1>1. /\ k \in [SUBSET S -> Int] /\ k[{}] = 0
      /\ \A T \in SUBSET S : T # {} =>
            \E c \in T : k[T] = f[c] + k[T \ {c}]
  <2>1. /\ SumIter(f, S) \in [SUBSET S -> Int] /\ SumIter(f, S)[{}] = 0
        /\ \A T \in SUBSET S : T # {} =>
              /\ (CHOOSE x \in T : TRUE) \in T
              /\ SumIter(f, S)[T] = f[CHOOSE x \in T : TRUE]
                                      + SumIter(f, S)[T \ {CHOOSE x \in T : TRUE}]
    BY SumIterLaw
  <2>2. ASSUME NEW T \in SUBSET S, T # {} PROVE \E c \in T : k[T] = f[c] + k[T \ {c}]
    <3> DEFINE c == CHOOSE x \in T : TRUE
    <3>1. c \in T /\ k[T] = f[c] + k[T \ {c}]
      BY <2>1, <2>2
    <3> HIDE DEF c, k
    <3> QED
      BY <3>1
  <2> QED
    BY <2>1, <2>2
<1> HIDE DEF k
<1>2. 0 \in N
  BY FS_Subset, FS_EmptySet
<1>3. ASSUME NEW n \in Nat, n \in N PROVE n + 1 \in N
  <2> SUFFICES ASSUME NEW T \in SUBSET S, Cardinality(T) = n + 1, NEW x \in T
               PROVE  k[T] = f[x] + k[T \ {x}]
    OBVIOUS
  <2>1. IsFiniteSet(T) /\ T # {}
    BY FS_Subset
  <2>2. PICK c \in T : k[T] = f[c] + k[T \ {c}]
    BY <1>1, <2>1
  <2>3. CASE c = x
    BY <2>2, <2>3
  <2>4. CASE c # x
    <3>1. Cardinality(T \ {c}) = Cardinality(T) - 1 /\ Cardinality(T \ {x}) = Cardinality(T) - 1
      BY <2>1, FS_RemoveElement
    <3>2. Cardinality(T \ {c}) = n /\ Cardinality(T \ {x}) = n
      BY <3>1
    <3>3. k[T \ {c}] = f[x] + k[(T \ {c}) \ {x}]
      BY <1>3, <2>4, <3>2
    <3>4. k[T \ {x}] = f[c] + k[(T \ {x}) \ {c}]
      BY <1>3, <2>4, <3>2
    <3>5. (T \ {c}) \ {x} = (T \ {x}) \ {c}
      OBVIOUS
    <3> DEFINE rest == k[(T \ {c}) \ {x}]
    <3>6. rest \in Int /\ f[x] \in Int /\ f[c] \in Int
      BY <1>1
    <3>7. k[T] = f[c] + (f[x] + rest) /\ k[T \ {x}] = f[c] + rest
      BY <2>2, <3>3, <3>4, <3>5
    <3> HIDE DEF rest
    <3> QED
      BY <3>6, <3>7
  <2> QED
    BY <2>3, <2>4
<1>4. Nat \subseteq N
  <2> HIDE DEF N
  <2> QED
    BY <1>2, <1>3, EveryNumber
<1>5. \A T \in SUBSET S : Cardinality(T) \in Nat
  BY FS_Subset, FS_CardinalityType
<1> QED
  BY <1>4, <1>5 DEF k

LEMMA SumIterAgree ==
    ASSUME NEW S, IsFiniteSet(S), NEW R \in SUBSET S, NEW f, NEW g,
           \A x \in S : f[x] \in Int, \A x \in R : f[x] = g[x]
    PROVE  \A T \in SUBSET R : SumIter(g, R)[T] = SumIter(f, S)[T]
<1>1. IsFiniteSet(R) /\ \A x \in R : g[x] \in Int
  BY FS_Subset
<1> DEFINE C == {T \in SUBSET R : SumIter(g, R)[T] = SumIter(f, S)[T]}
<1>2. {} \in C
  <2>1. SumIter(g, R)[{}] = 0
    BY <1>1, SumIterLaw
  <2>2. SumIter(f, S)[{}] = 0
    BY SumIterLaw
  <2> QED
    BY <2>1, <2>2
<1>3. ASSUME NEW T \in SUBSET R, NEW x \in R \ T, T \in C PROVE T \cup {x} \in C
  <2>1. (T \cup {x}) \ {x} = T
    BY <1>3
  <2>2. SumIter(f, S)[T \cup {x}] = f[x] + SumIter(f, S)[T]
    BY <2>1, SumIterAny
  <2>3. SumIter(g, R)[T \cup {x}] = g[x] + SumIter(g, R)[T]
    BY <1>1, <2>1, SumIterAny
  <2> QED
    BY <1>3, <2>2, <2>3
<1>4. SUBSET R \subseteq C
  <2> HIDE DEF C
  <2> QED
    BY <1>1, <1>2, <1>3, EverySubset
<1> QED
  BY <1>4

\* The three equations that sums are reasoned with.
LEMMA SumEmpty == ASSUME NEW f PROVE SumFunctionOnSet(f, {}) = 0
BY SumIsIter, SumIterLaw, FS_EmptySet

LEMMA SumType ==
    ASSUME NEW S, IsFiniteSet(S), NEW f, \A x \in S : f[x] \in Int
    PROVE  SumFunctionOnSet(f, S) \in Int
<1>1. SumIter(f, S) \in [SUBSET S -> Int]
  BY SumIterLaw
<1>2. SumIter(f, S)[S] \in Int
  BY <1>1
<1> QED
  BY <1>2, SumIsIter

LEMMA SumAdd ==
    ASSUME NEW S, IsFiniteSet(S), NEW f, \A x \in S : f[x] \in Int, NEW x \in S
    PROVE  SumFunctionOnSet(f, S) = f[x] + SumFunctionOnSet(f, S \ {x})
<1>1. SumIter(f, S)[S] = f[x] + SumIter(f, S)[S \ {x}]
  BY SumIterAny
<1>2. SumIter(f, S \ {x})[S \ {x}] = SumIter(f, S)[S \ {x}]
  <2> DEFINE R == S \ {x}
  <2>1. R \in SUBSET S /\ \A y \in R : f[y] = f[y]
    OBVIOUS
  <2> HIDE DEF R
  <2>2. \A T \in SUBSET R : SumIter(f, R)[T] = SumIter(f, S)[T]
    BY <2>1, SumIterAgree
  <2> QED
    BY <2>2 DEF R
<1> QED
  BY <1>1, <1>2, SumIsIter

\* A sum depends on the values on its set only.
LEMMA SumSame ==
    ASSUME NEW S, IsFiniteSet(S), NEW f, NEW g, \A x \in S : f[x] \in Int /\ f[x] = g[x]
    PROVE  SumFunctionOnSet(f, S) = SumFunctionOnSet(g, S)
<1>1. \A T \in SUBSET S : SumIter(g, S)[T] = SumIter(f, S)[T]
  BY SumIterAgree
<1>2. SumIter(g, S)[S] = SumIter(f, S)[S]
  BY <1>1
<1> QED
  BY <1>2, SumIsIter

\* One value changes.
LEMMA SumUpdate ==
    ASSUME NEW S, IsFiniteSet(S), NEW x \in S, NEW f, NEW g,
           \A y \in S : f[y] \in Int /\ g[y] \in Int, \A y \in S \ {x} : f[y] = g[y]
    PROVE  SumFunctionOnSet(g, S) = SumFunctionOnSet(f, S) - f[x] + g[x]
<1>1. IsFiniteSet(S \ {x})
  BY FS_RemoveElement
<1>2. SumFunctionOnSet(f, S \ {x}) = SumFunctionOnSet(g, S \ {x})
  BY <1>1, SumSame
<1>3. SumFunctionOnSet(f, S) = f[x] + SumFunctionOnSet(f, S \ {x})
  BY SumAdd
<1>4. SumFunctionOnSet(g, S) = g[x] + SumFunctionOnSet(g, S \ {x})
  BY SumAdd
<1>5. SumFunctionOnSet(f, S \ {x}) \in Int
  BY <1>1, SumType
<1> QED
  BY <1>2, <1>3, <1>4, <1>5

\* What is added everywhere is more in sum, also over more places.
LEMMA SumLess ==
    ASSUME NEW S, IsFiniteSet(S), NEW R \in SUBSET S, NEW f, NEW g,
           \A x \in R : f[x] \in Int, \A x \in S : g[x] \in Nat, \A x \in R : f[x] <= g[x]
    PROVE  SumFunctionOnSet(f, R) <= SumFunctionOnSet(g, S)
<1> DEFINE C == {T \in SUBSET S : SumFunctionOnSet(f, T \cap R) <= SumFunctionOnSet(g, T)}
<1>1. {} \in C
  <2>1. {} \cap R = {}
    OBVIOUS
  <2> QED
    BY <2>1, SumEmpty
<1>2. ASSUME NEW T \in SUBSET S, NEW x \in S \ T, T \in C PROVE T \cup {x} \in C
  <2> DEFINE U == T \cup {x}
  <2>1. /\ IsFiniteSet(U) /\ IsFiniteSet(U \cap R) /\ IsFiniteSet(T) /\ IsFiniteSet(T \cap R)
        /\ U \ {x} = T /\ (x \in R => (U \cap R) \ {x} = T \cap R) /\ (x \notin R => U \cap R = T \cap R)
        /\ x \in U
    BY <1>2, FS_Subset
  <2> HIDE DEF U
  <2>2. U \in SUBSET S
    BY <1>2 DEF U
  <2>3. SumFunctionOnSet(g, U) = g[x] + SumFunctionOnSet(g, T)
    <3>1. \A y \in U : g[y] \in Int
      BY <2>2
    <3> QED
      BY <2>1, <3>1, SumAdd
  <2>4. SumFunctionOnSet(g, T) \in Int /\ SumFunctionOnSet(f, T \cap R) \in Int
    BY <2>1, SumType
  <2>5. CASE x \in R
    <3>1. SumFunctionOnSet(f, U \cap R) = f[x] + SumFunctionOnSet(f, T \cap R)
      <4>1. x \in U \cap R
        BY <2>1, <2>5
      <4>2. SumFunctionOnSet(f, U \cap R) = f[x] + SumFunctionOnSet(f, (U \cap R) \ {x})
        BY <2>1, <4>1, SumAdd
      <4> QED
        BY <2>1, <2>5, <4>2
    <3>2. f[x] \in Int /\ g[x] \in Int /\ f[x] <= g[x]
      BY <2>5
    <3>3. SumFunctionOnSet(f, U \cap R) <= SumFunctionOnSet(g, U)
      BY <1>2, <2>3, <2>4, <3>1, <3>2
    <3> QED
      BY <2>2, <3>3 DEF U
  <2>6. CASE x \notin R
    <3>1. SumFunctionOnSet(f, U \cap R) = SumFunctionOnSet(f, T \cap R)
      BY <2>1, <2>6
    <3>2. SumFunctionOnSet(f, U \cap R) <= SumFunctionOnSet(g, U)
      BY <1>2, <2>2, <2>3, <2>4, <3>1
    <3> QED
      BY <2>2, <3>2 DEF U
  <2> QED
    BY <2>5, <2>6
<1>3. S \in C
  <2> HIDE DEF C
  <2> QED
    BY <1>1, <1>2, EverySubset
<1>4. S \cap R = R
  OBVIOUS
<1> QED
  BY <1>3, <1>4

LEMMA SumNat ==
    ASSUME NEW S, IsFiniteSet(S), NEW f, \A x \in S : f[x] \in Nat
    PROVE  SumFunctionOnSet(f, S) \in Nat
<1>1. SumFunctionOnSet(f, S) \in Int
  BY SumType
<1>2. SumFunctionOnSet(f, {}) <= SumFunctionOnSet(f, S)
  BY SumLess
<1> QED
  BY <1>1, <1>2, SumEmpty

\* What two sets share is counted once in their union.
LEMMA SumUnion ==
    ASSUME NEW S, IsFiniteSet(S), NEW A \in SUBSET S, NEW B \in SUBSET S,
           NEW f, \A x \in S : f[x] \in Nat
    PROVE  SumFunctionOnSet(f, A \cup B) <= SumFunctionOnSet(f, A) + SumFunctionOnSet(f, B)
<1> DEFINE sum(T) == SumFunctionOnSet(f, T)
           C == {T \in SUBSET B : sum(A \cup T) <= sum(A) + sum(T)}
<1>1. \A T \in SUBSET S : IsFiniteSet(T) /\ sum(T) \in Nat
  <2> SUFFICES ASSUME NEW T \in SUBSET S PROVE IsFiniteSet(T) /\ sum(T) \in Nat
    OBVIOUS
  <2>1. IsFiniteSet(T)
    BY FS_Subset
  <2> QED
    BY <2>1, SumNat
<1>2. {} \in C
  <2>1. sum({}) = 0 /\ A \cup {} = A /\ sum(A) \in Nat
    BY <1>1, SumEmpty
  <2> HIDE DEF sum
  <2> QED
    BY <2>1
<1>3. ASSUME NEW T \in SUBSET B, NEW x \in B \ T, T \in C PROVE T \cup {x} \in C
  <2>1. T \cup {x} \in SUBSET B /\ (T \cup {x}) \ {x} = T /\ x \in S
        /\ T \cup {x} \in SUBSET S /\ A \cup T \in SUBSET S /\ A \cup (T \cup {x}) \in SUBSET S
        /\ T \in SUBSET S
    OBVIOUS
  <2>2. \A y \in T \cup {x} : f[y] \in Int
    BY <2>1
  <2>3. sum(T \cup {x}) = f[x] + sum(T)
    <3>1. IsFiniteSet(T \cup {x}) /\ x \in T \cup {x}
      BY <1>1, <2>1
    <3>2. sum(T \cup {x}) = f[x] + sum((T \cup {x}) \ {x})
      BY <2>2, <3>1, SumAdd
    <3> QED
      BY <2>1, <3>2
  <2>4. sum(A \cup (T \cup {x})) <= f[x] + sum(A \cup T)
    <3>1. CASE x \in A
      <4>1. A \cup (T \cup {x}) = A \cup T
        BY <3>1
      <4>2. sum(A \cup T) \in Nat /\ f[x] \in Nat
        BY <1>1, <2>1
      <4>3. sum(A \cup (T \cup {x})) = sum(A \cup T)
        BY <4>1
      <4>4. \A a \in Nat, n \in Nat : a <= n + a
        OBVIOUS
      <4> QED
        BY <4>2, <4>3, <4>4, Zenon
    <3>2. CASE x \notin A
      <4> DEFINE U == A \cup (T \cup {x})
      <4>1. U \ {x} = A \cup T /\ x \in U /\ \A y \in U : f[y] \in Int
        BY <2>1, <3>2
      <4>2. IsFiniteSet(U)
        BY <1>1, <2>1
      <4>3. sum(U) = f[x] + sum(U \ {x})
        <5> HIDE DEF U
        <5> QED
          BY <4>1, <4>2, SumAdd
      <4>4. sum(A \cup T) \in Nat /\ f[x] \in Nat
        BY <1>1, <2>1
      <4>5. sum(U) = f[x] + sum(A \cup T)
        BY <4>1, <4>3, Zenon
      <4>6. \A a \in Nat, n \in Nat : n + a <= n + a
        OBVIOUS
      <4> QED
        BY <4>4, <4>5, <4>6, Zenon
    <3> QED
      BY <3>1, <3>2
  <2>5. /\ sum(A) \in Nat /\ sum(T) \in Nat /\ sum(A \cup T) \in Nat /\ f[x] \in Nat
        /\ sum(A \cup (T \cup {x})) \in Nat
        /\ sum(A \cup T) <= sum(A) + sum(T)
    BY <1>1, <1>3, <2>1
  <2> HIDE DEF sum
  <2>6. sum(A \cup (T \cup {x})) <= sum(A) + sum(T \cup {x})
    BY <2>3, <2>4, <2>5
  <2> QED
    BY <2>1, <2>6
<1>4. SUBSET B \subseteq C
  <2>1. IsFiniteSet(B)
    BY <1>1
  <2> HIDE DEF C
  <2> QED
    BY <1>2, <1>3, <2>1, EverySubset
<1> QED
  BY <1>4

\* Places without weight do not count.
LEMMA SumZero ==
    ASSUME NEW S, IsFiniteSet(S), NEW f, \A x \in S : f[x] = 0
    PROVE  SumFunctionOnSet(f, S) = 0
<1> DEFINE C == {T \in SUBSET S : SumFunctionOnSet(f, T) = 0}
<1>1. {} \in C
  BY SumEmpty
<1>2. ASSUME NEW T \in SUBSET S, NEW x \in S \ T, T \in C PROVE T \cup {x} \in C
  <2> DEFINE more == T \cup {x}
  <2>1. IsFiniteSet(more) /\ more \subseteq S /\ x \in more /\ more \ {x} = T
    BY FS_Subset
  <2>2. \A y \in more : f[y] \in Int
    BY <2>1
  <2>3. SumFunctionOnSet(f, T) = 0 /\ f[x] = 0
    BY <1>2
  <2> HIDE DEF more
  <2>4. SumFunctionOnSet(f, more) = f[x] + SumFunctionOnSet(f, more \ {x})
    BY <2>1, <2>2, SumAdd
  <2>5. SumFunctionOnSet(f, more \ {x}) = SumFunctionOnSet(f, T)
    BY <2>1, Zenon
  <2>6. SumFunctionOnSet(f, more) = 0
    BY <2>3, <2>4, <2>5
  <2> QED
    BY <2>1, <2>6 DEF more
<1> HIDE DEF C
<1>3. SUBSET S \subseteq C
  BY <1>1, <1>2, EverySubset
<1> QED
  BY <1>3 DEF C

LEMMA SumWithoutZeros ==
    ASSUME NEW S, IsFiniteSet(S), NEW R \in SUBSET S,
           NEW f, \A x \in S : f[x] \in Nat, \A x \in S \ R : f[x] = 0
    PROVE  SumFunctionOnSet(f, S) = SumFunctionOnSet(f, R)
<1> DEFINE B == S \ R
<1>1. IsFiniteSet(R) /\ IsFiniteSet(B) /\ B \in SUBSET S /\ R \cup B = S
  BY FS_Subset
<1>2. SumFunctionOnSet(f, B) = 0
  <2>1. \A x \in B : f[x] = 0
    OBVIOUS
  <2> HIDE DEF B
  <2> QED
    BY <1>1, <2>1, SumZero
<1>3. /\ SumFunctionOnSet(f, R) \in Nat /\ SumFunctionOnSet(f, S) \in Nat
  BY <1>1, SumNat
<1>4. SumFunctionOnSet(f, R) <= SumFunctionOnSet(f, S)
  <2>1. \A x \in R : f[x] \in Int /\ f[x] <= f[x]
    OBVIOUS
  <2> QED
    BY <2>1, SumLess
<1>5. SumFunctionOnSet(f, S) <= SumFunctionOnSet(f, R) + SumFunctionOnSet(f, B)
  <2> HIDE DEF B
  <2>1. SumFunctionOnSet(f, R \cup B) <= SumFunctionOnSet(f, R) + SumFunctionOnSet(f, B)
    BY <1>1, SumUnion
  <2>2. SumFunctionOnSet(f, R \cup B) = SumFunctionOnSet(f, S)
    BY <1>1, Zenon
  <2> QED
    BY <2>1, <2>2
<1> QED
  BY <1>2, <1>3, <1>4, <1>5

-----------------------------------------------------------------------------
(* Folds along a list *)

LEMMA MaxOfNumbers ==
    ASSUME NEW n \in Nat, NEW T \in SUBSET (1..n), T # {}
    PROVE  Max(T) \in T /\ \A x \in T : x <= Max(T)
<1> DEFINE D == {n - x : x \in T}
<1>1. D \in SUBSET Nat /\ D # {}
  <2>1. \A x \in T : x \in 1..n /\ n - x \in Nat
    OBVIOUS
  <2>2. D \subseteq Nat
    BY <2>1
  <2> QED
    BY <2>2
<1>2. PICK d \in D : \A e \in D : d <= e
  <2> HIDE DEF D
  <2> QED
    BY <1>1, LeastNumber
<1>3. PICK x \in T : d = n - x
  BY <1>2
<1>4. ASSUME NEW y \in T PROVE x >= y
  <2>1. n - y \in D
    OBVIOUS
  <2>2. n - x <= n - y
    BY <1>2, <1>3, <2>1
  <2>3. x \in Nat /\ y \in Nat
    OBVIOUS
  <2> HIDE DEF D
  <2> QED
    BY <2>2, <2>3
<1> QED
  BY <1>3, <1>4 DEF Max

LEMMA MaxOfPrefix ==
    ASSUME NEW k \in Nat, k > 0
    PROVE  Max(1..k) = k /\ (1..k) \ {k} = 1..(k - 1) /\ 1..k # {}
<1>1. k \in 1..k /\ 1..k \in SUBSET (1..k)
  OBVIOUS
<1>2. Max(1..k) \in 1..k /\ \A x \in 1..k : x <= Max(1..k)
  BY <1>1, MaxOfNumbers
<1>3. Max(1..k) = k
  BY <1>1, <1>2
<1> QED
  BY <1>3

\* The function behind a fold over the indices of a list exists.
ListLaw(h, n, X, base, g) ==
    \A T \in SUBSET (1..n) :
       /\ h[T] = IF T = {} THEN base ELSE g[<<Max(T), h[T \ {Max(T)}]>>]
       /\ T # {} => Max(T) \in 1..n /\ h[T \ {Max(T)}] \in X

LEMMA ListFoldExists ==
    ASSUME NEW n \in Nat, NEW X, NEW base \in X, NEW g \in [(1..n) \X X -> X]
    PROVE  \E h \in [SUBSET (1..n) -> X] : ListLaw(h, n, X, base, g)
<1> DEFINE ch == [T \in SUBSET (1..n) |-> Max(T)]
<1>1. \A T \in SUBSET (1..n) : T # {} => ch[T] \in T
  BY MaxOfNumbers
<1>2. IsFiniteSet(1..n)
  BY FS_Interval
<1>3. PICK h \in [SUBSET (1..n) -> X] : FoldLaw(h, 1..n, base, g, ch)
  <2> HIDE DEF ch
  <2> QED
    BY <1>1, <1>2, FoldExists
<1> QED
  BY <1>1, <1>3 DEF FoldLaw, ListLaw

\* A function defined by its value at 0 and a step from each number to the next
\* one exists.
StepLaw(h, n, base, g) == h = [i \in 0..n |-> IF i = 0 THEN base ELSE g[<<i, h[i - 1]>>]]

LEMMA StepsExist ==
    ASSUME NEW n \in Nat, NEW X, NEW base \in X, NEW g \in [(1..n) \X X -> X]
    PROVE  \E h \in [0..n -> X] : StepLaw(h, n, base, g)
<1>1. PICK s \in [SUBSET (1..n) -> X] : ListLaw(s, n, X, base, g)
  BY ListFoldExists
<1> DEFINE h == [i \in 0..n |-> s[1..i]]
<1>2. h \in [0..n -> X]
  <2>1. \A i \in 0..n : 1..i \in SUBSET (1..n)
    OBVIOUS
  <2> QED
    BY <2>1
<1>3. ASSUME NEW i \in 0..n PROVE h[i] = IF i = 0 THEN base ELSE g[<<i, h[i - 1]>>]
  <2>1. CASE i = 0
    <3>1. 1..i = {} /\ 1..i \in SUBSET (1..n)
      BY <2>1
    <3> QED
      BY <1>1, <2>1, <3>1 DEF ListLaw
  <2>2. CASE i # 0
    <3>1. 1..i \in SUBSET (1..n) /\ i - 1 \in 0..n
      BY <2>2
    <3>2. Max(1..i) = i /\ (1..i) \ {i} = 1..(i - 1) /\ 1..i # {}
      BY <2>2, MaxOfPrefix
    <3>3. s[1..i] = g[<<i, s[1..(i - 1)]>>]
      BY <1>1, <3>1, <3>2 DEF ListLaw
    <3> QED
      BY <2>2, <3>1, <3>3
  <2> QED
    BY <2>1, <2>2
<1>4. h = [i \in 0..n |-> h[i]]
  OBVIOUS
<1>5. StepLaw(h, n, base, g)
  <2> HIDE DEF h
  <2> QED
    BY <1>3, <1>4 DEF StepLaw
<1> QED
  BY <1>2, <1>5

\* Its values stay in a set that no step leaves.
LEMMA StepsStay ==
    ASSUME NEW n \in Nat, NEW X, NEW p, p = [i \in 0..n |-> p[i]], p[0] \in X,
           \A k \in 1..n : p[k - 1] \in X => p[k] \in X
    PROVE  p \in [0..n -> X]
<1> DEFINE N == {k \in 0..n : p[k] \in X}
<1>1. 0 \in N
  OBVIOUS
<1>2. ASSUME NEW k \in 0..(n - 1), k \in N PROVE k + 1 \in N
  <2>1. k + 1 \in 1..n /\ k + 1 \in 0..n /\ (k + 1) - 1 = k
    OBVIOUS
  <2> QED
    BY <1>2, <2>1
<1>3. 0..n \subseteq N
  <2> HIDE DEF N
  <2> QED
    BY <1>1, <1>2, EveryNumberUpTo
<1> QED
  BY <1>3

\* What Filtered builds, prefix by prefix.
FilterLaw(p, X, list, S) ==
    /\ p \in [0..Len(list) -> Seq(X)]
    /\ p[0] = <<>> /\ p[Len(list)] = Filtered(list, S)
    /\ \A k \in 1..Len(list) :
          p[k] = IF list[k] \in S THEN Append(p[k - 1], list[k]) ELSE p[k - 1]

LEMMA FilteredSteps ==
    ASSUME NEW X, NEW list \in Seq(X), NEW S
    PROVE  \E p : FilterLaw(p, X, list, S)
<1> DEFINE n == Len(list)
           V == Seq(X)
           g == [q \in (1..n) \X V |-> IF list[q[1]] \in S THEN Append(q[2], list[q[1]]) ELSE q[2]]
           Is(h) == h = [i \in 0..n |-> IF i = 0 THEN <<>>
                           ELSE IF list[i] \in S THEN Append(h[i - 1], list[i]) ELSE h[i - 1]]
           p == CHOOSE h : Is(h)
<1>1. n \in Nat /\ \A k \in 1..n : list[k] \in X
  OBVIOUS
<1>2. g \in [(1..n) \X V -> V] /\ <<>> \in V
  BY <1>1
<1>3. PICK h \in [0..n -> V] : StepLaw(h, n, <<>>, g)
  <2> HIDE DEF n, V, g
  <2> QED
    BY <1>1, <1>2, StepsExist
<1>4. \A i \in 0..n : i # 0 => g[<<i, h[i - 1]>>] = IF list[i] \in S THEN Append(h[i - 1], list[i]) ELSE h[i - 1]
  <2>1. \A i \in 0..n : i # 0 => i \in 1..n /\ i - 1 \in 0..n
    BY <1>1
  <2>2. \A i \in 0..n : i # 0 => <<i, h[i - 1]>> \in (1..n) \X V
    <3> HIDE DEF n, V
    <3> QED
      BY <1>3, <2>1
  <2> QED
    BY <2>2
<1>5. Is(h)
  <2>1. h = [i \in 0..n |-> IF i = 0 THEN <<>> ELSE g[<<i, h[i - 1]>>]]
    BY <1>3 DEF StepLaw
  <2> HIDE DEF g, n
  <2> QED
    BY <1>4, <2>1
<1>6. Is(p)
  <2> HIDE DEF Is
  <2> QED
    BY <1>5
<1>7. p[n] = Filtered(list, S)
  BY DEF Filtered
<1>8. p[0] = <<>> /\ \A k \in 1..n :
        p[k] = IF list[k] \in S THEN Append(p[k - 1], list[k]) ELSE p[k - 1]
  <2>1. 0 \in 0..n /\ \A k \in 1..n : k \in 0..n /\ k # 0
    BY <1>1
  <2> HIDE DEF n, p
  <2> QED
    BY <1>6, <2>1
<1>9. ASSUME NEW k \in 1..n, p[k - 1] \in V PROVE p[k] \in V
  <2>1. list[k] \in X /\ p[k] = IF list[k] \in S THEN Append(p[k - 1], list[k]) ELSE p[k - 1]
    BY <1>1, <1>8
  <2> HIDE DEF n, g, p
  <2> QED
    BY <1>9, <2>1
<1>10. p \in [0..n -> V]
  <2>1. p = [k \in 0..n |-> p[k]]
    <3> HIDE DEF p
    <3> QED
      BY <1>6
  <2>2. p[0] \in V /\ n \in Nat
    <3> HIDE DEF p, V, n, g
    <3> QED
      BY <1>1, <1>2, <1>8
  <2>3. \A k \in 1..n : p[k - 1] \in V => p[k] \in V
    BY <1>9
  <2> HIDE DEF p, V, n
  <2> QED
    BY <2>1, <2>2, <2>3, StepsStay
<1> HIDE DEF p
<1> QED
  BY <1>7, <1>8, <1>10 DEF FilterLaw

\* sub is list without the elements outside S: e tells where its elements are.
Thinned(e, sub, k, list, S) ==
    /\ e \in [1..Len(sub) -> 1..k]
    /\ \A i \in 1..Len(sub) : sub[i] = list[e[i]] /\ list[e[i]] \in S
    /\ \A i, j \in 1..Len(sub) : i < j => e[i] < e[j]
    /\ \A m \in 1..k : list[m] \in S => \E i \in 1..Len(sub) : e[i] = m

LEMMA FilteredIsThinned ==
    ASSUME NEW X, NEW list \in Seq(X), NEW S
    PROVE  /\ Filtered(list, S) \in Seq(X)
           /\ \E e : Thinned(e, Filtered(list, S), Len(list), list, S)
<1> DEFINE n == Len(list)
<1>1. PICK p \in [0..n -> Seq(X)] :
         /\ p[0] = <<>> /\ p[n] = Filtered(list, S)
         /\ \A k \in 1..n :
               p[k] = IF list[k] \in S THEN Append(p[k - 1], list[k]) ELSE p[k - 1]
  <2>1. PICK p : FilterLaw(p, X, list, S)
    BY FilteredSteps
  <2> QED
    BY <2>1 DEF FilterLaw
<1>2. n \in Nat /\ \A k \in 1..n : list[k] \in X
  OBVIOUS
<1> DEFINE N == {k \in 0..n : \E e : Thinned(e, p[k], k, list, S)}
<1>3. 0 \in N
  <2> DEFINE e == [i \in 1..0 |-> 0]
  <2>1. Len(p[0]) = 0 /\ e \in [1..0 -> 1..0]
    BY <1>1
  <2>2. Thinned(e, p[0], 0, list, S)
    <3> HIDE DEF e
    <3> QED
      BY <2>1 DEF Thinned
  <2> QED
    BY <1>2, <2>2
<1>4. ASSUME NEW k \in 0..(n - 1), k \in N PROVE k + 1 \in N
  <2> DEFINE q == p[k]
             m == Len(q)
             x == list[k + 1]
  <2>1. PICK e : Thinned(e, q, k, list, S)
    BY <1>4
  <2>2. k \in 0..n /\ k + 1 \in 1..n /\ k + 1 \in 0..n /\ (k + 1) - 1 = k /\ k \in Nat
    BY <1>2
  <2>3. p[k + 1] = IF x \in S THEN Append(q, x) ELSE q
    BY <1>1, <2>2
  <2>4. q \in Seq(X) /\ m \in Nat
    <3>1. q \in Seq(X)
      <4> HIDE DEF n, N
      <4> QED
        BY <1>1, <2>2
    <3> QED
      BY <3>1, LenProperties
  <2>5. CASE x \in S
    <3> DEFINE r == Append(q, x)
               d == [i \in 1..(m + 1) |-> IF i = m + 1 THEN k + 1 ELSE e[i]]
    <3>1. Len(r) = m + 1 /\ r[m + 1] = x /\ \A i \in 1..m : r[i] = q[i]
      BY <1>2, <2>2, <2>4
    <3>2. e \in [1..m -> 1..k] /\ (\A i \in 1..m : q[i] = list[e[i]] /\ list[e[i]] \in S)
          /\ (\A i, j \in 1..m : i < j => e[i] < e[j])
          /\ (\A a \in 1..k : list[a] \in S => \E i \in 1..m : e[i] = a)
      BY <2>1 DEF Thinned
    <3>3. d[m + 1] = k + 1 /\ \A i \in 1..m : d[i] = e[i] /\ e[i] \in 1..k
      BY <2>4, <3>2
    <3>4. \A i \in 1..(m + 1) : i \in 1..m \/ i = m + 1
      BY <2>4
    <3>5. d \in [1..(m + 1) -> 1..(k + 1)]
      <4>1. d = [i \in 1..(m + 1) |-> d[i]]
        OBVIOUS
      <4> HIDE DEF d, m
      <4>2. ASSUME NEW i \in 1..(m + 1) PROVE d[i] \in 1..(k + 1)
        <5>1. \A a \in 1..k : a \in 1..(k + 1)
          BY <2>2
        <5>2. k + 1 \in 1..(k + 1)
          BY <2>2
        <5> QED
          BY <3>3, <3>4, <5>1, <5>2
      <4> QED
        BY <4>1, <4>2
    <3> HIDE DEF d, r, m, q, x
    <3>6. \A i \in 1..(m + 1) : r[i] = list[d[i]] /\ list[d[i]] \in S
      BY <2>5, <3>1, <3>2, <3>3, <3>4 DEF x
    <3>7. ASSUME NEW i \in 1..(m + 1), NEW j \in 1..(m + 1), i < j PROVE d[i] < d[j]
      <4>1. i \in 1..m /\ d[i] = e[i] /\ e[i] \in 1..k
        BY <2>4, <3>3, <3>7
      <4>2. CASE j = m + 1
        BY <2>2, <3>3, <4>1, <4>2
      <4>3. CASE j # m + 1
        BY <3>2, <3>3, <3>4, <3>7, <4>1, <4>3
      <4> QED
        BY <4>2, <4>3
    <3>8. \A a \in 1..(k + 1) : list[a] \in S => \E i \in 1..(m + 1) : d[i] = a
      <4> SUFFICES ASSUME NEW a \in 1..(k + 1), list[a] \in S
                   PROVE  \E i \in 1..(m + 1) : d[i] = a
        OBVIOUS
      <4>1. CASE a = k + 1
        <5>1. m + 1 \in 1..(m + 1)
          BY <2>4
        <5> QED
          BY <3>3, <4>1, <5>1
      <4>2. CASE a # k + 1
        <5>1. a \in 1..k
          BY <2>2, <4>2
        <5>2. PICK i \in 1..m : e[i] = a
          BY <3>2, <5>1
        <5>3. i \in 1..(m + 1) /\ d[i] = a
          BY <2>4, <3>3, <5>2
        <5> QED
          BY <5>3
      <4> QED
        BY <4>1, <4>2
    <3>9. Thinned(d, r, k + 1, list, S)
      BY <3>1, <3>5, <3>6, <3>7, <3>8 DEF Thinned
    <3> QED
      BY <2>2, <2>3, <2>5, <3>9 DEF r
  <2>6. CASE x \notin S
    <3>1. Thinned(e, q, k + 1, list, S)
      <4>1. 1..k \subseteq 1..(k + 1) /\ \A a \in 1..(k + 1) : a \in 1..k \/ a = k + 1
        BY <2>2
      <4>2. e \in [1..m -> 1..(k + 1)]
        BY <2>1, <4>1 DEF Thinned
      <4>3. \A a \in 1..(k + 1) : list[a] \in S => \E i \in 1..m : e[i] = a
        BY <2>1, <2>6, <4>1 DEF Thinned
      <4> HIDE DEF m, q, x
      <4> QED
        BY <2>1, <4>2, <4>3 DEF Thinned, m
    <3> QED
      BY <2>2, <2>3, <2>6, <3>1
  <2> QED
    BY <2>5, <2>6
<1>5. n \in N
  <2> HIDE DEF N, n
  <2>1. 0..n \subseteq N
    BY <1>2, <1>3, <1>4, EveryNumberUpTo
  <2> QED
    BY <1>2, <2>1
<1>6. Filtered(list, S) \in Seq(X)
  BY <1>1, <1>2
<1> QED
  BY <1>1, <1>5, <1>6

\* What is left, and only that, was there and belongs to the set.
LEMMA FilteredFacts ==
    ASSUME NEW X, NEW list \in Seq(X), NEW S
    PROVE  /\ Filtered(list, S) \in Seq(X)
           /\ Len(Filtered(list, S)) <= Len(list)
           /\ Range(Filtered(list, S)) = Range(list) \cap S
<1> DEFINE f == Filtered(list, S)
           n == Len(list)
<1>1. PICK e : Thinned(e, f, n, list, S)
  BY FilteredIsThinned
<1>2. f \in Seq(X)
  BY FilteredIsThinned
<1>3. DOMAIN list = 1..n /\ DOMAIN f = 1..Len(f) /\ n \in Nat /\ Len(f) \in Nat
  BY <1>2
<1> HIDE DEF f
<1>4. Range(f) \subseteq Range(list) \cap S
  BY <1>1, <1>3 DEF Range, Thinned
<1>5. Range(list) \cap S \subseteq Range(f)
  <2> SUFFICES ASSUME NEW m \in 1..n, list[m] \in S PROVE list[m] \in Range(f)
    BY <1>3 DEF Range
  <2>1. PICK i \in 1..Len(f) : e[i] = m
    BY <1>1 DEF Thinned
  <2> QED
    BY <1>1, <1>3, <2>1 DEF Range, Thinned
<1>6. Len(f) <= n
  <2> DEFINE M == {k \in 0..Len(f) : k = 0 \/ e[k] >= k}
  <2>1. 0 \in M
    BY <1>3
  <2>2. ASSUME NEW k \in 0..(Len(f) - 1), k \in M PROVE k + 1 \in M
    <3>1. k + 1 \in 1..Len(f) /\ k + 1 \in 0..Len(f) /\ e[k + 1] \in 1..n
      BY <1>1, <1>3 DEF Thinned
    <3>2. CASE k = 0
      BY <1>3, <3>1, <3>2
    <3>3. CASE k # 0
      <4>1. k \in 1..Len(f) /\ e[k] \in 1..n
        BY <1>1, <1>3, <3>3 DEF Thinned
      <4>2. e[k] < e[k + 1]
        BY <1>1, <1>3, <3>1, <4>1 DEF Thinned
      <4>3. e[k] >= k
        BY <2>2, <3>3
      <4> QED
        BY <1>3, <3>1, <4>1, <4>2, <4>3
    <3> QED
      BY <3>2, <3>3
  <2>3. Len(f) \in M
    <3> DEFINE u == Len(f)
    <3>1. u \in Nat
      BY <1>3
    <3> HIDE DEF M, u
    <3>2. 0..u \subseteq M
      BY <2>1, <2>2, <3>1, EveryNumberUpTo DEF u
    <3> QED
      BY <3>1, <3>2 DEF u
  <2>4. CASE Len(f) = 0
    BY <1>3, <2>4
  <2>5. CASE Len(f) # 0
    <3>1. e[Len(f)] \in 1..n
      BY <1>1, <1>3, <2>5 DEF Thinned
    <3> QED
      BY <1>3, <2>3, <2>5, <3>1
  <2> QED
    BY <2>4, <2>5
<1> QED
  BY <1>2, <1>4, <1>5, <1>6 DEF f

\* Nothing is left out of a list whose elements all pass.
LEMMA FilteredAll ==
    ASSUME NEW X, NEW list \in Seq(X), NEW S, \A k \in 1..Len(list) : list[k] \in S
    PROVE  Filtered(list, S) = list
<1> DEFINE n == Len(list)
           V == Seq(X)
<1>1. PICK p \in [0..n -> V] :
         /\ p[0] = <<>> /\ p[n] = Filtered(list, S)
         /\ \A k \in 1..n :
               p[k] = IF list[k] \in S THEN Append(p[k - 1], list[k]) ELSE p[k - 1]
  <2>1. PICK p : FilterLaw(p, X, list, S)
    BY FilteredSteps
  <2> QED
    BY <2>1 DEF FilterLaw
<1>2. n \in Nat /\ \A k \in 1..n : list[k] \in X
  OBVIOUS
<1> DEFINE Copy(q, k) == q \in Seq(X) /\ Len(q) = k /\ \A i \in 1..k : q[i] = list[i]
           N == {k \in 0..n : Copy(p[k], k)}
<1>3. 0 \in N
  BY <1>1, <1>2
<1>4. ASSUME NEW k \in 0..(n - 1), k \in N PROVE k + 1 \in N
  <2>1. k \in Nat /\ k \in 0..n /\ k + 1 \in 1..n /\ k + 1 \in 0..n /\ (k + 1) - 1 = k
    BY <1>2
  <2>2. p[k + 1] = Append(p[k], list[k + 1])
    BY <1>1, <2>1
  <2>3. Copy(p[k], k) /\ list[k + 1] \in X
    BY <1>2, <1>4, <2>1
  <2>4. ASSUME NEW q, Copy(q, k) PROVE Copy(Append(q, list[k + 1]), k + 1)
    BY <2>1, <2>3, <2>4
  <2>5. Copy(p[k + 1], k + 1)
    <3> HIDE DEF Copy
    <3> QED
      BY <2>2, <2>3, <2>4
  <2> HIDE DEF Copy
  <2> QED
    BY <2>1, <2>5
<1>5. Copy(p[n], n)
  <2> HIDE DEF N, n, Copy
  <2>1. 0..n \subseteq N
    BY <1>2, <1>3, <1>4, EveryNumberUpTo
  <2> QED
    BY <1>2, <2>1 DEF N
<1>6. Copy(list, n)
  BY <1>2
<1>7. \A q \in Seq(X), r \in Seq(X) : Copy(q, n) /\ Copy(r, n) => q = r
  BY <1>2, SeqEqual
<1> QED
  BY <1>1, <1>5, <1>6, <1>7

-----------------------------------------------------------------------------
(* Sums over lists *)

\* What the elements of a list weigh.
ListSum(w, list) == SumFunctionOnSet([i \in 1..Len(list) |-> w[list[i]]], 1..Len(list))

LEMMA ListSumNat ==
    ASSUME NEW X, NEW list \in Seq(X), NEW w \in [X -> Nat]
    PROVE  ListSum(w, list) \in Nat
<1> DEFINE S == 1..Len(list)
           f == [i \in S |-> w[list[i]]]
<1>1. IsFiniteSet(S) /\ \A i \in S : f[i] \in Nat
  <2>1. Len(list) \in Nat /\ \A i \in S : list[i] \in X
    OBVIOUS
  <2> QED
    BY <2>1, FS_Interval
<1>2. SumFunctionOnSet(f, S) \in Nat
  <2> HIDE DEF S, f
  <2> QED
    BY <1>1, SumNat
<1> QED
  BY <1>2 DEF ListSum

\* The partial sums of a function on the first numbers.
LEMMA SumSteps ==
    ASSUME NEW n \in Nat, NEW f, \A i \in 1..n : f[i] \in Nat, NEW k \in 1..n
    PROVE  SumFunctionOnSet(f, 1..k) = SumFunctionOnSet(f, 1..(k - 1)) + f[k]
           /\ SumFunctionOnSet(f, 1..(k - 1)) \in Nat
<1>1. /\ IsFiniteSet(1..k) /\ IsFiniteSet(1..(k - 1)) /\ k \in 1..k /\ (1..k) \ {k} = 1..(k - 1)
      /\ \A i \in 1..k : f[i] \in Int
      /\ \A i \in 1..(k - 1) : f[i] \in Nat
  BY FS_Interval
<1>2. SumFunctionOnSet(f, 1..k) = f[k] + SumFunctionOnSet(f, (1..k) \ {k})
  BY <1>1, SumAdd
<1>3. SumFunctionOnSet(f, 1..(k - 1)) \in Nat
  BY <1>1, SumNat
<1>4. f[k] \in Nat
  OBVIOUS
<1>5. SumFunctionOnSet(f, (1..k) \ {k}) = SumFunctionOnSet(f, 1..(k - 1))
  BY <1>1, Zenon
<1> QED
  BY <1>2, <1>3, <1>4, <1>5

LEMMA ListSumAppend ==
    ASSUME NEW X, NEW list \in Seq(X), NEW w \in [X -> Nat], NEW x \in X
    PROVE  ListSum(w, Append(list, x)) = ListSum(w, list) + w[x]
<1> DEFINE n == Len(list)
           more == Append(list, x)
           f == [i \in 1..n |-> w[list[i]]]
           g == [i \in 1..(n + 1) |-> w[more[i]]]
<1>1. /\ n \in Nat /\ Len(more) = n + 1 /\ more[n + 1] = x /\ \A i \in 1..n : more[i] = list[i]
      /\ \A i \in 1..n : list[i] \in X
  OBVIOUS
<1>2. n + 1 \in 1..(n + 1) /\ (n + 1) - 1 = n /\ n + 1 \in Nat /\ \A i \in 1..n : i \in 1..(n + 1)
  BY <1>1
<1>3. \A i \in 1..(n + 1) : more[i] \in X
  BY <1>1, AppendProperties
<1>4. (\A i \in 1..(n + 1) : g[i] \in Nat) /\ g[n + 1] = w[x]
      /\ \A i \in 1..n : f[i] \in Int /\ f[i] = g[i]
  <2> HIDE DEF n, more
  <2> QED
    BY <1>1, <1>2, <1>3
<1>5. ListSum(w, list) = SumFunctionOnSet(f, 1..n)
      /\ ListSum(w, more) = SumFunctionOnSet(g, 1..(n + 1))
  BY <1>1 DEF ListSum
<1>6. IsFiniteSet(1..n)
  BY <1>1, FS_Interval
<1> HIDE DEF f, g, n, more
<1>7. SumFunctionOnSet(f, 1..n) = SumFunctionOnSet(g, 1..n)
  BY <1>4, <1>6, SumSame
<1>8. SumFunctionOnSet(g, 1..(n + 1)) = SumFunctionOnSet(g, 1..n) + g[n + 1]
  BY <1>2, <1>4, SumSteps
<1> QED
  BY <1>4, <1>5, <1>7, <1>8 DEF more

\* What is left weighs as much as the list does when the others weigh nothing.
LEMMA FilteredSum ==
    ASSUME NEW X, NEW list \in Seq(X), NEW S, NEW w \in [X -> Nat]
    PROVE  ListSum(w, Filtered(list, S)) = ListSum([x \in X |-> IF x \in S THEN w[x] ELSE 0], list)
<1> DEFINE n == Len(list)
           v == [x \in X |-> IF x \in S THEN w[x] ELSE 0]
           f == [i \in 1..n |-> v[list[i]]]
<1>1. PICK p \in [0..n -> Seq(X)] :
         /\ p[0] = <<>> /\ p[n] = Filtered(list, S)
         /\ \A k \in 1..n :
               p[k] = IF list[k] \in S THEN Append(p[k - 1], list[k]) ELSE p[k - 1]
  <2>1. PICK p : FilterLaw(p, X, list, S)
    BY FilteredSteps
  <2> QED
    BY <2>1 DEF FilterLaw
<1>2. n \in Nat /\ \A k \in 1..n : list[k] \in X
  OBVIOUS
<1>3. \A k \in 1..n : f[k] \in Nat /\ f[k] = IF list[k] \in S THEN w[list[k]] ELSE 0
  BY <1>2
<1>4. ListSum(v, list) = SumFunctionOnSet(f, 1..n)
  BY DEF ListSum
<1> HIDE DEF n, v, f
<1> DEFINE N == {k \in 0..n : ListSum(w, p[k]) = SumFunctionOnSet(f, 1..k)}
<1>5. 0 \in N
  <2>1. 0 \in 0..n /\ 1..0 = {}
    BY <1>2
  <2>2. ListSum(w, p[0]) = 0
    <3>1. 1..Len(<<>>) = {}
      OBVIOUS
    <3> QED
      BY <1>1, <3>1, SumEmpty DEF ListSum
  <2> QED
    BY <2>1, <2>2, SumEmpty
<1>6. ASSUME NEW k \in 0..(n - 1), k \in N PROVE k + 1 \in N
  <2> DEFINE m == k + 1
  <2>1. m \in 1..n /\ m \in 0..n /\ m - 1 = k /\ k \in 0..n
    BY <1>2
  <2>2. SumFunctionOnSet(f, 1..m) = SumFunctionOnSet(f, 1..k) + f[m]
    <3> HIDE DEF m
    <3> QED
      BY <1>2, <1>3, <2>1, SumSteps
  <2>3. p[k] \in Seq(X) /\ list[m] \in X /\ w[list[m]] \in Nat
    <3> HIDE DEF m
    <3> QED
      BY <1>1, <1>2, <2>1
  <2>4. ListSum(w, p[m]) = ListSum(w, p[k]) + f[m]
    <3>1. ListSum(w, p[k]) \in Nat
      BY <2>3, ListSumNat
    <3>2. CASE list[m] \in S
      <4>1. p[m] = Append(p[k], list[m]) /\ f[m] = w[list[m]]
        BY <1>1, <1>3, <2>1, <3>2
      <4> QED
        BY <2>3, <4>1, ListSumAppend
    <3>3. CASE list[m] \notin S
      <4>1. p[m] = p[k] /\ f[m] = 0
        BY <1>1, <1>3, <2>1, <3>3
      <4> QED
        BY <3>1, <4>1
    <3> QED
      BY <3>2, <3>3
  <2>5. ListSum(w, p[k]) = SumFunctionOnSet(f, 1..k)
    BY <1>6
  <2> QED
    BY <2>1, <2>2, <2>4, <2>5
<1>7. n \in N
  <2> HIDE DEF N
  <2>1. 0..n \subseteq N
    BY <1>2, <1>5, <1>6, EveryNumberUpTo
  <2> QED
    BY <1>2, <2>1
<1> QED
  BY <1>1, <1>4, <1>7 DEF v
=============================================================================
