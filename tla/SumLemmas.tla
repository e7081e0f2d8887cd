----------------------------- MODULE SumLemmas -----------------------------
(***************************************************************************)
(* Facts about sums over finite sets, SumFunctionOnSet of the community    *)
(* modules, which the accounting invariants are made of: a sum without one *)
(* of its elements, a sum of which one value changes, sums compared value  *)
(* by value.                                                               *)
(*                                                                         *)
(* Induction over finite sets is one lemma, SetInduction, about a set of   *)
(* sets; what is proved by it is the set of the subsets that have it.      *)
(***************************************************************************)
EXTENDS Integers, FiniteSetsExt, Functions, TLAPS, FiniteSetTheorems, WellFoundedInduction

\* A nonempty set of naturals has a least element.
LEMMA LeastNatural ==
  ASSUME NEW S \in SUBSET Nat, S # {}
  PROVE  \E m \in S : \A n \in S : m <= n
<1> DEFINE R == OpToRel(<, Nat)
<1>1. IsWellFoundedOn(R, Nat)
  BY NatLessThanWellFounded
<1>2. \A x, y \in Nat : x < y => <<x, y>> \in R
  BY DEF OpToRel
<1> HIDE DEF R
<1>3. PICK m \in S : \A n \in S : ~(<<n, m>> \in R)
  BY <1>1, WFMin
<1>4. \A n \in S : ~(n < m)
  BY <1>2, <1>3
<1> QED
  BY <1>4

\* Whatever holds 0, and with a number the next, holds every natural.
LEMMA NumberInduction ==
  ASSUME NEW Good, 0 \in Good, \A n \in Nat : n \in Good => n + 1 \in Good
  PROVE  Nat \subseteq Good
<1> SUFFICES ASSUME Nat \ Good # {} PROVE FALSE
  OBVIOUS
<1>1. PICK m \in Nat \ Good : \A n \in Nat \ Good : m <= n
  BY LeastNatural
<1>2. m - 1 \in Nat /\ (m - 1) + 1 = m
  BY <1>1
<1>3. m - 1 \in Good
  BY <1>1, <1>2
<1> QED
  BY <1>1, <1>2, <1>3

\* Sets that hold the empty set, and with all sets that lack one element of it
\* the set itself, hold every subset of a finite set.
LEMMA SetInduction ==
  ASSUME NEW S, IsFiniteSet(S), NEW Good,
         {} \in Good,
         \A s \in SUBSET S : s # {} /\ (\A x \in s : s \ {x} \in Good) => s \in Good
  PROVE  SUBSET S \subseteq Good
<1> DEFINE Sizes == {Cardinality(s) : s \in (SUBSET S) \ Good}
<1>1. \A s \in SUBSET S : IsFiniteSet(s) /\ Cardinality(s) \in Nat
  BY FS_Subset, FS_CardinalityType
<1>2. SUFFICES ASSUME Sizes # {} PROVE FALSE
  OBVIOUS
<1>3. PICK m \in Sizes : \A n \in Sizes : m <= n
  <2>1. Sizes \in SUBSET Nat
    BY <1>1
  <2> HIDE DEF Sizes
  <2> QED
    BY <1>2, <2>1, LeastNatural
<1>4. PICK s \in (SUBSET S) \ Good : Cardinality(s) = m
  BY <1>3
<1>5. ASSUME NEW x \in s PROVE s \ {x} \in Good
  <2>1. ~(m <= Cardinality(s \ {x}))
    <3>1. Cardinality(s \ {x}) = Cardinality(s) - 1 /\ Cardinality(s) \in Nat
      BY <1>1, <1>4, FS_RemoveElement
    <3> QED
      BY <1>4, <3>1
  <2>2. s \ {x} \in SUBSET S
    OBVIOUS
  <2> QED
    BY <1>3, <2>1, <2>2
<1> QED
  BY <1>4, <1>5

\* What SumFunctionOnSet takes from a set next.
Chosen(s) == CHOOSE x \in s : TRUE

\* g is the recursive function of a sum over the subsets of S.
SumsOf(g, f, S) ==
  g = [s \in SUBSET S |-> IF s = {} THEN 0 ELSE f[Chosen(s)] + g[s \ {Chosen(s)}]]

LEMMA SumDefined ==
  ASSUME NEW f, NEW S
  PROVE  SumFunctionOnSet(f, S) = (CHOOSE g : SumsOf(g, f, S))[S]
  BY DEF SumFunctionOnSet, FoldFunctionOnSet, MapThenFoldSet, SumsOf, Chosen

\* There is one for every finite set: the subsets of at most n elements have
\* one for every n.
LEMMA SumsExist ==
  ASSUME NEW f, NEW S, IsFiniteSet(S)
  PROVE  \E g : SumsOf(g, f, S)
<1> DEFINE F(g, s) == IF s = {} THEN 0 ELSE f[Chosen(s)] + g[s \ {Chosen(s)}]
           Small(n) == {s \in SUBSET S : Cardinality(s) <= n}
           Solves(g, n) == g = [s \in Small(n) |-> F(g, s)]
           Good == {n \in Nat : \E g : Solves(g, n)}
<1>1. \A s \in SUBSET S : IsFiniteSet(s) /\ Cardinality(s) \in Nat
  BY FS_Subset, FS_CardinalityType
<1>2. \A s \in SUBSET S : s # {} => /\ s \ {Chosen(s)} \in SUBSET S
                                   /\ Cardinality(s \ {Chosen(s)}) = Cardinality(s) - 1
  <2> SUFFICES ASSUME NEW s \in SUBSET S, s # {}
               PROVE  Cardinality(s \ {Chosen(s)}) = Cardinality(s) - 1
    OBVIOUS
  <2>1. Chosen(s) \in s
    BY DEF Chosen
  <2> QED
    BY <1>1, <2>1, FS_RemoveElement
<1>3. 0 \in Good
  <2>1. \A s \in Small(0) : s = {}
    <3> SUFFICES ASSUME NEW s \in SUBSET S, Cardinality(s) <= 0 PROVE s = {}
      OBVIOUS
    <3>1. Cardinality(s) = 0
      BY <1>1
    <3> QED
      BY <1>1, <3>1, FS_EmptySet
  <2>2. Solves([s \in Small(0) |-> 0], 0)
    BY <2>1
  <2> QED
    BY <2>2
<1>4. ASSUME NEW n \in Nat, n \in Good PROVE n + 1 \in Good
  <2>1. PICK g : Solves(g, n)
    BY <1>4
  <2> DEFINE h == [s \in Small(n + 1) |-> F(g, s)]
  <2>2. \A s \in Small(n) : s \in Small(n + 1) /\ g[s] = F(g, s)
    <3>1. \A s \in Small(n) : s \in Small(n + 1)
      BY <1>1
    <3> HIDE DEF Small, F
    <3> QED
      BY <2>1, <3>1
  <2>3. ASSUME NEW s \in Small(n + 1), s # {} PROVE s \ {Chosen(s)} \in Small(n)
    BY <1>1, <1>2, <2>3
  <2> HIDE DEF Small
  <2>4. \A s \in Small(n + 1) : F(g, s) = F(h, s)
    BY <2>2, <2>3
  <2>5. Solves(h, n + 1)
    <3> HIDE DEF F
    <3> QED
      BY <2>4
  <2> HIDE DEF h, Solves
  <2> QED
    BY <2>5
<1>5. Cardinality(S) \in Good
  <2> HIDE DEF Good
  <2> QED
    BY <1>1, <1>3, <1>4, NumberInduction
<1>6. PICK g : Solves(g, Cardinality(S))
  BY <1>5
<1>7. Small(Cardinality(S)) = SUBSET S
  <2>1. \A s \in SUBSET S : Cardinality(s) <= Cardinality(S)
    BY FS_Subset
  <2> QED
    BY <2>1
<1> HIDE DEF Small
<1>8. g = [s \in SUBSET S |-> F(g, s)]
  BY <1>6, <1>7
<1> QED
  BY <1>8 DEF SumsOf

\* Any two agree where both are defined.
LEMMA SumsAgree ==
  ASSUME NEW f, NEW S, NEW T, IsFiniteSet(S), IsFiniteSet(T),
         NEW g, SumsOf(g, f, S), NEW h, SumsOf(h, f, T)
  PROVE  \A s \in (SUBSET S) \cap (SUBSET T) : g[s] = h[s]
<1> DEFINE Good == {s \in SUBSET (S \cap T) : g[s] = h[s]}
<1>1. IsFiniteSet(S \cap T)
  BY FS_Intersection
<1>2. /\ \A s \in SUBSET S : g[s] = IF s = {} THEN 0 ELSE f[Chosen(s)] + g[s \ {Chosen(s)}]
      /\ \A s \in SUBSET T : h[s] = IF s = {} THEN 0 ELSE f[Chosen(s)] + h[s \ {Chosen(s)}]
  BY DEF SumsOf
<1>3. {} \in Good
  BY <1>2
<1>4. ASSUME NEW s \in SUBSET (S \cap T), s # {}, \A x \in s : s \ {x} \in Good
      PROVE  s \in Good
  <2>1. Chosen(s) \in s /\ s \in SUBSET S /\ s \in SUBSET T
    BY <1>4 DEF Chosen
  <2>2. g[s \ {Chosen(s)}] = h[s \ {Chosen(s)}]
    BY <1>4, <2>1
  <2> QED
    BY <1>2, <1>4, <2>1, <2>2
<1>5. SUBSET (S \cap T) \subseteq Good
  <2> HIDE DEF Good
  <2> QED
    BY <1>1, <1>3, <1>4, SetInduction
<1> QED
  BY <1>5

\* The recursion of sums.
LEMMA SumUnfold ==
  ASSUME NEW f, NEW S, IsFiniteSet(S)
  PROVE  /\ S = {} => SumFunctionOnSet(f, S) = 0
         /\ S # {} => /\ Chosen(S) \in S
                      /\ SumFunctionOnSet(f, S) =
                           f[Chosen(S)] + SumFunctionOnSet(f, S \ {Chosen(S)})
<1> DEFINE g == CHOOSE g : SumsOf(g, f, S)
           T == S \ {Chosen(S)}
           h == CHOOSE h : SumsOf(h, f, T)
<1>1. IsFiniteSet(T)
  BY FS_Subset
<1>2. SumsOf(g, f, S)
  BY SumsExist
<1>3. SumsOf(h, f, T)
  BY <1>1, SumsExist
<1>4. SumFunctionOnSet(f, S) = g[S] /\ SumFunctionOnSet(f, T) = h[T]
  BY SumDefined
<1> HIDE DEF g, h, T
<1>5. g[S] = IF S = {} THEN 0 ELSE f[Chosen(S)] + g[S \ {Chosen(S)}]
  BY <1>2 DEF SumsOf
<1>6. g[T] = h[T]
  BY <1>1, <1>2, <1>3, SumsAgree DEF T
<1>7. S # {} => Chosen(S) \in S
  BY DEF Chosen
<1> QED
  BY <1>4, <1>5, <1>6, <1>7 DEF T
\* The sum over no elements.
LEMMA SumEmpty ==
  ASSUME NEW f
  PROVE  SumFunctionOnSet(f, {}) = 0
<1>1. IsFiniteSet({})
  BY FS_EmptySet
<1> QED
  BY <1>1, SumUnfold
-----------------------------------------------------------------------------
\* A sum of integers is an integer.
LEMMA SumType ==
  ASSUME NEW S, IsFiniteSet(S), NEW f, \A x \in S : f[x] \in Int
  PROVE  SumFunctionOnSet(f, S) \in Int
<1> DEFINE Good == {s \in SUBSET S : SumFunctionOnSet(f, s) \in Int}
<1>1. {} \in Good
  BY SumEmpty
<1>2. ASSUME NEW s \in SUBSET S, s # {}, \A x \in s : s \ {x} \in Good
      PROVE  s \in Good
  <2>1. IsFiniteSet(s)
    BY FS_Subset
  <2>2. Chosen(s) \in s /\ SumFunctionOnSet(f, s) = f[Chosen(s)] + SumFunctionOnSet(f, s \ {Chosen(s)})
    BY <1>2, <2>1, SumUnfold
  <2> QED
    BY <1>2, <2>2
<1>3. SUBSET S \subseteq Good
  <2> HIDE DEF Good
  <2> QED
    BY <1>1, <1>2, SetInduction
<1> QED
  BY <1>3

\* The order does not matter: any element can be taken first.
LEMMA SumWithout ==
  ASSUME NEW S, IsFiniteSet(S), NEW f, \A x \in S : f[x] \in Int, NEW x \in S
  PROVE  SumFunctionOnSet(f, S) = f[x] + SumFunctionOnSet(f, S \ {x})
<1> DEFINE Good == {s \in SUBSET S : \A y \in s :
                      SumFunctionOnSet(f, s) = f[y] + SumFunctionOnSet(f, s \ {y})}
<1>1. {} \in Good
  OBVIOUS
<1>2. ASSUME NEW s \in SUBSET S, s # {}, \A y \in s : s \ {y} \in Good
      PROVE  s \in Good
  <2> SUFFICES ASSUME NEW y \in s
               PROVE  SumFunctionOnSet(f, s) = f[y] + SumFunctionOnSet(f, s \ {y})
    OBVIOUS
  <2> DEFINE z == Chosen(s)
             r == (s \ {y}) \ {z}
  <2>1. z \in s /\ SumFunctionOnSet(f, s) = f[z] + SumFunctionOnSet(f, s \ {z})
    <3>1. IsFiniteSet(s)
      BY FS_Subset
    <3> QED
      BY <1>2, <3>1, SumUnfold
  <2> HIDE DEF z
  <2>2. CASE y = z
    BY <2>1, <2>2
  <2>3. CASE y # z
    <3>1. s \ {z} \in Good /\ y \in s \ {z} /\ s \ {y} \in Good /\ z \in s \ {y}
      BY <1>2, <2>1, <2>3
    <3>2. SumFunctionOnSet(f, s \ {z}) = f[y] + SumFunctionOnSet(f, (s \ {z}) \ {y})
      BY <3>1
    <3>3. SumFunctionOnSet(f, s \ {y}) = f[z] + SumFunctionOnSet(f, r)
      BY <3>1
    <3>4. (s \ {z}) \ {y} = r
      OBVIOUS
    <3>5. SumFunctionOnSet(f, r) \in Int
      <4>1. IsFiniteSet(r)
        BY FS_Subset
      <4> QED
        BY <4>1, SumType
    <3>6. f[y] \in Int /\ f[z] \in Int
      BY <2>1
    <3>7. f[z] + (f[y] + SumFunctionOnSet(f, r)) = f[y] + (f[z] + SumFunctionOnSet(f, r))
      <4> HIDE DEF Good, r
      <4> QED
        BY <3>5, <3>6
    <3>8. SumFunctionOnSet(f, s) = f[z] + (f[y] + SumFunctionOnSet(f, r))
      <4> HIDE DEF Good, r
      <4> QED
        BY <2>1, <3>2, <3>4
    <3> QED
      <4> HIDE DEF Good, r
      <4> QED
        BY <3>3, <3>7, <3>8
  <2> QED
    BY <2>2, <2>3
<1>3. SUBSET S \subseteq Good
  <2> HIDE DEF Good
  <2> QED
    BY <1>1, <1>2, SetInduction
<1> QED
  BY <1>3

\* A sum depends on the values on the set only.
LEMMA SumSame ==
  ASSUME NEW S, IsFiniteSet(S), NEW f, NEW g, \A x \in S : f[x] = g[x]
  PROVE  SumFunctionOnSet(f, S) = SumFunctionOnSet(g, S)
<1> DEFINE Good == {s \in SUBSET S : SumFunctionOnSet(f, s) = SumFunctionOnSet(g, s)}
<1>1. {} \in Good
  <2>1. SumFunctionOnSet(f, {}) = 0 /\ SumFunctionOnSet(g, {}) = 0
    BY SumEmpty
  <2> QED
    BY <2>1
<1>2. ASSUME NEW s \in SUBSET S, s # {}, \A x \in s : s \ {x} \in Good
      PROVE  s \in Good
  <2>1. IsFiniteSet(s)
    BY FS_Subset
  <2>2. /\ Chosen(s) \in s
        /\ SumFunctionOnSet(f, s) = f[Chosen(s)] + SumFunctionOnSet(f, s \ {Chosen(s)})
        /\ SumFunctionOnSet(g, s) = g[Chosen(s)] + SumFunctionOnSet(g, s \ {Chosen(s)})
    BY <1>2, <2>1, SumUnfold
  <2> QED
    BY <1>2, <2>2
<1>3. SUBSET S \subseteq Good
  <2> HIDE DEF Good
  <2> QED
    BY <1>1, <1>2, SetInduction
<1> QED
  BY <1>3

\* Smaller values have a smaller sum.
LEMMA SumLess ==
  ASSUME NEW S, IsFiniteSet(S), NEW f, NEW g,
         \A x \in S : f[x] \in Int /\ g[x] \in Int /\ f[x] <= g[x]
  PROVE  SumFunctionOnSet(f, S) <= SumFunctionOnSet(g, S)
<1> DEFINE Good == {s \in SUBSET S : SumFunctionOnSet(f, s) <= SumFunctionOnSet(g, s)}
<1>1. {} \in Good
  <2>1. SumFunctionOnSet(f, {}) = 0 /\ SumFunctionOnSet(g, {}) = 0
    BY SumEmpty
  <2> QED
    BY <2>1
<1>2. ASSUME NEW s \in SUBSET S, s # {}, \A x \in s : s \ {x} \in Good
      PROVE  s \in Good
  <2> DEFINE z == Chosen(s)
  <2>1. IsFiniteSet(s) /\ IsFiniteSet(s \ {z})
    BY FS_Subset
  <2>2. /\ z \in s
        /\ SumFunctionOnSet(f, s) = f[z] + SumFunctionOnSet(f, s \ {z})
        /\ SumFunctionOnSet(g, s) = g[z] + SumFunctionOnSet(g, s \ {z})
    BY <1>2, <2>1, SumUnfold
  <2>3. SumFunctionOnSet(f, s \ {z}) \in Int /\ SumFunctionOnSet(g, s \ {z}) \in Int
    BY <2>1, SumType
  <2>4. SumFunctionOnSet(f, s \ {z}) <= SumFunctionOnSet(g, s \ {z})
    BY <1>2, <2>2
  <2>5. f[z] \in Int /\ g[z] \in Int /\ f[z] <= g[z]
    BY <2>2
  <2>6. SumFunctionOnSet(f, s) <= SumFunctionOnSet(g, s)
    <3> HIDE DEF z, Good
    <3> QED
      BY <2>2, <2>3, <2>4, <2>5
  <2> QED
    BY <2>6
<1>3. SUBSET S \subseteq Good
  <2> HIDE DEF Good
  <2> QED
    BY <1>1, <1>2, SetInduction
<1> QED
  BY <1>3

\* What becomes of a sum when one value changes.
LEMMA SumChange ==
  ASSUME NEW S, IsFiniteSet(S), NEW f, NEW g, NEW x \in S,
         \A y \in S : f[y] \in Int /\ g[y] \in Int,
         \A y \in S \ {x} : g[y] = f[y]
  PROVE  SumFunctionOnSet(g, S) = SumFunctionOnSet(f, S) - f[x] + g[x]
<1>1. IsFiniteSet(S \ {x})
  BY FS_Subset
<1>2. SumFunctionOnSet(f, S) = f[x] + SumFunctionOnSet(f, S \ {x})
  BY SumWithout
<1>3. SumFunctionOnSet(g, S) = g[x] + SumFunctionOnSet(g, S \ {x})
  BY SumWithout
<1>4. SumFunctionOnSet(f, S \ {x}) = SumFunctionOnSet(g, S \ {x})
  BY <1>1, SumSame
<1>5. SumFunctionOnSet(f, S \ {x}) \in Int
  BY <1>1, SumType
<1> QED
  BY <1>2, <1>3, <1>4, <1>5

\* When all values are 0, the sum is.
LEMMA SumZero ==
  ASSUME NEW S, IsFiniteSet(S), NEW f, \A x \in S : f[x] = 0
  PROVE  SumFunctionOnSet(f, S) = 0
<1> DEFINE Good == {s \in SUBSET S : SumFunctionOnSet(f, s) = 0}
<1>1. {} \in Good
  BY SumEmpty
<1>2. ASSUME NEW s \in SUBSET S, s # {}, \A x \in s : s \ {x} \in Good
      PROVE  s \in Good
  <2>1. IsFiniteSet(s)
    BY FS_Subset
  <2>2. /\ Chosen(s) \in s
        /\ SumFunctionOnSet(f, s) = f[Chosen(s)] + SumFunctionOnSet(f, s \ {Chosen(s)})
    BY <1>2, <2>1, SumUnfold
  <2> QED
    BY <1>2, <2>2
<1>3. SUBSET S \subseteq Good
  <2> HIDE DEF Good
  <2> QED
    BY <1>1, <1>2, SetInduction
<1> QED
  BY <1>3

\* A sum of naturals is a natural.
LEMMA SumNat ==
  ASSUME NEW S, IsFiniteSet(S), NEW f, \A x \in S : f[x] \in Nat
  PROVE  SumFunctionOnSet(f, S) \in Nat
<1> DEFINE Good == {s \in SUBSET S : SumFunctionOnSet(f, s) \in Nat}
<1>1. {} \in Good
  BY SumEmpty
<1>2. ASSUME NEW s \in SUBSET S, s # {}, \A x \in s : s \ {x} \in Good
      PROVE  s \in Good
  <2>1. IsFiniteSet(s)
    BY FS_Subset
  <2>2. /\ Chosen(s) \in s
        /\ SumFunctionOnSet(f, s) = f[Chosen(s)] + SumFunctionOnSet(f, s \ {Chosen(s)})
    BY <1>2, <2>1, SumUnfold
  <2> QED
    BY <1>2, <2>2
<1>3. SUBSET S \subseteq Good
  <2> HIDE DEF Good
  <2> QED
    BY <1>1, <1>2, SetInduction
<1> QED
  BY <1>3

\* What is 0 outside of a set adds nothing.
LEMMA SumRestrict ==
  ASSUME NEW S, IsFiniteSet(S), NEW f, \A x \in S : f[x] \in Int,
         NEW U \in SUBSET S, \A x \in S \ U : f[x] = 0
  PROVE  SumFunctionOnSet(f, S) = SumFunctionOnSet(f, U)
<1> DEFINE Good == {s \in SUBSET S : SumFunctionOnSet(f, s) = SumFunctionOnSet(f, s \cap U)}
<1>1. {} \in Good
  <2>1. {} \cap U = {}
    OBVIOUS
  <2> QED
    BY <2>1
<1>2. ASSUME NEW s \in SUBSET S, s # {}, \A x \in s : s \ {x} \in Good
      PROVE  s \in Good
  <2>1. PICK x : x = Chosen(s)
    OBVIOUS
  <2>2. IsFiniteSet(s) /\ IsFiniteSet(s \cap U)
    BY FS_Subset
  <2>3. x \in s /\ SumFunctionOnSet(f, s) = f[x] + SumFunctionOnSet(f, s \ {x})
    BY <1>2, <2>1, <2>2, SumUnfold
  <2>4. SumFunctionOnSet(f, s \ {x}) = SumFunctionOnSet(f, (s \ {x}) \cap U)
    BY <1>2, <2>3
  <2>5. SumFunctionOnSet(f, s \cap U) \in Int
    BY <2>2, SumType
  <2>6. CASE x \in U
    <3>1. (s \ {x}) \cap U = (s \cap U) \ {x} /\ x \in s \cap U
      BY <2>3, <2>6
    <3>2. SumFunctionOnSet(f, s \cap U) = f[x] + SumFunctionOnSet(f, (s \cap U) \ {x})
      BY <2>2, <3>1, SumWithout
    <3>3. SumFunctionOnSet(f, s) = SumFunctionOnSet(f, s \cap U)
      BY <2>3, <2>4, <3>1, <3>2, Zenon
    <3> QED
      BY <3>3
  <2>7. CASE x \notin U
    <3>1. (s \ {x}) \cap U = s \cap U
      BY <2>7
    <3>2. f[x] = 0
      BY <2>3, <2>7
    <3>3. SumFunctionOnSet(f, s \ {x}) = SumFunctionOnSet(f, s \cap U)
      BY <2>4, <3>1, Zenon
    <3>4. SumFunctionOnSet(f, s) = SumFunctionOnSet(f, s \cap U)
      <4> HIDE DEF Good
      <4> QED
        BY <2>3, <2>5, <3>2, <3>3
    <3> QED
      BY <3>4
  <2> QED
    BY <2>6, <2>7
<1>3. SUBSET S \subseteq Good
  <2> HIDE DEF Good
  <2> QED
    BY <1>1, <1>2, SetInduction
<1>4. S \cap U = U
  OBVIOUS
<1>5. SumFunctionOnSet(f, S) = SumFunctionOnSet(f, S \cap U)
  BY <1>3
<1> QED
  BY <1>4, <1>5, Zenon

\* h names every element of T by one of U, and g by it what f gives.
Names(f, U, g, T, h) ==
  /\ \A x \in T : h[x] \in U /\ g[x] = f[h[x]]
  /\ \A y \in U : \E x \in T : h[x] = y
  /\ \A x, z \in T : h[x] = h[z] => x = z

LEMMA SumNames ==
  ASSUME NEW T, IsFiniteSet(T), NEW U, NEW f, \A y \in U : f[y] \in Int,
         NEW g, NEW h, Names(f, U, g, T, h)
  PROVE  SumFunctionOnSet(f, U) = SumFunctionOnSet(g, T)
<1> DEFINE Image(s) == {h[x] : x \in s}
           Good == {s \in SUBSET T : /\ IsFiniteSet(Image(s))
                                     /\ SumFunctionOnSet(f, Image(s)) = SumFunctionOnSet(g, s)}
<1>1. {} \in Good
  <2>1. Image({}) = {}
    OBVIOUS
  <2>2. SumFunctionOnSet(f, {}) = 0 /\ SumFunctionOnSet(g, {}) = 0
    BY SumEmpty
  <2> QED
    BY <2>1, <2>2, FS_EmptySet
<1>2. ASSUME NEW s \in SUBSET T, s # {}, \A x \in s : s \ {x} \in Good
      PROVE  s \in Good
  <2>1. PICK x : x = Chosen(s)
    OBVIOUS
  <2>2. IsFiniteSet(s)
    BY FS_Subset
  <2>3. x \in s /\ SumFunctionOnSet(g, s) = g[x] + SumFunctionOnSet(g, s \ {x})
    BY <1>2, <2>1, <2>2, SumUnfold
  <2>4. PICK I : I = Image(s)
    OBVIOUS
  <2>5. I \ {h[x]} = Image(s \ {x}) /\ I = Image(s \ {x}) \cup {h[x]} /\ h[x] \in I
    <3>1. \A z \in s : z \in T
      OBVIOUS
    <3>2. \A z \in s : h[z] = h[x] => z = x
      BY <2>3 DEF Names
    <3>3. \A y : y \in I <=> \E z \in s : y = h[z]
      BY <2>4
    <3>4. \A y : y \in Image(s \ {x}) <=> \E z \in s : z # x /\ y = h[z]
      OBVIOUS
    <3> HIDE DEF Image, Good
    <3> QED
      BY <2>3, <3>2, <3>3, <3>4
  <2>6. /\ IsFiniteSet(I \ {h[x]})
        /\ SumFunctionOnSet(f, I \ {h[x]}) = SumFunctionOnSet(g, s \ {x})
    <3>1. /\ IsFiniteSet(Image(s \ {x}))
          /\ SumFunctionOnSet(f, Image(s \ {x})) = SumFunctionOnSet(g, s \ {x})
      BY <1>2, <2>3
    <3> HIDE DEF Image, Good
    <3> QED
      BY <2>5, <3>1
  <2>7. IsFiniteSet(I)
    <3>1. IsFiniteSet((I \ {h[x]}) \cup {h[x]})
      BY <2>6, FS_AddElement
    <3>2. (I \ {h[x]}) \cup {h[x]} = I
      BY <2>5
    <3> HIDE DEF Image, Good
    <3> QED
      BY <3>1, <3>2
  <2>8. \A y \in I : f[y] \in Int
    BY <2>4 DEF Names
  <2>9. SumFunctionOnSet(f, I) = f[h[x]] + SumFunctionOnSet(f, I \ {h[x]})
    BY <2>5, <2>7, <2>8, SumWithout
  <2>10. g[x] = f[h[x]]
    BY <2>3 DEF Names
  <2>11. SumFunctionOnSet(f, I) = SumFunctionOnSet(g, s)
    <3> HIDE DEF Image, Good
    <3> QED
      BY <2>3, <2>6, <2>9, <2>10, Zenon
  <2> QED
    BY <2>4, <2>7, <2>11
<1>3. SUBSET T \subseteq Good
  <2> HIDE DEF Good
  <2> QED
    BY <1>1, <1>2, SetInduction
<1>4. Image(T) = U
  BY DEF Names
<1>5. SumFunctionOnSet(f, Image(T)) = SumFunctionOnSet(g, T)
  BY <1>3
<1> HIDE DEF Image
<1> QED
  BY <1>4, <1>5, Zenon

\* Two functions, value by value.
Adds(f, g, h, S) == \A x \in S : f[x] \in Int /\ g[x] \in Int /\ h[x] = f[x] + g[x]

LEMMA SumAdds ==
  ASSUME NEW S, IsFiniteSet(S), NEW f, NEW g, NEW h, Adds(f, g, h, S)
  PROVE  SumFunctionOnSet(h, S) = SumFunctionOnSet(f, S) + SumFunctionOnSet(g, S)
<1> DEFINE Good == {s \in SUBSET S : SumFunctionOnSet(h, s) =
                                       SumFunctionOnSet(f, s) + SumFunctionOnSet(g, s)}
<1>0. \A x \in S : f[x] \in Int /\ g[x] \in Int
  BY DEF Adds
<1>1. {} \in Good
  <2>1. /\ SumFunctionOnSet(f, {}) = 0 /\ SumFunctionOnSet(g, {}) = 0
        /\ SumFunctionOnSet(h, {}) = 0
    BY SumEmpty
  <2> QED
    BY <2>1
<1>2. ASSUME NEW s \in SUBSET S, s # {}, \A x \in s : s \ {x} \in Good
      PROVE  s \in Good
  <2>1. PICK x : x = Chosen(s)
    OBVIOUS
  <2>2. IsFiniteSet(s) /\ IsFiniteSet(s \ {x})
    BY FS_Subset
  <2>3. /\ x \in s
        /\ SumFunctionOnSet(f, s) = f[x] + SumFunctionOnSet(f, s \ {x})
        /\ SumFunctionOnSet(g, s) = g[x] + SumFunctionOnSet(g, s \ {x})
        /\ SumFunctionOnSet(h, s) = h[x] + SumFunctionOnSet(h, s \ {x})
    BY <1>2, <2>1, <2>2, SumUnfold
  <2>4. SumFunctionOnSet(h, s \ {x}) =
          SumFunctionOnSet(f, s \ {x}) + SumFunctionOnSet(g, s \ {x})
    BY <1>2, <2>3
  <2>5. SumFunctionOnSet(f, s \ {x}) \in Int /\ SumFunctionOnSet(g, s \ {x}) \in Int
    BY <1>0, <2>2, SumType
  <2>6. f[x] \in Int /\ g[x] \in Int /\ h[x] = f[x] + g[x]
    BY <2>3 DEF Adds
  <2>7. SumFunctionOnSet(h, s) = SumFunctionOnSet(f, s) + SumFunctionOnSet(g, s)
    <3> HIDE DEF Good
    <3> QED
      BY <2>3, <2>4, <2>5, <2>6
  <2> QED
    BY <2>7
<1>3. SUBSET S \subseteq Good
  <2> HIDE DEF Good
  <2> QED
    BY <1>1, <1>2, SetInduction
<1> QED
  BY <1>3

\* f is 1 on T and 0 on the rest of S.
Counts(f, S, T) == T \subseteq S /\ \A x \in S : f[x] = IF x \in T THEN 1 ELSE 0

LEMMA SumCounts ==
  ASSUME NEW S, IsFiniteSet(S), NEW f, NEW T, Counts(f, S, T)
  PROVE  SumFunctionOnSet(f, S) = Cardinality(T)
<1> DEFINE Good == {s \in SUBSET S : SumFunctionOnSet(f, s) = Cardinality(s \cap T)}
<1>1. {} \in Good
  <2>1. {} \cap T = {}
    OBVIOUS
  <2> QED
    BY <2>1, SumEmpty, FS_EmptySet
<1>2. ASSUME NEW s \in SUBSET S, s # {}, \A x \in s : s \ {x} \in Good
      PROVE  s \in Good
  <2>1. PICK x : x = Chosen(s)
    OBVIOUS
  <2>2. IsFiniteSet(s)
    BY FS_Subset
  <2>3. x \in s /\ SumFunctionOnSet(f, s) = f[x] + SumFunctionOnSet(f, s \ {x})
    BY <1>2, <2>1, <2>2, SumUnfold
  <2>4. SumFunctionOnSet(f, s \ {x}) = Cardinality((s \ {x}) \cap T)
    BY <1>2, <2>3
  <2>5. IsFiniteSet(s \cap T) /\ Cardinality(s \cap T) \in Nat
    BY <2>2, FS_Subset, FS_CardinalityType
  <2>6. CASE x \in T
    <3>1. (s \ {x}) \cap T = (s \cap T) \ {x} /\ x \in s \cap T
      BY <2>3, <2>6
    <3>2. Cardinality((s \cap T) \ {x}) = Cardinality(s \cap T) - 1
      BY <2>5, <3>1, FS_RemoveElement
    <3>3. f[x] = 1
      BY <2>3, <2>6 DEF Counts
    <3>4. SumFunctionOnSet(f, s \ {x}) = Cardinality(s \cap T) - 1
      BY <2>4, <3>1, <3>2, Zenon
    <3>5. SumFunctionOnSet(f, s) = Cardinality(s \cap T)
      BY <2>3, <2>5, <3>3, <3>4
    <3> QED
      BY <3>5
  <2>7. CASE x \notin T
    <3>1. (s \ {x}) \cap T = s \cap T
      BY <2>7
    <3>2. f[x] = 0
      BY <2>3, <2>7 DEF Counts
    <3> QED
      BY <2>3, <2>4, <2>5, <3>1, <3>2
  <2> QED
    BY <2>6, <2>7
<1>3. SUBSET S \subseteq Good
  <2> HIDE DEF Good
  <2> QED
    BY <1>1, <1>2, SetInduction
<1>4. S \cap T = T
  BY DEF Counts
<1> QED
  BY <1>3, <1>4

\* g is f on S but for d more at x, which may or may not be in S.
Raised(f, g, S, x, d) ==
  /\ d \in Int
  /\ \A y \in S : f[y] \in Int /\ g[y] = IF y = x THEN f[y] + d ELSE f[y]

LEMMA SumRaise ==
  ASSUME NEW S, IsFiniteSet(S), NEW f, NEW g, NEW x, NEW d, Raised(f, g, S, x, d)
  PROVE  /\ SumFunctionOnSet(f, S) \in Int
         /\ SumFunctionOnSet(g, S) =
              SumFunctionOnSet(f, S) + (IF x \in S THEN d ELSE 0)
<1>1. d \in Int /\ \A y \in S : f[y] \in Int /\ g[y] \in Int
  BY DEF Raised
<1>2. \A y \in S : g[y] = IF y = x THEN f[y] + d ELSE f[y]
  BY DEF Raised
<1>3. SumFunctionOnSet(f, S) \in Int
  BY <1>1, SumType
<1>4. CASE x \in S
  <2>1. \A y \in S \ {x} : g[y] = f[y]
    BY <1>2
  <2>2. SumFunctionOnSet(g, S) = SumFunctionOnSet(f, S) - f[x] + g[x]
    BY <1>1, <1>4, <2>1, SumChange
  <2>3. f[x] \in Int /\ g[x] = f[x] + d
    BY <1>1, <1>2, <1>4
  <2> QED
    BY <1>1, <1>3, <1>4, <2>2, <2>3
<1>5. CASE x \notin S
  <2>1. \A y \in S : f[y] = g[y]
    BY <1>2, <1>5
  <2>2. SumFunctionOnSet(f, S) = SumFunctionOnSet(g, S)
    BY <2>1, SumSame
  <2> QED
    BY <1>3, <1>5, <2>2
<1> QED
  BY <1>3, <1>4, <1>5

\* g is f on S but for a more at x and b less at y, which may be the same.
Moved(f, g, S, x, a, y, b) ==
  /\ a \in Int /\ b \in Int
  /\ \A z \in S :
       /\ f[z] \in Int
       /\ g[z] = f[z] + (IF z = x THEN a ELSE 0) - (IF z = y THEN b ELSE 0)

LEMMA SumMove ==
  ASSUME NEW S, IsFiniteSet(S), NEW f, NEW g, NEW x, NEW a, NEW y, NEW b,
         Moved(f, g, S, x, a, y, b)
  PROVE  /\ SumFunctionOnSet(f, S) \in Int
         /\ SumFunctionOnSet(g, S) =
              SumFunctionOnSet(f, S) + (IF x \in S THEN a ELSE 0)
                                     - (IF y \in S THEN b ELSE 0)
<1> DEFINE h == [z \in S |-> IF z = x THEN f[z] + a ELSE f[z]]
           c == -b
<1>1. \A z \in S : h[z] = IF z = x THEN f[z] + a ELSE f[z]
  OBVIOUS
<1>2. a \in Int /\ b \in Int /\ c \in Int
  BY DEF Moved
<1> HIDE DEF h
<1>3. Raised(f, h, S, x, a)
  BY <1>1 DEF Raised, Moved
<1>4. Raised(h, g, S, y, c)
  BY <1>1 DEF Raised, Moved
<1> HIDE DEF c
<1>5. /\ SumFunctionOnSet(f, S) \in Int
      /\ SumFunctionOnSet(h, S) = SumFunctionOnSet(f, S) + (IF x \in S THEN a ELSE 0)
  BY <1>3, SumRaise
<1>6. SumFunctionOnSet(g, S) = SumFunctionOnSet(h, S) + (IF y \in S THEN c ELSE 0)
  BY <1>4, SumRaise
<1> QED
  BY <1>2, <1>5, <1>6 DEF c
=============================================================================
