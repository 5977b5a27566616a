----------------------------- MODULE SumLemmas -----------------------------
(***************************************************************************)
(* Sums over finite sets: what SumFunctionOnSet of the community modules   *)
(* computes, whatever order its fold takes the elements in.  The totals of *)
(* refunds, of subscription usage and of the breaker's window are such     *)
(* sums, and the proofs about them rest on the lemmas from SumType on.     *)
(***************************************************************************)
EXTENDS Integers, FiniteSets, Functions, FiniteSetTheorems, NaturalsInduction,
        WellFoundedInduction, TLAPS

\* Induction over the natural numbers in first-order form: the numbers with the
\* property are given as the set G, so that the provers can use it.
LEMMA NatSetInduction ==
    ASSUME NEW G, 0 \in G, \A n \in Nat : n \in G => n + 1 \in G
    PROVE  \A n \in Nat : n \in G
<1> DEFINE Bad == Nat \ G
           R == OpToRel(<, Nat)
<1>1. SUFFICES ASSUME Bad # {} PROVE FALSE
  OBVIOUS
<1>2. IsWellFoundedOn(R, Nat)
  BY NatLessThanWellFounded
<1>3. PICK n \in Bad : \A k \in Bad : ~(<<k, n>> \in R)
  <2>1. Bad \in SUBSET Nat
    OBVIOUS
  <2> HIDE DEF Bad, R
  <2> QED BY <1>1, <1>2, <2>1, WFMin
<1>4. \A k \in Bad : ~(k < n)
  BY <1>3 DEF OpToRel
<1> HIDE DEF R
<1>5. n # 0 /\ n - 1 \in Nat /\ n - 1 < n
  BY <1>3
<1>6. n - 1 \in G
  BY <1>4, <1>5
<1>7. n \in G
  <2>1. (n - 1) + 1 \in G
    BY <1>5, <1>6
  <2> QED BY <1>3, <2>1
<1> QED BY <1>3, <1>7

\* The element that the folds of the library take first.
Chosen(s) == CHOOSE x \in s : TRUE

\* One step of the library's fold for sums.
Body(f, h, s) == IF s = {} THEN 0 ELSE f[Chosen(s)] + h[s \ {Chosen(s)}]

\* The recursive function inside that fold.
Iter(f, S) == CHOOSE h : h = [s \in SUBSET S |-> Body(f, h, s)]

\* f has integer values on the finite set S.
Summable(f, S) == IsFiniteSet(S) /\ \A x \in S : f[x] \in Int

\* The library's sum is the value of this function at the whole set.
LEMMA SumIter ==
    ASSUME NEW f, NEW S PROVE SumFunctionOnSet(f, S) = Iter(f, S)[S]
  BY DEF SumFunctionOnSet, FoldFunctionOnSet, MapThenFoldSet, Iter, Body, Chosen

\* The chosen element belongs to the set.
LEMMA ChosenIn == ASSUME NEW s, s # {} PROVE Chosen(s) \in s
  BY DEF Chosen

\* Taking an element away leaves a subset that is smaller by one.
LEMMA Smaller ==
    ASSUME NEW S, IsFiniteSet(S), NEW s \in SUBSET S, NEW x \in s
    PROVE  /\ IsFiniteSet(s) /\ Cardinality(s) \in Nat
           /\ s \ {x} \in SUBSET S
           /\ Cardinality(s \ {x}) = Cardinality(s) - 1
<1>1. IsFiniteSet(s)
  BY FS_Subset
<1>2. Cardinality(s) \in Nat
  BY <1>1, FS_CardinalityType
<1>3. Cardinality(s \ {x}) = Cardinality(s) - 1
  BY <1>1, FS_RemoveElement
<1> QED BY <1>1, <1>2, <1>3

\* The subsets of S with at most n elements.
Level(S, n) == {s \in SUBSET S : Cardinality(s) <= n}

\* The recursive definition has a solution, built up by the size of the subsets; without
\* this its CHOOSE would say nothing.
LEMMA IterExists ==
    ASSUME NEW f, NEW S, Summable(f, S)
    PROVE  \E h \in [SUBSET S -> Int] : h = [s \in SUBSET S |-> Body(f, h, s)]
<1> DEFINE P(n) == \E h \in [Level(S, n) -> Int] : \A s \in Level(S, n) : h[s] = Body(f, h, s)
           G == {n \in Nat : P(n)}
<1>0. IsFiniteSet(S) /\ \A x \in S : f[x] \in Int
  BY DEF Summable
<1>1. 0 \in G
  <2> DEFINE h == [s \in Level(S, 0) |-> 0]
  <2>1. \A s \in Level(S, 0) : s = {}
    <3> SUFFICES ASSUME NEW s \in Level(S, 0), s # {} PROVE FALSE
      OBVIOUS
    <3>1. Cardinality(s) <= 0 /\ s \in SUBSET S
      BY DEF Level
    <3>2. PICK x \in s : TRUE
      OBVIOUS
    <3>3. Cardinality(s) \in Nat /\ Cardinality(s \ {x}) = Cardinality(s) - 1
      BY <1>0, <3>1, Smaller
    <3>4. IsFiniteSet(s \ {x})
      BY <1>0, <3>1, FS_Subset
    <3>5. Cardinality(s \ {x}) \in Nat
      BY <3>4, FS_CardinalityType
    <3> QED BY <3>1, <3>3, <3>5
  <2>2. h \in [Level(S, 0) -> Int] /\ \A s \in Level(S, 0) : h[s] = Body(f, h, s)
    BY <2>1 DEF Body
  <2> QED BY <2>2
<1>2. ASSUME NEW n \in Nat, n \in G PROVE n + 1 \in G
  <2>1. PICK h \in [Level(S, n) -> Int] : \A s \in Level(S, n) : h[s] = Body(f, h, s)
    BY <1>2
  <2> DEFINE L == Level(S, n + 1)
             g == [s \in L |-> Body(f, h, s)]
  <2>2. ASSUME NEW s \in L, s # {}
        PROVE  /\ Chosen(s) \in s /\ f[Chosen(s)] \in Int
               /\ s \ {Chosen(s)} \in Level(S, n)
    <3>1. Chosen(s) \in s /\ s \in SUBSET S /\ Cardinality(s) <= n + 1
      BY <2>2, ChosenIn DEF Level
    <3>2. Cardinality(s) \in Nat /\ Cardinality(s \ {Chosen(s)}) = Cardinality(s) - 1
      BY <1>0, <3>1, Smaller
    <3>3. Cardinality(s \ {Chosen(s)}) <= n
      BY <3>1, <3>2
    <3> QED BY <1>0, <3>1, <3>3 DEF Level
  <2>3. g \in [L -> Int]
    <3> SUFFICES ASSUME NEW s \in L PROVE Body(f, h, s) \in Int
      OBVIOUS
    <3>1. CASE s = {}
      BY <3>1 DEF Body
    <3>2. CASE s # {}
      <4>1. f[Chosen(s)] \in Int /\ h[s \ {Chosen(s)}] \in Int
        BY <2>1, <2>2, <3>2
      <4> QED BY <3>2, <4>1 DEF Body
    <3> QED BY <3>1, <3>2
  <2>4. \A s \in Level(S, n) : s \in L /\ g[s] = h[s]
    <3> SUFFICES ASSUME NEW s \in Level(S, n) PROVE s \in L /\ g[s] = h[s]
      OBVIOUS
    <3>1. s \in L
      <4>1. IsFiniteSet(s)
        BY <1>0, FS_Subset DEF Level
      <4>2. Cardinality(s) \in Nat
        BY <4>1, FS_CardinalityType
      <4> QED BY <4>2 DEF Level
    <3> QED BY <2>1, <3>1
  <2>5. \A s \in L : g[s] = Body(f, g, s)
    <3> SUFFICES ASSUME NEW s \in L PROVE Body(f, h, s) = Body(f, g, s)
      OBVIOUS
    <3>1. CASE s = {}
      BY <3>1 DEF Body
    <3>2. CASE s # {}
      <4>1. g[s \ {Chosen(s)}] = h[s \ {Chosen(s)}]
        BY <2>2, <2>4, <3>2
      <4> HIDE DEF g
      <4> QED BY <3>2, <4>1 DEF Body
    <3> QED BY <3>1, <3>2
  <2> HIDE DEF g
  <2> QED BY <2>3, <2>5
<1>3. \A n \in Nat : n \in G
  <2> HIDE DEF G
  <2> QED BY <1>1, <1>2, NatSetInduction
<1>4. Cardinality(S) \in Nat
  BY <1>0, FS_CardinalityType
<1>5. Level(S, Cardinality(S)) = SUBSET S
  <2> SUFFICES ASSUME NEW s \in SUBSET S PROVE Cardinality(s) <= Cardinality(S)
    BY DEF Level
  <2> QED BY <1>0, FS_Subset
<1>6. PICK h \in [SUBSET S -> Int] : \A s \in SUBSET S : h[s] = Body(f, h, s)
  BY <1>3, <1>4, <1>5
<1>7. h = [s \in SUBSET S |-> Body(f, h, s)]
  BY <1>6
<1> QED BY <1>7
\* Solutions for functions that agree on T agree on the subsets of T.
LEMMA FixpointsAgree ==
    ASSUME NEW f1, NEW f2, NEW h1, NEW h2, NEW T, IsFiniteSet(T),
           \A x \in T : f1[x] = f2[x],
           \A s \in SUBSET T : h1[s] = Body(f1, h1, s),
           \A s \in SUBSET T : h2[s] = Body(f2, h2, s)
    PROVE  \A s \in SUBSET T : h1[s] = h2[s]
<1> DEFINE G == {n \in Nat : \A s \in SUBSET T : Cardinality(s) = n => h1[s] = h2[s]}
<1>1. 0 \in G
  <2> SUFFICES ASSUME NEW s \in SUBSET T, Cardinality(s) = 0 PROVE h1[s] = h2[s]
    OBVIOUS
  <2>1. IsFiniteSet(s)
    BY FS_Subset
  <2>2. s = {}
    BY <2>1, FS_EmptySet
  <2>3. h1[s] = Body(f1, h1, s) /\ h2[s] = Body(f2, h2, s)
    OBVIOUS
  <2> QED BY <2>2, <2>3 DEF Body
<1>2. ASSUME NEW n \in Nat, n \in G PROVE n + 1 \in G
  <2> SUFFICES ASSUME NEW s \in SUBSET T, Cardinality(s) = n + 1 PROVE h1[s] = h2[s]
    OBVIOUS
  <2>1. s # {}
    <3>1. Cardinality({}) = 0
      BY FS_EmptySet
    <3> QED BY <3>1
  <2>2. Chosen(s) \in s
    BY <2>1, ChosenIn
  <2>3. s \ {Chosen(s)} \in SUBSET T /\ Cardinality(s \ {Chosen(s)}) = Cardinality(s) - 1
    BY <2>2, Smaller
  <2>4. h1[s \ {Chosen(s)}] = h2[s \ {Chosen(s)}]
    BY <1>2, <2>3
  <2>5. f1[Chosen(s)] = f2[Chosen(s)]
    BY <2>2
  <2>6. h1[s] = Body(f1, h1, s) /\ h2[s] = Body(f2, h2, s)
    OBVIOUS
  <2> QED BY <2>1, <2>4, <2>5, <2>6 DEF Body
<1>3. \A n \in Nat : n \in G
  <2> HIDE DEF G
  <2> QED BY <1>1, <1>2, NatSetInduction
<1> SUFFICES ASSUME NEW s \in SUBSET T PROVE h1[s] = h2[s]
  OBVIOUS
<1>4. IsFiniteSet(s)
  BY FS_Subset
<1>5. Cardinality(s) \in Nat
  BY <1>4, FS_CardinalityType
<1> QED BY <1>3, <1>5

\* Hence the function inside the fold satisfies its own definition, with integer values.
LEMMA IterFixpoint ==
    ASSUME NEW f, NEW S, Summable(f, S)
    PROVE  \A s \in SUBSET S : /\ Iter(f, S)[s] = Body(f, Iter(f, S), s)
                               /\ Iter(f, S)[s] \in Int
<1>1. PICK h \in [SUBSET S -> Int] : h = [s \in SUBSET S |-> Body(f, h, s)]
  BY IterExists
<1>2. Iter(f, S) = [s \in SUBSET S |-> Body(f, Iter(f, S), s)]
  BY <1>1 DEF Iter
<1>3. \A s \in SUBSET S : Iter(f, S)[s] = Body(f, Iter(f, S), s)
  <2> DEFINE I == Iter(f, S)
  <2>1. I = [s \in SUBSET S |-> Body(f, I, s)]
    BY <1>2
  <2> HIDE DEF I
  <2>2. \A s \in SUBSET S : I[s] = Body(f, I, s)
    BY <2>1
  <2> QED BY <2>2 DEF I
<1>4. \A s \in SUBSET S : h[s] = Body(f, h, s)
  BY <1>1
<1>5. IsFiniteSet(S)
  BY DEF Summable
<1>6. \A s \in SUBSET S : Iter(f, S)[s] = h[s]
  BY <1>3, <1>4, <1>5, FixpointsAgree
<1> QED BY <1>1, <1>3, <1>6

\* Its value at a subset is the sum over that subset.
LEMMA IterSubset ==
    ASSUME NEW f, NEW S, NEW T \in SUBSET S, Summable(f, S)
    PROVE  Iter(f, S)[T] = SumFunctionOnSet(f, T)
<1>1. Summable(f, T)
  BY FS_Subset DEF Summable
<1>2. \A s \in SUBSET T : Iter(f, T)[s] = Body(f, Iter(f, T), s)
  BY <1>1, IterFixpoint
<1>3. \A s \in SUBSET T : Iter(f, S)[s] = Body(f, Iter(f, S), s)
  BY IterFixpoint
<1>4. \A s \in SUBSET T : Iter(f, S)[s] = Iter(f, T)[s]
  BY <1>1, <1>2, <1>3, FixpointsAgree DEF Summable
<1> QED BY <1>4, SumIter

\* A sum of integers is an integer.
LEMMA SumType ==
    ASSUME NEW f, NEW S, Summable(f, S) PROVE SumFunctionOnSet(f, S) \in Int
  BY SumIter, IterFixpoint

\* The sum over no element is 0.
LEMMA SumEmpty ==
    ASSUME NEW f PROVE SumFunctionOnSet(f, {}) = 0
<1>1. Summable(f, {})
  BY FS_EmptySet DEF Summable
<1>2. Iter(f, {})[{}] = Body(f, Iter(f, {}), {})
  BY <1>1, IterFixpoint
<1>3. Body(f, Iter(f, {}), {}) = 0
  BY DEF Body
<1> QED BY <1>2, <1>3, SumIter

\* The sum depends on the values on S only.
LEMMA SumSame ==
    ASSUME NEW f, NEW g, NEW S, Summable(f, S), \A x \in S : f[x] = g[x]
    PROVE  SumFunctionOnSet(f, S) = SumFunctionOnSet(g, S)
<1>1. Summable(g, S)
  BY DEF Summable
<1>2. \A s \in SUBSET S : Iter(f, S)[s] = Body(f, Iter(f, S), s)
  BY IterFixpoint
<1>3. \A s \in SUBSET S : Iter(g, S)[s] = Body(g, Iter(g, S), s)
  BY <1>1, IterFixpoint
<1>4. \A s \in SUBSET S : Iter(f, S)[s] = Iter(g, S)[s]
  BY <1>1, <1>2, <1>3, FixpointsAgree DEF Summable
<1> QED BY <1>4, SumIter

\* The sum is the value at the chosen element and the sum over the rest.
LEMMA SumStep ==
    ASSUME NEW f, NEW S, Summable(f, S), S # {}
    PROVE  SumFunctionOnSet(f, S) = f[Chosen(S)] + SumFunctionOnSet(f, S \ {Chosen(S)})
<1>1. Iter(f, S)[S] = Body(f, Iter(f, S), S)
  BY IterFixpoint
<1>2. Body(f, Iter(f, S), S) = f[Chosen(S)] + Iter(f, S)[S \ {Chosen(S)}]
  BY DEF Body
<1>3. Iter(f, S)[S \ {Chosen(S)}] = SumFunctionOnSet(f, S \ {Chosen(S)})
  BY IterSubset
<1> QED BY <1>1, <1>2, <1>3, SumIter

\* The same for every element: the order of summation does not matter.
LEMMA SumRemove ==
    ASSUME NEW f, NEW S, Summable(f, S), NEW x \in S
    PROVE  SumFunctionOnSet(f, S) = f[x] + SumFunctionOnSet(f, S \ {x})
<1> DEFINE Sum(T) == SumFunctionOnSet(f, T)
           G == {n \in Nat : \A T \in SUBSET S : Cardinality(T) = n =>
                                \A y \in T : Sum(T) = f[y] + Sum(T \ {y})}
<1>0. /\ IsFiniteSet(S) /\ Cardinality(S) \in Nat
      /\ \A T \in SUBSET S : Summable(f, T) /\ Sum(T) \in Int
      /\ \A y \in S : f[y] \in Int
  <2>1. IsFiniteSet(S) /\ \A y \in S : f[y] \in Int
    BY DEF Summable
  <2>2. \A T \in SUBSET S : Summable(f, T)
    BY <2>1, FS_Subset DEF Summable
  <2> QED BY <2>1, <2>2, SumType, FS_CardinalityType
<1>1. 0 \in G
  <2> SUFFICES ASSUME NEW T \in SUBSET S, Cardinality(T) = 0 PROVE T = {}
    OBVIOUS
  <2>1. IsFiniteSet(T)
    BY <1>0, FS_Subset
  <2> QED BY <2>1, FS_EmptySet
<1>2. ASSUME NEW n \in Nat, n \in G PROVE n + 1 \in G
  <2> SUFFICES ASSUME NEW T \in SUBSET S, Cardinality(T) = n + 1, NEW y \in T
               PROVE  Sum(T) = f[y] + Sum(T \ {y})
    OBVIOUS
  <2>0. PICK c : c = Chosen(T)
    OBVIOUS
  <2>1. c \in T /\ Sum(T) = f[c] + Sum(T \ {c})
    BY <1>0, <2>0, ChosenIn, SumStep
  <2>2. CASE c = y
    BY <2>1, <2>2
  <2>3. CASE c # y
    <3>1. /\ T \ {c} \in SUBSET S /\ y \in T \ {c} /\ Cardinality(T \ {c}) = n
          /\ T \ {y} \in SUBSET S /\ c \in T \ {y} /\ Cardinality(T \ {y}) = n
      BY <1>0, <2>1, <2>3, Smaller
    <3>2. Sum(T \ {c}) = f[y] + Sum((T \ {c}) \ {y})
      BY <1>2, <3>1
    <3>3. Sum(T \ {y}) = f[c] + Sum((T \ {y}) \ {c})
      BY <1>2, <3>1
    <3>4. (T \ {c}) \ {y} = (T \ {y}) \ {c}
      OBVIOUS
    <3>5. f[c] \in Int /\ f[y] \in Int /\ Sum((T \ {y}) \ {c}) \in Int
      BY <1>0, <2>1
    <3>6. PICK a \in Int, b \in Int, k \in Int :
             a = f[c] /\ b = f[y] /\ k = Sum((T \ {y}) \ {c})
      BY <3>5
    <3>7. Sum(T \ {c}) = b + k /\ Sum(T \ {y}) = a + k /\ Sum(T) = a + (b + k)
      BY <2>1, <3>2, <3>3, <3>4, <3>6
    <3>8. a + (b + k) = b + (a + k)
      OBVIOUS
    <3> QED BY <3>6, <3>7, <3>8
  <2> QED BY <2>2, <2>3
<1>3. \A n \in Nat : n \in G
  <2> HIDE DEF G
  <2> QED BY <1>1, <1>2, NatSetInduction
<1> QED BY <1>0, <1>3
\* A new element adds its value to the sum.
LEMMA SumAdd ==
    ASSUME NEW f, NEW g, NEW S, Summable(f, S), NEW x, x \notin S, g[x] \in Int,
           \A y \in S : g[y] = f[y]
    PROVE  SumFunctionOnSet(g, S \cup {x}) = g[x] + SumFunctionOnSet(f, S)
<1>1. Summable(g, S \cup {x})
  BY FS_AddElement DEF Summable
<1>2. (S \cup {x}) \ {x} = S
  OBVIOUS
<1>3. SumFunctionOnSet(g, S \cup {x}) = g[x] + SumFunctionOnSet(g, S)
  BY <1>1, <1>2, SumRemove
<1>4. SumFunctionOnSet(f, S) = SumFunctionOnSet(g, S)
  BY SumSame
<1> QED BY <1>3, <1>4

\* The same for one function.
LEMMA SumInsert ==
    ASSUME NEW f, NEW S, Summable(f, S), NEW x, x \notin S, f[x] \in Int
    PROVE  SumFunctionOnSet(f, S \cup {x}) = f[x] + SumFunctionOnSet(f, S)
<1>1. \A y \in S : f[y] = f[y]
  OBVIOUS
<1> QED BY ONLY <1>1, SumAdd, Summable(f, S), x \notin S, f[x] \in Int

\* A change of one value changes the sum by the difference.
LEMMA SumUpdate ==
    ASSUME NEW f, NEW g, NEW S, Summable(f, S), NEW x \in S, g[x] \in Int,
           \A y \in S \ {x} : g[y] = f[y]
    PROVE  SumFunctionOnSet(g, S) = SumFunctionOnSet(f, S) + (g[x] - f[x])
<1>1. Summable(g, S) /\ Summable(f, S \ {x}) /\ f[x] \in Int
  BY FS_Subset DEF Summable
<1>2. SumFunctionOnSet(g, S) = g[x] + SumFunctionOnSet(g, S \ {x})
  BY <1>1, SumRemove
<1>3. SumFunctionOnSet(f, S) = f[x] + SumFunctionOnSet(f, S \ {x})
  BY SumRemove
<1>4. SumFunctionOnSet(f, S \ {x}) = SumFunctionOnSet(g, S \ {x})
  BY <1>1, SumSame
<1>5. SumFunctionOnSet(f, S \ {x}) \in Int
  BY <1>1, SumType
<1>6. PICK a \in Int, b \in Int, k \in Int :
         a = f[x] /\ b = g[x] /\ k = SumFunctionOnSet(f, S \ {x})
  BY <1>1, <1>5
<1>7. SumFunctionOnSet(g, S) = b + k /\ SumFunctionOnSet(f, S) = a + k
  BY <1>2, <1>3, <1>4, <1>6
<1>8. b + k = (a + k) + (b - a)
  OBVIOUS
<1> QED BY <1>6, <1>7, <1>8

\* A sum of natural numbers is a natural number.
LEMMA SumNat ==
    ASSUME NEW f, NEW S, IsFiniteSet(S), \A x \in S : f[x] \in Nat
    PROVE  SumFunctionOnSet(f, S) \in Nat
<1> DEFINE G == {n \in Nat : \A T \in SUBSET S : Cardinality(T) = n => SumFunctionOnSet(f, T) \in Nat}
<1>0. \A T \in SUBSET S : IsFiniteSet(T) /\ Cardinality(T) \in Nat /\ Summable(f, T)
  <2>1. \A T \in SUBSET S : IsFiniteSet(T)
    BY FS_Subset
  <2> QED BY <2>1, FS_CardinalityType DEF Summable
<1>1. 0 \in G
  <2> SUFFICES ASSUME NEW T \in SUBSET S, Cardinality(T) = 0 PROVE SumFunctionOnSet(f, T) \in Nat
    OBVIOUS
  <2>1. T = {}
    BY <1>0, FS_EmptySet
  <2> QED BY <2>1, SumEmpty
<1>2. ASSUME NEW n \in Nat, n \in G PROVE n + 1 \in G
  <2> SUFFICES ASSUME NEW T \in SUBSET S, Cardinality(T) = n + 1 PROVE SumFunctionOnSet(f, T) \in Nat
    OBVIOUS
  <2>1. T # {}
    <3>1. Cardinality({}) = 0
      BY FS_EmptySet
    <3> QED BY <3>1
  <2>2. PICK x \in T : TRUE
    BY <2>1
  <2>3. T \ {x} \in SUBSET S /\ Cardinality(T \ {x}) = n
    BY Smaller
  <2>4. SumFunctionOnSet(f, T \ {x}) \in Nat /\ f[x] \in Nat
    BY <1>2, <2>3
  <2>5. SumFunctionOnSet(f, T) = f[x] + SumFunctionOnSet(f, T \ {x})
    BY <1>0, SumRemove
  <2>6. PICK a \in Nat, b \in Nat : a = f[x] /\ b = SumFunctionOnSet(f, T \ {x})
    BY <2>4
  <2>7. SumFunctionOnSet(f, T) = a + b
    BY <2>5, <2>6
  <2> QED BY <2>7
<1>3. \A n \in Nat : n \in G
  <2> HIDE DEF G
  <2> QED BY <1>1, <1>2, NatSetInduction
<1> QED BY <1>0, <1>3

\* No natural number exceeds a sum it is part of.
LEMMA SumBounds ==
    ASSUME NEW f, NEW S, IsFiniteSet(S), \A x \in S : f[x] \in Nat, NEW x \in S
    PROVE  f[x] <= SumFunctionOnSet(f, S)
<1>1. Summable(f, S) /\ IsFiniteSet(S \ {x})
  BY FS_Subset DEF Summable
<1>2. SumFunctionOnSet(f, S) = f[x] + SumFunctionOnSet(f, S \ {x})
  BY <1>1, SumRemove
<1>3. SumFunctionOnSet(f, S \ {x}) \in Nat
  BY <1>1, SumNat
<1>4. PICK a \in Nat, b \in Nat : a = f[x] /\ b = SumFunctionOnSet(f, S \ {x})
  BY <1>3
<1>5. SumFunctionOnSet(f, S) = a + b /\ a <= a + b
  BY <1>2, <1>4
<1> QED BY <1>4, <1>5
\* Induction over the subsets of a finite set, in first-order form as well.
LEMMA SetInduction ==
    ASSUME NEW S, IsFiniteSet(S), NEW G, {} \in G,
           \A T \in SUBSET S : \A x \in S \ T : T \in G => T \cup {x} \in G
    PROVE  S \in G
<1> DEFINE N == {n \in Nat : \A T \in SUBSET S : Cardinality(T) = n => T \in G}
<1>0. \A T \in SUBSET S : IsFiniteSet(T) /\ Cardinality(T) \in Nat
  <2>1. \A T \in SUBSET S : IsFiniteSet(T)
    BY FS_Subset
  <2> QED BY <2>1, FS_CardinalityType
<1>1. 0 \in N
  <2> SUFFICES ASSUME NEW T \in SUBSET S, Cardinality(T) = 0 PROVE T \in G
    OBVIOUS
  <2> QED BY <1>0, FS_EmptySet
<1>2. ASSUME NEW n \in Nat, n \in N PROVE n + 1 \in N
  <2> SUFFICES ASSUME NEW T \in SUBSET S, Cardinality(T) = n + 1 PROVE T \in G
    OBVIOUS
  <2>1. T # {}
    <3>1. Cardinality({}) = 0
      BY FS_EmptySet
    <3> QED BY <3>1
  <2>2. PICK x \in T : TRUE
    BY <2>1
  <2>3. T \ {x} \in SUBSET S /\ Cardinality(T \ {x}) = n
    BY Smaller
  <2>4. T \ {x} \in G /\ x \in S \ (T \ {x})
    BY <1>2, <2>3
  <2>5. (T \ {x}) \cup {x} = T
    OBVIOUS
  <2>6. (T \ {x}) \cup {x} \in G
    BY <2>3, <2>4
  <2> QED BY <2>5, <2>6
<1>3. \A n \in Nat : n \in N
  <2> HIDE DEF N
  <2> QED BY <1>1, <1>2, NatSetInduction
<1> QED BY <1>0, <1>3

\* A sum grows with its values.
LEMMA SumLeq ==
    ASSUME NEW f, NEW g, NEW S, Summable(f, S), Summable(g, S), \A x \in S : f[x] <= g[x]
    PROVE  SumFunctionOnSet(f, S) <= SumFunctionOnSet(g, S)
<1> DEFINE G == {T \in SUBSET S : SumFunctionOnSet(f, T) <= SumFunctionOnSet(g, T)}
<1>0. IsFiniteSet(S) /\ \A T \in SUBSET S : Summable(f, T) /\ Summable(g, T)
  BY FS_Subset DEF Summable
<1>1. {} \in G
  BY SumEmpty
<1>2. ASSUME NEW T \in SUBSET S, NEW x \in S \ T, T \in G PROVE T \cup {x} \in G
  <2>1. f[x] \in Int /\ g[x] \in Int /\ f[x] <= g[x]
    BY DEF Summable
  <2>2. PICK a \in Int, b \in Int : a = SumFunctionOnSet(f, T) /\ b = SumFunctionOnSet(g, T)
    BY <1>0, SumType
  <2>3. /\ SumFunctionOnSet(f, T \cup {x}) = f[x] + a
        /\ SumFunctionOnSet(g, T \cup {x}) = g[x] + b
    <3>1. Summable(f, T) /\ Summable(g, T) /\ x \notin T
      BY <1>0
    <3>2. SumFunctionOnSet(f, T \cup {x}) = f[x] + SumFunctionOnSet(f, T)
      BY <2>1, <3>1, SumInsert
    <3>3. SumFunctionOnSet(g, T \cup {x}) = g[x] + SumFunctionOnSet(g, T)
      BY <2>1, <3>1, SumInsert
    <3> QED BY <2>2, <3>2, <3>3
  <2>4. a <= b
    BY <1>2, <2>2
  <2>5. f[x] + a <= g[x] + b
    BY <2>1, <2>4
  <2> QED BY <2>3, <2>5
<1> HIDE DEF G
<1>3. S \in G
  BY <1>0, <1>1, <1>2, SetInduction
<1> QED BY <1>3 DEF G

\* Sums are added value by value.
LEMMA SumPlus ==
    ASSUME NEW f, NEW g, NEW h, NEW S, Summable(f, S), Summable(g, S),
           \A x \in S : h[x] = f[x] + g[x]
    PROVE  SumFunctionOnSet(h, S) = SumFunctionOnSet(f, S) + SumFunctionOnSet(g, S)
<1> DEFINE Q(T) == SumFunctionOnSet(h, T) = SumFunctionOnSet(f, T) + SumFunctionOnSet(g, T)
           G == {T \in SUBSET S : Q(T)}
<1>0. /\ IsFiniteSet(S)
      /\ \A x \in S : f[x] \in Int /\ g[x] \in Int /\ h[x] \in Int
      /\ \A T \in SUBSET S : Summable(f, T) /\ Summable(g, T) /\ Summable(h, T)
  <2>1. IsFiniteSet(S) /\ \A x \in S : f[x] \in Int /\ g[x] \in Int
    BY DEF Summable
  <2>2. \A x \in S : h[x] \in Int
    BY <2>1
  <2> QED BY <2>1, <2>2, FS_Subset DEF Summable
<1>1. {} \in G
  BY SumEmpty
<1>2. ASSUME NEW T \in SUBSET S, NEW x \in S \ T, T \in G PROVE T \cup {x} \in G
  <2>1. PICK a \in Int, b \in Int, c \in Int :
           a = SumFunctionOnSet(f, T) /\ b = SumFunctionOnSet(g, T) /\ c = SumFunctionOnSet(h, T)
    BY <1>0, SumType
  <2>2. PICK u \in Int, v \in Int : u = f[x] /\ v = g[x] /\ h[x] = u + v
    BY <1>0
  <2>3. /\ SumFunctionOnSet(f, T \cup {x}) = u + a
        /\ SumFunctionOnSet(g, T \cup {x}) = v + b
        /\ SumFunctionOnSet(h, T \cup {x}) = (u + v) + c
    <3>1. Summable(f, T) /\ Summable(g, T) /\ Summable(h, T) /\ x \notin T
      BY <1>0
    <3>2. SumFunctionOnSet(f, T \cup {x}) = f[x] + SumFunctionOnSet(f, T)
      BY <1>0, <3>1, SumInsert
    <3>3. SumFunctionOnSet(g, T \cup {x}) = g[x] + SumFunctionOnSet(g, T)
      BY <1>0, <3>1, SumInsert
    <3>4. SumFunctionOnSet(h, T \cup {x}) = h[x] + SumFunctionOnSet(h, T)
      BY <1>0, <3>1, SumInsert
    <3> QED BY <2>1, <2>2, <3>2, <3>3, <3>4
  <2>4. c = a + b
    BY <1>2, <2>1
  <2>5. (u + v) + c = (u + a) + (v + b)
    BY <2>4
  <2> QED BY <2>3, <2>5
<1> HIDE DEF G
<1>3. S \in G
  BY <1>0, <1>1, <1>2, SetInduction
<1> QED BY <1>3 DEF G

\* Values that are 0 outside T add nothing.
LEMMA SumFilter ==
    ASSUME NEW f, NEW g, NEW S, NEW T \in SUBSET S, Summable(g, S),
           \A x \in T : g[x] = f[x], \A x \in S \ T : g[x] = 0
    PROVE  SumFunctionOnSet(g, S) = SumFunctionOnSet(f, T)
<1> DEFINE G == {U \in SUBSET S : SumFunctionOnSet(g, U) = SumFunctionOnSet(f, U \cap T)}
<1>0. /\ IsFiniteSet(S) /\ \A U \in SUBSET S : Summable(g, U)
      /\ \A U \in SUBSET S : Summable(f, U \cap T)
      /\ \A x \in S : g[x] \in Int
  <2>1. IsFiniteSet(S) /\ \A x \in S : g[x] \in Int
    BY DEF Summable
  <2>2. \A U \in SUBSET S : IsFiniteSet(U) /\ IsFiniteSet(U \cap T)
    BY <2>1, FS_Subset
  <2> QED BY <2>1, <2>2 DEF Summable
<1>1. {} \in G
  <2>1. {} \cap T = {}
    OBVIOUS
  <2> QED BY <2>1, SumEmpty
<1>2. ASSUME NEW U \in SUBSET S, NEW x \in S \ U, U \in G PROVE U \cup {x} \in G
  <2>1. PICK a \in Int : a = SumFunctionOnSet(g, U) /\ a = SumFunctionOnSet(f, U \cap T)
    BY <1>0, <1>2, SumType
  <2>2. SumFunctionOnSet(g, U \cup {x}) = g[x] + a
    <3>1. Summable(g, U) /\ x \notin U /\ g[x] \in Int
      BY <1>0
    <3>2. SumFunctionOnSet(g, U \cup {x}) = g[x] + SumFunctionOnSet(g, U)
      BY <3>1, SumInsert
    <3> QED BY <2>1, <3>2
  <2>3. CASE x \in T
    <3>1. (U \cup {x}) \cap T = (U \cap T) \cup {x} /\ x \notin U \cap T /\ f[x] = g[x] /\ f[x] \in Int
      BY <1>0, <2>3
    <3>2. SumFunctionOnSet(f, (U \cap T) \cup {x}) = f[x] + a
      <4>1. Summable(f, U \cap T)
        BY <1>0
      <4>2. SumFunctionOnSet(f, (U \cap T) \cup {x}) = f[x] + SumFunctionOnSet(f, U \cap T)
        BY <3>1, <4>1, SumInsert
      <4> QED BY <2>1, <4>2
    <3> QED BY <2>2, <3>1, <3>2
  <2>4. CASE x \notin T
    <3>1. (U \cup {x}) \cap T = U \cap T /\ g[x] = 0
      BY <2>4
    <3>2. g[x] + a = a
      BY <3>1
    <3> QED BY <2>1, <2>2, <3>1, <3>2
  <2> QED BY <2>3, <2>4
<1> HIDE DEF G
<1>3. S \in G
  BY <1>0, <1>1, <1>2, SetInduction
<1>4. S \cap T = T
  OBVIOUS
<1> QED BY <1>3, <1>4 DEF G

\* The part of p that at assigns to the group k.
Part(p, at, S, k) == [x \in S |-> IF at[x] = k THEN p[x] ELSE 0]

\* A sum is the sum of its groups.
LEMMA SumGroups ==
    ASSUME NEW p, NEW at, NEW S, NEW K, Summable(p, S), IsFiniteSet(K)
    PROVE  SumFunctionOnSet([k \in K |-> SumFunctionOnSet(Part(p, at, S, k), S)], K)
             = SumFunctionOnSet(p, {x \in S : at[x] \in K})
<1> DEFINE Group(k) == SumFunctionOnSet(Part(p, at, S, k), S)
           g == [k \in K |-> Group(k)]
           Of(T) == {x \in S : at[x] \in T}
           In(T) == [x \in S |-> IF at[x] \in T THEN p[x] ELSE 0]
           G == {T \in SUBSET K : SumFunctionOnSet(g, T) = SumFunctionOnSet(In(T), S)}
<1>0. IsFiniteSet(S) /\ \A x \in S : p[x] \in Int
  BY DEF Summable
<1>1. \A k \in K : Summable(Part(p, at, S, k), S) /\ Group(k) \in Int
  <2>1. \A k \in K : Summable(Part(p, at, S, k), S)
    BY <1>0 DEF Summable, Part
  <2> QED BY <2>1, SumType
<1>2. \A T \in SUBSET K : Summable(g, T) /\ Summable(In(T), S)
  <2>1. \A T \in SUBSET K : IsFiniteSet(T)
    BY FS_Subset
  <2>2. \A k \in K : g[k] \in Int
    BY <1>1
  <2> HIDE DEF g
  <2> QED BY <1>0, <2>1, <2>2 DEF Summable
<1>3. {} \in G
  <2>a. \A x \in S \ {} : In({})[x] = 0
    OBVIOUS
  <2>b. {} \in SUBSET K /\ {} \in SUBSET S
    OBVIOUS
  <2>1. /\ {} \in SUBSET S /\ Summable(In({}), S)
        /\ \A x \in {} : In({})[x] = p[x]
        /\ \A x \in S \ {} : In({})[x] = 0
    <3> HIDE DEF In
    <3> QED BY <1>2, <2>a, <2>b
  <2> HIDE DEF In
  <2>2. SumFunctionOnSet(In({}), S) = SumFunctionOnSet(p, {})
    BY <2>1, SumFilter
  <2> QED BY <2>2, SumEmpty
<1>4. ASSUME NEW T \in SUBSET K, NEW k \in K \ T, T \in G PROVE T \cup {k} \in G
  <2>1. \A x \in S : In(T \cup {k})[x] = In(T)[x] + Part(p, at, S, k)[x]
    <3> SUFFICES ASSUME NEW x \in S PROVE In(T \cup {k})[x] = In(T)[x] + Part(p, at, S, k)[x]
      OBVIOUS
    <3>1. PICK v \in Int : v = p[x]
      BY <1>0
    <3> QED BY <3>1 DEF Part
  <2>2. SumFunctionOnSet(In(T \cup {k}), S) = SumFunctionOnSet(In(T), S) + Group(k)
    <3> DEFINE h == In(T \cup {k})
               u == In(T)
               v == Part(p, at, S, k)
    <3>1. Summable(u, S) /\ Summable(v, S) /\ \A x \in S : h[x] = u[x] + v[x]
      BY <1>1, <1>2, <2>1
    <3> HIDE DEF h, u, v
    <3>2. SumFunctionOnSet(h, S) = SumFunctionOnSet(u, S) + SumFunctionOnSet(v, S)
      BY <3>1, SumPlus
    <3> QED BY <3>2 DEF h, u, v
  <2>3. g[k] = Group(k) /\ g[k] \in Int
    BY <1>1
  <2>4. SumFunctionOnSet(g, T \cup {k}) = g[k] + SumFunctionOnSet(g, T)
    <3>1. Summable(g, T) /\ k \notin T /\ g[k] \in Int
      BY <1>2, <2>3
    <3> HIDE DEF g
    <3> QED BY <3>1, SumInsert
  <2>5. PICK a \in Int, b \in Int : a = SumFunctionOnSet(g, T) /\ a = SumFunctionOnSet(In(T), S) /\ b = g[k]
    <3> HIDE DEF g, In
    <3> QED BY <1>2, <1>4, <2>3, SumType
  <2>6. a + b = b + a
    OBVIOUS
  <2> HIDE DEF g, In, Group
  <2> QED BY <2>2, <2>3, <2>4, <2>5, <2>6
<1>5. K \in G
  <2> HIDE DEF G
  <2> QED BY <1>3, <1>4, SetInduction
<1>6. SumFunctionOnSet(In(K), S) = SumFunctionOnSet(p, Of(K))
  <2>1. /\ Of(K) \in SUBSET S /\ Summable(In(K), S)
        /\ \A x \in Of(K) : In(K)[x] = p[x]
        /\ \A x \in S \ Of(K) : In(K)[x] = 0
    BY <1>2
  <2> HIDE DEF In, Of
  <2> QED BY <2>1, SumFilter
<1> QED BY <1>5, <1>6

\* Renaming the elements does not change the sum.
LEMMA SumRename ==
    ASSUME NEW f, NEW g, NEW S, NEW name, Summable(f, S),
           \A x \in S : g[name[x]] = f[x],
           \A x, y \in S : name[x] = name[y] => x = y
    PROVE  SumFunctionOnSet(f, S) = SumFunctionOnSet(g, {name[x] : x \in S})
<1> DEFINE Named(U) == {name[x] : x \in U}
           G == {U \in SUBSET S : /\ IsFiniteSet(Named(U))
                                   /\ SumFunctionOnSet(f, U) = SumFunctionOnSet(g, Named(U))}
<1>0. IsFiniteSet(S) /\ (\A x \in S : f[x] \in Int) /\ \A U \in SUBSET S : IsFiniteSet(U)
  BY FS_Subset DEF Summable
<1>1. {} \in G
  <2>1. Named({}) = {}
    OBVIOUS
  <2>2. SumFunctionOnSet(f, {}) = 0 /\ SumFunctionOnSet(g, {}) = 0
    BY SumEmpty
  <2> QED BY <2>1, <2>2, FS_EmptySet
<1>2. ASSUME NEW U \in SUBSET S, NEW x \in S \ U, U \in G PROVE U \cup {x} \in G
  <2>1. Named(U \cup {x}) = Named(U) \cup {name[x]} /\ name[x] \notin Named(U)
    OBVIOUS
  <2>2. IsFiniteSet(U)
    BY <1>0
  <2>3. IsFiniteSet(Named(U))
    BY <1>2
  <2>4. Summable(f, U) /\ f[x] \in Int /\ x \notin U
    BY <1>0, <2>2 DEF Summable
  <2>5. Summable(g, Named(U)) /\ g[name[x]] = f[x]
    BY <1>0, <2>3 DEF Summable
  <2>6. PICK N : N = Named(U)
    OBVIOUS
  <2>7. SumFunctionOnSet(f, U) = SumFunctionOnSet(g, N)
    BY <1>2, <2>6
  <2>8. Named(U \cup {x}) = N \cup {name[x]} /\ name[x] \notin N
    BY <2>1, <2>6
  <2>9. Summable(g, N) /\ g[name[x]] \in Int
    BY <2>4, <2>5, <2>6
  <2> HIDE DEF Named
  <2>10. SumFunctionOnSet(f, U \cup {x}) = f[x] + SumFunctionOnSet(f, U)
    BY <2>4, SumInsert
  <2>11. SumFunctionOnSet(g, N \cup {name[x]}) = g[name[x]] + SumFunctionOnSet(g, N)
    BY <2>8, <2>9, SumInsert
  <2>12. SumFunctionOnSet(f, U \cup {x}) = SumFunctionOnSet(g, Named(U \cup {x}))
    BY <2>5, <2>7, <2>8, <2>10, <2>11
  <2>13. IsFiniteSet(Named(U \cup {x}))
    <3>1. IsFiniteSet(N)
      BY <2>3, <2>6
    <3>2. IsFiniteSet(N \cup {name[x]})
      BY <3>1, FS_AddElement
    <3> QED BY <2>8, <3>2
  <2> QED BY <2>12, <2>13
<1>3. S \in G
  <2> HIDE DEF G
  <2> QED BY <1>0, <1>1, <1>2, SetInduction
<1> QED BY <1>3
=============================================================================
