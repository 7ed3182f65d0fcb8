-------------------------- MODULE CollectionProofs --------------------------
(* What the operators on sets and sequences return that the modules share:  *)
(* the sum of a finite set of integers, the k-th of a set of positions, the *)
(* concatenation of many sequences, and the least of a set.  The community  *)
(* modules define sums by a recursive function over the subsets of a domain *)
(* that takes out one CHOOSEn element after another; the lemmas find that   *)
(* function and show that the choice does not matter.                       *)
EXTENDS Positions, SequencesExt, FiniteSetTheorems, WellFoundedInduction, TLAPS

(* A set of natural numbers has a least one, and Min finds it. *)
LEMMA MinFound ==
  ASSUME NEW S \in SUBSET Nat, S # {}
  PROVE  Min(S) \in S /\ \A x \in S : Min(S) <= x
<1> DEFINE Less == {p \in Nat \X Nat : p[1] < p[2]}
<1>1. OpToRel(<, Nat) = Less
  BY DEF OpToRel
<1>2. IsWellFoundedOn(Less, Nat)
  BY <1>1, NatLessThanWellFounded
<1> HIDE DEF Less
<1>3. PICK m \in S : \A y \in S : ~ (<<y, m>> \in Less)
  BY <1>2, WFMin
<1>4. ASSUME NEW y \in S
      PROVE  m <= y
  <2>1. y < m => <<y, m>> \in Less
    BY DEF Less
  <2>2. ~ (y < m)
    BY <1>3, <2>1
  <2> QED
    BY <2>2
<1> QED
  BY <1>4 DEF Min

(* A set of natural numbers with a bound has a greatest one.                *)
LEMMA MaxFound ==
  ASSUME NEW n \in Nat, NEW S \in SUBSET (0 .. n), S # {}
  PROVE  \E m \in S : \A x \in S : x <= m
<1> DEFINE T == {n - x : x \in S}
<1>1. T \in SUBSET Nat /\ T # {}
  <2>1. \A x \in S : n - x \in Nat
    OBVIOUS
  <2> QED
    BY <2>1
<1>2. Min(T) \in T /\ \A y \in T : Min(T) <= y
  BY <1>1, MinFound
<1>3. PICK m \in S : Min(T) = n - m
  BY <1>2
<1>4. \A x \in S : n - m <= n - x
  BY <1>2, <1>3
<1>5. ASSUME NEW x \in S PROVE x <= m
  <2>1. x \in Int /\ m \in Int /\ n - m <= n - x
    BY <1>4
  <2> QED
    BY <2>1
<1> QED
  BY <1>5

(* A counterexample among the subsets of a finite set has a smallest one:   *)
(* taking any element out of it leaves none.                                *)
LEMMA SmallestSubset ==
  ASSUME NEW I, IsFiniteSet(I), NEW C \in SUBSET (SUBSET I), C # {}
  PROVE  \E T \in C : IsFiniteSet(T) /\ \A x \in T : T \ {x} \notin C
<1> DEFINE Sizes == {Cardinality(T) : T \in C}
<1>1. \A T \in C : IsFiniteSet(T) /\ Cardinality(T) \in Nat
  BY FS_Subset, FS_CardinalityType
<1>2. Sizes \in SUBSET Nat /\ Sizes # {}
  BY <1>1
<1>3. Min(Sizes) \in Sizes /\ \A n \in Sizes : Min(Sizes) <= n
  BY <1>2, MinFound
<1>4. PICK T \in C : Cardinality(T) = Min(Sizes)
  BY <1>3
<1>5. ASSUME NEW x \in T, T \ {x} \in C PROVE FALSE
  <2>1. Cardinality(T \ {x}) = Cardinality(T) - 1
    BY <1>1, FS_RemoveElement
  <2>2. Cardinality(T) <= Cardinality(T \ {x})
    BY <1>3, <1>4, <1>5
  <2> QED
    BY <1>1, <2>1, <2>2
<1> QED
  BY <1>1, <1>5
-----------------------------------------------------------------------------
(* The element that is taken out of a set, and the function that sums.      *)
Pick(s) == CHOOSE x \in s : TRUE

Step(f, g, s) == IF s = {} THEN 0 ELSE f[Pick(s)] + g[s \ {Pick(s)}]

Iter(f, I) == CHOOSE g : g = [s \in SUBSET I |-> Step(f, g, s)]

(* The library's operator spelled out. *)
LEMMA SumIsIter ==
  ASSUME NEW f, NEW I
  PROVE  SumFunctionOnSet(f, I) = Iter(f, I)[I]
BY DEF SumFunctionOnSet, FoldFunctionOnSet, MapThenFoldSet, Iter, Pick, Step

(* There is a function that sums, built up from the smaller sets.           *)
LEMMA IterExists ==
  ASSUME NEW f, NEW I, IsFiniteSet(I)
  PROVE  \A s \in SUBSET I : Iter(f, I)[s] = Step(f, Iter(f, I), s)
<1> DEFINE Small(n) == {s \in SUBSET I : Cardinality(s) <= n}
           Sums(g, n) == g = [s \in Small(n) |-> Step(f, g, s)]
           Bad == {n \in Nat : ~ \E g : Sums(g, n)}
<1>1. \A s \in SUBSET I : IsFiniteSet(s) /\ Cardinality(s) \in Nat
  BY FS_Subset, FS_CardinalityType
<1>2. ASSUME Bad # {} PROVE FALSE
  <2> DEFINE m == Min(Bad)
  <2>1. m \in Bad /\ \A n \in Bad : m <= n
    BY <1>2, MinFound
  <2>2. m \in Nat /\ ~ \E g : Sums(g, m)
    BY <2>1
  <2> HIDE DEF m
  <2>3. ASSUME m # 0 PROVE \E g : Sums(g, m - 1)
    <3>1. m - 1 \in Nat /\ ~ (m <= m - 1)
      BY <2>2, <2>3
    <3>2. m - 1 \notin Bad
      BY <2>1, <3>1
    <3> QED
      BY <3>1, <3>2
  <2>4. CASE m = 0
    <3> DEFINE g == [s \in Small(0) |-> 0]
    <3>1. \A s \in Small(0) : s = {}
      BY <1>1, FS_EmptySet
    <3>2. \A s \in Small(0) : Step(f, g, s) = 0
      BY <3>1 DEF Step
    <3>3. Sums(g, 0)
      BY <3>2
    <3> QED
      BY <2>2, <2>4, <3>3
  <2>5. CASE m # 0
    <3>1. PICK h : Sums(h, m - 1)
      BY <2>3, <2>5
    <3> DEFINE g == [s \in Small(m) |-> Step(f, h, s)]
    <3>2. \A s \in Small(m - 1) : s \in Small(m) /\ h[s] = Step(f, h, s)
      BY <1>1, <2>2, <2>5, <3>1
    <3>3. \A s \in Small(m - 1) : g[s] = h[s]
      BY <3>2
    <3>4. ASSUME NEW s \in Small(m) PROVE Step(f, h, s) = Step(f, g, s)
      <4>1. CASE s = {}
        BY <4>1 DEF Step
      <4>2. CASE s # {}
        <5>1. Pick(s) \in s
          BY <4>2 DEF Pick
        <5>2. Cardinality(s \ {Pick(s)}) = Cardinality(s) - 1
          BY <1>1, <5>1, FS_RemoveElement
        <5>3. s \ {Pick(s)} \in Small(m - 1)
          BY <1>1, <2>2, <5>2
        <5>4. g[s \ {Pick(s)}] = h[s \ {Pick(s)}]
          BY <3>3, <5>3
        <5> QED
          BY <5>4 DEF Step
      <4> QED
        BY <4>1, <4>2
    <3>5. g = [s \in Small(m) |-> Step(f, g, s)]
      BY <3>4
    <3> QED
      BY <2>2, <3>5
  <2> QED
    BY <2>4, <2>5
<1>3. Cardinality(I) \in Nat
  BY <1>1
<1>4. PICK g : Sums(g, Cardinality(I))
  BY <1>2, <1>3
<1>5. Small(Cardinality(I)) = SUBSET I
  BY FS_Subset
<1>6. g = [s \in SUBSET I |-> Step(f, g, s)]
  BY <1>4, <1>5
<1>7. Iter(f, I) = [s \in SUBSET I |-> Step(f, Iter(f, I), s)]
  BY <1>6 DEF Iter
<1> DEFINE i == Iter(f, I)
<1>8. i = [s \in SUBSET I |-> Step(f, i, s)]
  BY <1>7
<1> HIDE DEF i
<1>9. \A s \in SUBSET I : i[s] = Step(f, i, s)
  BY <1>8
<1> QED
  BY <1>9 DEF i

(* Every subset of the domain has a sum, and it is a number.                *)
LEMMA IterType ==
  ASSUME NEW f, NEW I, IsFiniteSet(I), \A i \in I : f[i] \in Int
  PROVE  \A s \in SUBSET I : Iter(f, I)[s] \in Int
<1> DEFINE g == Iter(f, I)
           C == {s \in SUBSET I : g[s] \notin Int}
<1>1. \A s \in SUBSET I : g[s] = Step(f, g, s)
  BY IterExists
<1> HIDE DEF g
<1>2. ASSUME C # {} PROVE FALSE
  <2>1. PICK s \in C : \A x \in s : s \ {x} \notin C
    BY <1>2, SmallestSubset
  <2>2. s \in SUBSET I /\ g[s] \notin Int
    BY <2>1
  <2>3. s # {}
    BY <1>1, <2>2 DEF Step
  <2>4. Pick(s) \in s
    BY <2>3 DEF Pick
  <2>5. g[s \ {Pick(s)}] \in Int /\ f[Pick(s)] \in Int
    BY <2>1, <2>2, <2>4
  <2>6. g[s] = f[Pick(s)] + g[s \ {Pick(s)}]
    BY <1>1, <2>2, <2>3 DEF Step
  <2> QED
    BY <2>2, <2>5, <2>6
<1> QED
  BY <1>2 DEF g

(* The functions that sum two sets agree where both are defined.            *)
LEMMA IterRestricts ==
  ASSUME NEW f, NEW I, IsFiniteSet(I), NEW J \in SUBSET I
  PROVE  Iter(f, J)[J] = Iter(f, I)[J]
<1> DEFINE g == Iter(f, I)
           h == Iter(f, J)
           C == {s \in SUBSET J : h[s] # g[s]}
<1>1. IsFiniteSet(J)
  BY FS_Subset
<1>2. \A s \in SUBSET J : g[s] = Step(f, g, s) /\ h[s] = Step(f, h, s)
  BY <1>1, IterExists
<1> HIDE DEF g, h
<1>3. ASSUME C # {} PROVE FALSE
  <2>1. PICK s \in C : \A x \in s : s \ {x} \notin C
    BY <1>1, <1>3, SmallestSubset
  <2>2. s \in SUBSET J /\ h[s] # g[s]
    BY <2>1
  <2>3. s # {}
    BY <1>2, <2>2 DEF Step
  <2>4. Pick(s) \in s
    BY <2>3 DEF Pick
  <2>5. h[s \ {Pick(s)}] = g[s \ {Pick(s)}]
    BY <2>1, <2>2, <2>4
  <2> QED
    BY <1>2, <2>2, <2>5 DEF Step
<1> QED
  BY <1>3 DEF g, h

(* Any element can be taken out first, whatever CHOOSE takes.               *)
LEMMA IterTake ==
  ASSUME NEW f, NEW I, IsFiniteSet(I), \A i \in I : f[i] \in Int
  PROVE  \A s \in SUBSET I : \A x \in s :
           Iter(f, I)[s] = f[x] + Iter(f, I)[s \ {x}]
<1> DEFINE g == Iter(f, I)
           C == {s \in SUBSET I : \E x \in s : g[s] # f[x] + g[s \ {x}]}
<1>1. \A s \in SUBSET I : g[s] = Step(f, g, s)
  BY IterExists
<1>2. \A s \in SUBSET I : g[s] \in Int
  BY IterType
<1> HIDE DEF g
<1>3. ASSUME C # {} PROVE FALSE
  <2>1. PICK s \in C : \A x \in s : s \ {x} \notin C
    BY <1>3, SmallestSubset
  <2>2. PICK x \in s : g[s] # f[x] + g[s \ {x}]
    BY <2>1
  <2> DEFINE c == Pick(s)
  <2>3. s \in SUBSET I /\ s # {}
    BY <2>1, <2>2
  <2>4. c \in s
    BY <2>3 DEF Pick
  <2>5. g[s] = f[c] + g[s \ {c}]
    BY <1>1, <2>3 DEF Step
  <2> HIDE DEF c
  <2>6. c # x
    BY <2>2, <2>5
  <2>7. /\ s \ {c} \in SUBSET I /\ s \ {x} \in SUBSET I
        /\ x \in s \ {c} /\ c \in s \ {x}
    BY <2>2, <2>3, <2>4, <2>6
  <2>8. g[s \ {c}] = f[x] + g[(s \ {c}) \ {x}]
    BY <2>1, <2>4, <2>7
  <2>9. g[s \ {x}] = f[c] + g[(s \ {x}) \ {c}]
    BY <2>1, <2>2, <2>7
  <2>10. (s \ {c}) \ {x} = (s \ {x}) \ {c}
    OBVIOUS
  <2>11. /\ f[c] \in Int /\ f[x] \in Int
         /\ g[(s \ {c}) \ {x}] \in Int
    BY <1>2, <2>2, <2>3, <2>4
  <2>12. f[c] + (f[x] + g[(s \ {c}) \ {x}]) = f[x] + (f[c] + g[(s \ {c}) \ {x}])
    BY <2>11
  <2> QED
    BY <2>2, <2>5, <2>8, <2>9, <2>10, <2>12
<1> QED
  BY <1>3 DEF g
-----------------------------------------------------------------------------
(* The three facts the sums of the model are proved from: the sum of        *)
(* nothing, its type, and one element taken out.                            *)
LEMMA SumEmpty ==
  ASSUME NEW f
  PROVE  SumFunctionOnSet(f, {}) = 0
<1>1. IsFiniteSet({}) /\ {} \in SUBSET {}
  BY FS_EmptySet
<1>2. Iter(f, {})[{}] = Step(f, Iter(f, {}), {})
  BY <1>1, IterExists
<1> QED
  BY <1>2, SumIsIter DEF Step

(* A sum of numbers is one. *)
LEMMA SumType ==
  ASSUME NEW f, NEW I, IsFiniteSet(I), \A i \in I : f[i] \in Int
  PROVE  SumFunctionOnSet(f, I) \in Int
BY IterType, SumIsIter

(* Any element can be taken out. *)
LEMMA SumTake ==
  ASSUME NEW f, NEW I, IsFiniteSet(I), \A i \in I : f[i] \in Int, NEW x \in I
  PROVE  SumFunctionOnSet(f, I) = f[x] + SumFunctionOnSet(f, I \ {x})
<1>1. Iter(f, I)[I] = f[x] + Iter(f, I)[I \ {x}]
  BY IterTake
<1>2. Iter(f, I \ {x})[I \ {x}] = Iter(f, I)[I \ {x}]
  BY IterRestricts
<1> QED
  BY <1>1, <1>2, SumIsIter
-----------------------------------------------------------------------------
(* Numbers of one sign do not cancel.                                       *)
LEMMA SumSign ==
  ASSUME NEW f, NEW I, IsFiniteSet(I), \A i \in I : f[i] \in Int
  PROVE  /\ (\A i \in I : f[i] >= 0) => SumFunctionOnSet(f, I) >= 0
         /\ (\A i \in I : f[i] <= 0) => SumFunctionOnSet(f, I) <= 0
<1> DEFINE Sum(s) == SumFunctionOnSet(f, s)
           C == {s \in SUBSET I : \/ (\A i \in I : f[i] >= 0) /\ ~ (Sum(s) >= 0)
                                  \/ (\A i \in I : f[i] <= 0) /\ ~ (Sum(s) <= 0)}
<1>1. Sum({}) = 0
  BY SumEmpty
<1>2. \A s \in SUBSET I : \A x \in s : Sum(s) = f[x] + Sum(s \ {x})
  BY FS_Subset, SumTake
<1>3. \A s \in SUBSET I : Sum(s) \in Int
  BY FS_Subset, SumType
<1> HIDE DEF Sum
<1>4. ASSUME C # {} PROVE FALSE
  <2>1. PICK s \in C : \A x \in s : s \ {x} \notin C
    BY <1>4, SmallestSubset
  <2>2. /\ s \in SUBSET I
        /\ \/ (\A i \in I : f[i] >= 0) /\ ~ (Sum(s) >= 0)
           \/ (\A i \in I : f[i] <= 0) /\ ~ (Sum(s) <= 0)
    BY <2>1
  <2>3. s # {}
    BY <1>1, <2>2
  <2>4. PICK x : x \in s
    BY <2>3
  <2>5. /\ Sum(s) = f[x] + Sum(s \ {x}) /\ f[x] \in Int
        /\ s \ {x} \in SUBSET I /\ Sum(s \ {x}) \in Int
    BY <1>2, <1>3, <2>2, <2>4
  <2>6. s \ {x} \notin C
    BY <2>1, <2>4
  <2>7. /\ (\A i \in I : f[i] >= 0) => f[x] >= 0 /\ Sum(s \ {x}) >= 0
        /\ (\A i \in I : f[i] <= 0) => f[x] <= 0 /\ Sum(s \ {x}) <= 0
    BY <2>2, <2>4, <2>5, <2>6
  <2> QED
    BY <2>2, <2>5, <2>7
<1>5. I \in SUBSET I
  OBVIOUS
<1> QED
  BY <1>4, <1>5 DEF Sum

(* What is not 0 shows in a sum of numbers of one sign.                     *)
LEMMA SumShows ==
  ASSUME NEW f, NEW I, IsFiniteSet(I), \A i \in I : f[i] \in Int,
         (\A i \in I : f[i] >= 0) \/ (\A i \in I : f[i] <= 0),
         NEW x \in I, f[x] # 0
  PROVE  SumFunctionOnSet(f, I) # 0
<1> DEFINE rest == SumFunctionOnSet(f, I \ {x})
<1>1. IsFiniteSet(I \ {x})
  BY FS_RemoveElement
<1>2. SumFunctionOnSet(f, I) = f[x] + rest
  BY SumTake
<1>3. rest \in Int
  BY <1>1, SumType
<1>4. /\ (\A i \in I \ {x} : f[i] >= 0) => rest >= 0
      /\ (\A i \in I \ {x} : f[i] <= 0) => rest <= 0
  BY <1>1, SumSign
<1> HIDE DEF rest
<1> QED
  BY <1>2, <1>3, <1>4

(* What is 0 does not show.                                                 *)
LEMMA SumZeros ==
  ASSUME NEW f, NEW I, IsFiniteSet(I), \A i \in I : f[i] \in Int,
         NEW K \in SUBSET I, \A i \in I \ K : f[i] = 0
  PROVE  SumFunctionOnSet(f, I) = SumFunctionOnSet(f, K)
<1> DEFINE Sum(s) == SumFunctionOnSet(f, s)
           C == {s \in SUBSET (I \ K) : Sum(K \cup s) # Sum(K)}
<1>1. IsFiniteSet(I \ K)
  BY FS_Subset
<1>2. \A s \in SUBSET I : \A x \in s : Sum(s) = f[x] + Sum(s \ {x})
  BY FS_Subset, SumTake
<1>3. \A s \in SUBSET I : Sum(s) \in Int
  BY FS_Subset, SumType
<1> HIDE DEF Sum
<1>4. ASSUME C # {} PROVE FALSE
  <2>1. PICK s \in C : \A x \in s : s \ {x} \notin C
    BY <1>1, <1>4, SmallestSubset
  <2>2. s \in SUBSET (I \ K) /\ Sum(K \cup s) # Sum(K)
    BY <2>1
  <2>3. s # {}
    BY <2>2
  <2>4. PICK x : x \in s
    BY <2>3
  <2>5. x \in I \ K /\ s \ {x} \in SUBSET (I \ K)
    BY <2>2, <2>4
  <2>6. Sum(K \cup (s \ {x})) = Sum(K)
    BY <2>1, <2>4, <2>5
  <2>7. K \cup s \in SUBSET I /\ x \in K \cup s
    BY <2>2, <2>4
  <2>8. (K \cup s) \ {x} = K \cup (s \ {x})
    BY <2>5
  <2>9. Sum(K \cup s) = 0 + Sum(K)
    BY <1>2, <2>5, <2>6, <2>7, <2>8
  <2> QED
    BY <1>3, <2>2, <2>9
<1>5. I \ K \in SUBSET (I \ K) /\ K \cup (I \ K) = I
  OBVIOUS
<1>6. Sum(K \cup (I \ K)) = Sum(K)
  BY <1>4, <1>5
<1> QED
  BY <1>5, <1>6 DEF Sum

(* A sum in another order.                                                  *)
LEMMA SumReorder ==
  ASSUME NEW f, NEW I, IsFiniteSet(I), \A i \in I : f[i] \in Int,
         NEW g, NEW h, \A i \in I : g[h[i]] = f[i],
         \A i, j \in I : h[i] = h[j] => i = j
  PROVE  SumFunctionOnSet(f, I) = SumFunctionOnSet(g, {h[i] : i \in I})
<1> DEFINE Image(s) == {h[i] : i \in s}
           F(s) == SumFunctionOnSet(f, s)
           G(s) == SumFunctionOnSet(g, Image(s))
           C == {s \in SUBSET I : F(s) # G(s)}
<1>1. F({}) = 0 /\ G({}) = 0
  <2>1. Image({}) = {}
    OBVIOUS
  <2> QED
    BY <2>1, SumEmpty
<1>2. ASSUME NEW s \in SUBSET I, NEW x \in s
      PROVE  /\ F(s) = f[x] + F(s \ {x})
             /\ G(s) = f[x] + G(s \ {x})
  <2>1. IsFiniteSet(s)
    BY FS_Subset
  <2>2. F(s) = f[x] + F(s \ {x})
    BY <2>1, SumTake
  <2>3. IsFiniteSet(Image(s))
    <3> DEFINE r == [i \in s |-> h[i]]
    <3>1. r \in Surjection(s, Image(s))
      BY DEF Surjection
    <3> HIDE DEF r, Image
    <3> QED
      BY <2>1, <3>1, FS_Surjection
  <2>4. \A y \in Image(s) : g[y] \in Int
    OBVIOUS
  <2>5. h[x] \in Image(s)
    OBVIOUS
  <2>6. G(s) = g[h[x]] + SumFunctionOnSet(g, Image(s) \ {h[x]})
    BY <2>3, <2>4, <2>5, SumTake
  <2>7. Image(s) \ {h[x]} = Image(s \ {x})
    OBVIOUS
  <2> QED
    BY <2>2, <2>6, <2>7
<1> HIDE DEF F, G
<1>3. ASSUME C # {} PROVE FALSE
  <2>1. PICK s \in C : \A x \in s : s \ {x} \notin C
    BY <1>3, SmallestSubset
  <2>2. s \in SUBSET I /\ F(s) # G(s)
    BY <2>1
  <2>3. s # {}
    BY <1>1, <2>2
  <2>4. PICK x : x \in s
    BY <2>3
  <2>5. F(s \ {x}) = G(s \ {x})
    BY <2>1, <2>2, <2>4
  <2> QED
    BY <1>2, <2>2, <2>4, <2>5
<1>4. I \in SUBSET I
  OBVIOUS
<1>5. F(I) = G(I)
  BY <1>3, <1>4
<1> QED
  BY <1>5 DEF F, G
-----------------------------------------------------------------------------
(* The k-th position of a set, and how many of the set it has up to it.     *)
UpTo(S, i) == {j \in S : j <= i}

(* A later position has at least these up to it.                            *)
LEMMA UpToGrows ==
  ASSUME NEW S \in SUBSET Nat, NEW i \in Nat, NEW j \in Nat, i <= j
  PROVE  UpTo(S, i) \in SUBSET UpTo(S, j) /\ UpTo(S, j) \in SUBSET S
<1>1. ASSUME NEW l \in S, l <= i PROVE l <= j
  <2>1. l \in Nat
    OBVIOUS
  <2> QED
    BY <1>1, <2>1
<1> QED
  BY <1>1 DEF UpTo

(* There is a k-th one for every k up to the size of the set.               *)
LEMMA NthFound ==
  ASSUME NEW S \in SUBSET Nat, IsFiniteSet(S), NEW k \in 1 .. Cardinality(S)
  PROVE  Nth(S, k) \in S /\ Cardinality(UpTo(S, Nth(S, k))) = k
<1> DEFINE N == Cardinality(S)
           rank == [i \in S |-> Cardinality(UpTo(S, i))]
<1>1. N \in Nat
  BY FS_CardinalityType
<1>2. ASSUME NEW i \in S
      PROVE  /\ IsFiniteSet(UpTo(S, i)) /\ Cardinality(UpTo(S, i)) \in 1 .. N
  <2>1. UpTo(S, i) \in SUBSET S /\ UpTo(S, i) # {}
    BY DEF UpTo
  <2>2. /\ IsFiniteSet(UpTo(S, i)) /\ Cardinality(UpTo(S, i)) <= N
        /\ Cardinality(UpTo(S, i)) \in Nat
    BY <2>1, FS_Subset, FS_CardinalityType
  <2>3. Cardinality(UpTo(S, i)) # 0
    BY <2>1, <2>2, FS_EmptySet
  <2> QED
    BY <1>1, <2>2, <2>3
<1>3. ASSUME NEW i \in S, NEW j \in S, i < j
      PROVE  Cardinality(UpTo(S, i)) < Cardinality(UpTo(S, j))
  <2>1. UpTo(S, i) \in SUBSET UpTo(S, j) /\ j \in UpTo(S, j) /\ j \notin UpTo(S, i)
    <3>1. i \in Nat /\ j \in Nat /\ i <= j /\ ~ (j <= i) /\ j <= j
      BY <1>3
    <3> QED
      BY <3>1, UpToGrows DEF UpTo
  <2>2. /\ Cardinality(UpTo(S, i)) <= Cardinality(UpTo(S, j))
        /\ Cardinality(UpTo(S, j)) = Cardinality(UpTo(S, i))
             => UpTo(S, j) = UpTo(S, i)
    BY <1>2, <2>1, FS_Subset
  <2>3. Cardinality(UpTo(S, j)) # Cardinality(UpTo(S, i))
    BY <2>1, <2>2
  <2> QED
    BY <1>2, <2>2, <2>3
<1>4. rank \in Injection(S, 1 .. N)
  <2>1. rank \in [S -> 1 .. N]
    BY <1>2
  <2>2. ASSUME NEW i \in S, NEW j \in S, rank[i] = rank[j] PROVE i = j
    <3>1. ~ (i < j) /\ ~ (j < i)
      BY <1>2, <1>3, <2>2
    <3> QED
      BY <3>1
  <2> QED
    BY <2>1, <2>2 DEF Injection, IsInjective
<1>5. IsFiniteSet(1 .. N) /\ Cardinality(1 .. N) = N
  BY <1>1, FS_Interval
<1>6. rank \in Surjection(S, 1 .. N)
  BY <1>4, <1>5, FS_Injection
<1>7. PICK i \in S : rank[i] = k
  BY <1>6 DEF Surjection
<1>8. \E j \in S : Cardinality({l \in S : l <= j}) = k
  BY <1>7 DEF UpTo
<1> QED
  BY <1>8 DEF Nth, UpTo

(* They are in order, and only the last of them has nothing behind it.      *)
LEMMA NthOrder ==
  ASSUME NEW S \in SUBSET Nat, IsFiniteSet(S), NEW k \in 1 .. Cardinality(S)
  PROVE  /\ k # 1 => Nth(S, k - 1) \in S /\ Nth(S, k - 1) < Nth(S, k)
         /\ \A m \in S : (\A j \in S : j <= m) /\ k # Cardinality(S)
                           => Nth(S, k) # m
<1> DEFINE N == Cardinality(S)
<1>1. N \in Nat
  BY FS_CardinalityType
<1>2. Nth(S, k) \in S /\ Cardinality(UpTo(S, Nth(S, k))) = k
  BY NthFound
<1>3. ASSUME k # 1
      PROVE  Nth(S, k - 1) \in S /\ Nth(S, k - 1) < Nth(S, k)
  <2> DEFINE a == Nth(S, k - 1)
             b == Nth(S, k)
  <2>1. k - 1 \in 1 .. N
    BY <1>1, <1>3
  <2>2. a \in S /\ Cardinality(UpTo(S, a)) = k - 1
    BY <2>1, NthFound
  <2>3. b \in S /\ Cardinality(UpTo(S, b)) = k
    BY <1>2
  <2> HIDE DEF a, b
  <2>4. ASSUME b <= a PROVE FALSE
    <3>1. UpTo(S, b) \in SUBSET UpTo(S, a) /\ UpTo(S, a) \in SUBSET S
      BY <2>2, <2>3, <2>4, UpToGrows
    <3>2. IsFiniteSet(UpTo(S, a))
      BY <3>1, FS_Subset
    <3>3. Cardinality(UpTo(S, b)) <= Cardinality(UpTo(S, a))
      BY <3>1, <3>2, FS_Subset
    <3> QED
      BY <1>1, <2>2, <2>3, <3>3
  <2>5. a < b
    BY <2>2, <2>3, <2>4
  <2> QED
    BY <2>2, <2>5 DEF a, b
<1>4. ASSUME NEW m \in S, \A j \in S : j <= m, Nth(S, k) = m
      PROVE  k = N
  <2>1. UpTo(S, m) = S
    BY <1>4 DEF UpTo
  <2> QED
    BY <1>2, <1>4, <2>1
<1> QED
  BY <1>3, <1>4
-----------------------------------------------------------------------------
(* The elements of two sequences one behind the other. *)
LEMMA ConcatSet ==
  ASSUME NEW S, NEW s \in Seq(S), NEW t \in Seq(S)
  PROVE  ToSet(s \o t) = ToSet(s) \cup ToSet(t)
<1> DEFINE u == s \o t
           m == Len(s)
           n == Len(t)
<1>1. /\ m \in Nat /\ n \in Nat /\ DOMAIN s = 1 .. m /\ DOMAIN t = 1 .. n
      /\ DOMAIN u = 1 .. m + n
      /\ \A i \in 1 .. m : u[i] = s[i]
      /\ \A i \in 1 .. m + n : i > m => u[i] = t[i - m]
  OBVIOUS
<1> HIDE DEF u, m, n
<1>2. \A i \in 1 .. n : i + m \in 1 .. m + n /\ u[i + m] = t[i]
  <2>1. \A i \in 1 .. n : i + m \in 1 .. m + n /\ i + m > m /\ i + m - m = i
    BY <1>1
  <2> QED
    BY <1>1, <2>1
<1>3. \A i \in 1 .. m + n : i \in 1 .. m \/ (i > m /\ i - m \in 1 .. n)
  BY <1>1
<1>4. \A i \in 1 .. m : i \in 1 .. m + n
  BY <1>1
<1>5. ASSUME NEW x \in ToSet(u) PROVE x \in ToSet(s) \cup ToSet(t)
  <2>1. PICK i \in 1 .. m + n : x = u[i]
    BY <1>1 DEF ToSet
  <2> QED
    BY <1>1, <1>3, <2>1 DEF ToSet
<1>6. ASSUME NEW x \in ToSet(s) \cup ToSet(t) PROVE x \in ToSet(u)
  <2>1. CASE x \in ToSet(s)
    BY <1>1, <1>4, <2>1 DEF ToSet
  <2>2. CASE x \in ToSet(t)
    BY <1>1, <1>2, <2>2 DEF ToSet
  <2> QED
    BY <1>6, <2>1, <2>2
<1> QED
  BY <1>5, <1>6 DEF u

(* The library's concatenation of many sequences is built up like the list  *)
(* of a minimal save, and typed the same way.                               *)
FlatStep(seqs, g, i) == IF i = 1 THEN seqs[i] ELSE g[i - 1] \o seqs[i]

Flat(seqs) ==
  CHOOSE g : g = [i \in 1 .. Len(seqs) |-> FlatStep(seqs, g, i)]

(* The recursion of FlattenSeq defines it at every index.                   *)
LEMMA FlatExists ==
  ASSUME NEW S, NEW seqs \in Seq(S)
  PROVE  \A i \in 1 .. Len(seqs) : Flat(seqs)[i] = FlatStep(seqs, Flat(seqs), i)
<1> DEFINE Flats(g, n) == g = [i \in 1 .. n |-> FlatStep(seqs, g, i)]
           Bad == {n \in Nat : ~ \E g : Flats(g, n)}
<1>1. ASSUME Bad # {} PROVE FALSE
  <2> DEFINE m == Min(Bad)
  <2>1. m \in Bad /\ \A n \in Bad : m <= n
    BY <1>1, MinFound
  <2>2. m \in Nat /\ ~ \E g : Flats(g, m)
    BY <2>1
  <2> HIDE DEF m
  <2>3. ASSUME m # 0 PROVE \E g : Flats(g, m - 1)
    <3>1. m - 1 \in Nat /\ ~ (m <= m - 1)
      BY <2>2, <2>3
    <3>2. m - 1 \notin Bad
      BY <2>1, <3>1
    <3> QED
      BY <3>1, <3>2
  <2>4. CASE m = 0
    <3> DEFINE g == [i \in 1 .. 0 |-> <<>>]
    <3>1. g = [i \in 1 .. 0 |-> FlatStep(seqs, g, i)]
      OBVIOUS
    <3> QED
      BY <2>2, <2>4, <3>1
  <2>5. CASE m # 0
    <3>1. PICK h : Flats(h, m - 1)
      BY <2>3, <2>5
    <3> DEFINE g == [i \in 1 .. m |-> FlatStep(seqs, h, i)]
    <3>2. \A i \in 1 .. m - 1 : i \in 1 .. m /\ h[i] = FlatStep(seqs, h, i)
      BY <2>2, <2>5, <3>1
    <3>3. \A i \in 1 .. m - 1 : g[i] = h[i]
      BY <3>2
    <3>4. ASSUME NEW i \in 1 .. m
          PROVE  FlatStep(seqs, h, i) = FlatStep(seqs, g, i)
      <4>1. CASE i = 1
        BY <4>1 DEF FlatStep
      <4>2. CASE i # 1
        <5>1. i - 1 \in 1 .. m - 1
          BY <2>2, <4>2
        <5>2. g[i - 1] = h[i - 1]
          BY <3>3, <5>1
        <5> HIDE DEF g
        <5> QED
          BY <5>2 DEF FlatStep
      <4> QED
        BY <4>1, <4>2
    <3>5. g = [i \in 1 .. m |-> FlatStep(seqs, g, i)]
      BY <3>4
    <3> QED
      BY <2>2, <3>5
  <2> QED
    BY <2>4, <2>5
<1>2. Len(seqs) \in Nat
  OBVIOUS
<1>3. PICK g : Flats(g, Len(seqs))
  BY <1>1, <1>2
<1> DEFINE k == Flat(seqs)
<1>4. k = [i \in 1 .. Len(seqs) |-> FlatStep(seqs, k, i)]
  BY <1>3 DEF Flat
<1> HIDE DEF k
<1>5. \A i \in 1 .. Len(seqs) : k[i] = FlatStep(seqs, k, i)
  BY <1>4
<1> QED
  BY <1>5 DEF k

(* Sequences of letters are one sequence of letters. *)
LEMMA FlattenType ==
  ASSUME NEW S, NEW seqs \in Seq(Seq(S))
  PROVE  FlattenSeq(seqs) \in Seq(S)
<1> DEFINE n == Len(seqs)
           k == Flat(seqs)
           Bad == {i \in 1 .. n : k[i] \notin Seq(S)}
<1>1. n \in Nat /\ \A i \in 1 .. n : seqs[i] \in Seq(S)
  OBVIOUS
<1>2. \A i \in 1 .. n : k[i] = FlatStep(seqs, k, i)
  BY FlatExists
<1>3. FlattenSeq(seqs) = IF n = 0 THEN seqs ELSE k[n]
  BY DEF FlattenSeq, Flat, FlatStep
<1>4. n = 0 => seqs = <<>>
  OBVIOUS
<1> HIDE DEF n, k
<1>5. ASSUME Bad # {} PROVE FALSE
  <2> DEFINE m == Min(Bad)
  <2>1. m \in Bad /\ \A i \in Bad : m <= i
    <3>1. Bad \in SUBSET Nat
      BY <1>1
    <3> QED
      BY <1>5, <3>1, MinFound
  <2> HIDE DEF m
  <2>2. m \in 1 .. n /\ k[m] \notin Seq(S) /\ m \in Nat
    BY <1>1, <2>1
  <2>3. CASE m = 1
    BY <1>1, <1>2, <2>2, <2>3 DEF FlatStep
  <2>4. CASE m # 1
    <3>1. m - 1 \in 1 .. n /\ ~ (m <= m - 1)
      BY <1>1, <2>2, <2>4
    <3>2. k[m - 1] \in Seq(S)
      BY <2>1, <3>1
    <3>3. k[m] = k[m - 1] \o seqs[m] /\ seqs[m] \in Seq(S)
      BY <1>1, <1>2, <2>2, <2>4 DEF FlatStep
    <3> QED
      BY <2>2, <3>2, <3>3
  <2> QED
    BY <2>3, <2>4
<1>6. CASE n = 0
  BY <1>3, <1>4, <1>6
<1>7. CASE n # 0
  <2>1. n \in 1 .. n
    BY <1>1, <1>7
  <2> QED
    BY <1>3, <1>5, <1>7, <2>1
<1> QED
  BY <1>6, <1>7
-----------------------------------------------------------------------------
(* It has the elements of them all. *)
LEMMA FlattenElements ==
  ASSUME NEW S, NEW seqs \in Seq(Seq(S))
  PROVE  ToSet(FlattenSeq(seqs)) = UNION {ToSet(seqs[i]) : i \in DOMAIN seqs}
<1> DEFINE n == Len(seqs)
           k == Flat(seqs)
           Joined(i) == UNION {ToSet(seqs[j]) : j \in 1 .. i}
           Bad == {i \in 1 .. n : ~ (k[i] \in Seq(S) /\ ToSet(k[i]) = Joined(i))}
<1>1. n \in Nat /\ DOMAIN seqs = 1 .. n /\ \A i \in 1 .. n : seqs[i] \in Seq(S)
  OBVIOUS
<1>2. \A i \in 1 .. n : k[i] = FlatStep(seqs, k, i)
  BY FlatExists
<1>3. FlattenSeq(seqs) = IF n = 0 THEN seqs ELSE k[n]
  BY DEF FlattenSeq, Flat, FlatStep
<1>4. n = 0 => seqs = <<>> /\ Joined(n) = {}
  OBVIOUS
<1> HIDE DEF n, k
<1>5. ASSUME Bad # {} PROVE FALSE
  <2> DEFINE m == Min(Bad)
  <2>1. m \in Bad /\ \A i \in Bad : m <= i
    <3>1. Bad \in SUBSET Nat
      BY <1>1
    <3> QED
      BY <1>5, <3>1, MinFound
  <2> HIDE DEF m
  <2>2. /\ m \in 1 .. n /\ m \in Nat
        /\ ~ (k[m] \in Seq(S) /\ ToSet(k[m]) = Joined(m))
    BY <1>1, <2>1
  <2>3. CASE m = 1
    <3>1. k[1] = seqs[1] /\ seqs[1] \in Seq(S)
      BY <1>1, <1>2, <2>2, <2>3 DEF FlatStep
    <3>2. Joined(1) = ToSet(seqs[1])
      OBVIOUS
    <3> QED
      BY <2>2, <2>3, <3>1, <3>2
  <2>4. CASE m # 1
    <3>1. m - 1 \in 1 .. n /\ ~ (m <= m - 1)
      BY <1>1, <2>2, <2>4
    <3>2. k[m - 1] \in Seq(S) /\ ToSet(k[m - 1]) = Joined(m - 1)
      BY <2>1, <3>1
    <3>3. k[m] = k[m - 1] \o seqs[m] /\ seqs[m] \in Seq(S)
      BY <1>1, <1>2, <2>2, <2>4 DEF FlatStep
    <3>4. ToSet(k[m]) = ToSet(k[m - 1]) \cup ToSet(seqs[m])
      BY <3>2, <3>3, ConcatSet
    <3>5. 1 .. m = (1 .. m - 1) \cup {m}
      BY <2>2
    <3>6. Joined(m) = Joined(m - 1) \cup ToSet(seqs[m])
      BY <3>5
    <3>7. k[m] \in Seq(S)
      BY <3>2, <3>3
    <3> QED
      BY <2>2, <3>2, <3>4, <3>6, <3>7
  <2> QED
    BY <2>3, <2>4
<1>6. n = 0 => ToSet(FlattenSeq(seqs)) = Joined(n)
  BY <1>1, <1>3, <1>4 DEF ToSet
<1>7. ASSUME n # 0 PROVE ToSet(FlattenSeq(seqs)) = Joined(n)
  <2>1. n \in 1 .. n
    BY <1>1, <1>7
  <2>2. ToSet(k[n]) = Joined(n)
    BY <1>5, <2>1
  <2> QED
    BY <1>1, <1>3, <1>7, <2>2
<1>8. Joined(n) = UNION {ToSet(seqs[i]) : i \in DOMAIN seqs}
  BY <1>1
<1> HIDE DEF Joined
<1>9. ToSet(FlattenSeq(seqs)) = Joined(n)
  BY <1>6, <1>7
<1> QED
  BY <1>8, <1>9
-----------------------------------------------------------------------------
(* A position of a set is the one its rank says.                            *)
LEMMA NthOfRank ==
  ASSUME NEW S \in SUBSET Nat, IsFiniteSet(S), NEW i \in S
  PROVE  /\ Cardinality(UpTo(S, i)) \in 1 .. Cardinality(S)
         /\ Nth(S, Cardinality(UpTo(S, i))) = i
<1> DEFINE k == Cardinality(UpTo(S, i))
           j == Nth(S, k)
<1>1. \A l \in S : /\ UpTo(S, l) \in SUBSET S /\ l \in UpTo(S, l)
                   /\ IsFiniteSet(UpTo(S, l))
  <2>1. \A l \in S : UpTo(S, l) \in SUBSET S /\ l \in UpTo(S, l)
    BY DEF UpTo
  <2> QED
    BY <2>1, FS_Subset
<1>2. k \in Nat /\ Cardinality(S) \in Nat /\ k <= Cardinality(S) /\ k # 0
  BY <1>1, FS_CardinalityType, FS_Subset, FS_EmptySet
<1>3. k \in 1 .. Cardinality(S)
  BY <1>2
<1> HIDE DEF k
<1>4. j \in S /\ Cardinality(UpTo(S, j)) = k
  BY <1>3, NthFound
<1> HIDE DEF j
<1>5. ASSUME NEW a \in S, NEW b \in S, a < b
      PROVE  Cardinality(UpTo(S, a)) # Cardinality(UpTo(S, b))
  <2>1. UpTo(S, a) \in SUBSET UpTo(S, b) /\ b \notin UpTo(S, a)
    <3>1. a \in Nat /\ b \in Nat /\ a <= b /\ ~ (b <= a)
      BY <1>5
    <3> QED
      BY <3>1, UpToGrows DEF UpTo
  <2> QED
    BY <1>1, <2>1, FS_Subset
<1>6. i = j
  <2>1. ~ (i < j) /\ ~ (j < i)
    BY <1>4, <1>5 DEF k
  <2>2. i \in Nat /\ j \in Nat
    BY <1>4
  <2> QED
    BY <2>1, <2>2
<1> QED
  BY <1>3, <1>6 DEF j, k

(* Ascending has every position once, in order.                             *)
LEMMA AscendingIs ==
  ASSUME NEW S \in SUBSET Nat, IsFiniteSet(S)
  PROVE  /\ Ascending(S) \in Seq(S) /\ ToSet(Ascending(S)) = S
         /\ \A j, k \in DOMAIN Ascending(S) :
              j < k => Ascending(S)[j] < Ascending(S)[k]
<1> DEFINE N == Cardinality(S)
           A == Ascending(S)
<1>1. N \in Nat
  BY FS_CardinalityType
<1>2. \A k \in 1 .. N : Nth(S, k) \in S
  BY NthFound
<1>3. A = [k \in 1 .. N |-> Nth(S, k)]
  BY DEF Ascending
<1> HIDE DEF A
<1>4. A \in Seq(S) /\ DOMAIN A = 1 .. N
  BY <1>1, <1>2, <1>3
<1>5. ToSet(A) = S
  <2>1. ASSUME NEW i \in S PROVE i \in ToSet(A)
    <3>1. \E k \in 1 .. N : Nth(S, k) = i
      BY NthOfRank
    <3> QED
      BY <1>3, <1>4, <3>1 DEF ToSet
  <2> QED
    BY <1>2, <1>3, <1>4, <2>1 DEF ToSet
<1>6. ASSUME NEW j \in 1 .. N, NEW k \in 1 .. N, j < k
      PROVE  A[j] < A[k]
  <2> DEFINE a == Nth(S, j)
             b == Nth(S, k)
  <2>1. /\ a \in S /\ Cardinality(UpTo(S, a)) = j
        /\ b \in S /\ Cardinality(UpTo(S, b)) = k
    BY NthFound
  <2> HIDE DEF a, b
  <2>2. ASSUME b <= a PROVE FALSE
    <3>1. UpTo(S, b) \in SUBSET UpTo(S, a) /\ UpTo(S, a) \in SUBSET S
      BY <2>1, <2>2, UpToGrows
    <3>2. IsFiniteSet(UpTo(S, a))
      BY <3>1, FS_Subset
    <3>3. Cardinality(UpTo(S, b)) <= Cardinality(UpTo(S, a))
      BY <3>1, <3>2, FS_Subset
    <3> QED
      BY <1>1, <1>6, <2>1, <3>3
  <2>3. a < b
    BY <2>1, <2>2
  <2> QED
    BY <1>3, <2>3 DEF a, b
<1> QED
  BY <1>4, <1>5, <1>6 DEF A
-----------------------------------------------------------------------------
(* Between the position before it and the k-th there is none. *)
LEMMA NthNone ==
  ASSUME NEW S \in SUBSET Nat, IsFiniteSet(S), NEW k \in 1 .. Cardinality(S),
         NEW i \in S, i < Nth(S, k)
  PROVE  k # 1 /\ i <= Nth(S, k - 1)
<1> DEFINE r == Cardinality(UpTo(S, i))
<1>1. r \in 1 .. Cardinality(S) /\ Nth(S, r) = i
  BY NthOfRank
<1>2. Cardinality(S) \in Nat
  BY FS_CardinalityType
<1>3. Nth(S, k) \in S /\ Cardinality(UpTo(S, Nth(S, k))) = k
  BY NthFound
<1>4. r < k
  <2> DEFINE b == Nth(S, k)
  <2>1. b \in S /\ i < b
    BY <1>3
  <2> HIDE DEF b
  <2>a. i \in Nat /\ b \in Nat /\ i <= b /\ ~ (b <= i)
    BY <2>1
  <2>2. UpTo(S, i) \in SUBSET UpTo(S, b) /\ UpTo(S, b) \in SUBSET S
    BY <2>a, UpToGrows
  <2>3. b \in UpTo(S, b) /\ b \notin UpTo(S, i)
    BY <2>1, <2>a DEF UpTo
  <2>4. IsFiniteSet(UpTo(S, b))
    BY <2>2, FS_Subset
  <2>5. /\ r <= Cardinality(UpTo(S, b))
        /\ r = Cardinality(UpTo(S, b)) => UpTo(S, i) = UpTo(S, b)
    BY <2>2, <2>4, FS_Subset
  <2>6. r # Cardinality(UpTo(S, b))
    BY <2>3, <2>5
  <2> QED
    BY <1>1, <1>2, <1>3, <2>5, <2>6 DEF b
<1> HIDE DEF r
<1>5. k # 1 /\ k - 1 \in 1 .. Cardinality(S)
  BY <1>1, <1>2, <1>4
<1>6. ASSUME Nth(S, k - 1) < i PROVE FALSE
  <2> DEFINE a == Nth(S, k - 1)
  <2>1. a \in S /\ Cardinality(UpTo(S, a)) = k - 1
    BY <1>5, NthFound
  <2>2. a < i /\ a \in Nat /\ i \in Nat
    BY <1>6, <2>1
  <2> HIDE DEF a
  <2>3. UpTo(S, a) \in SUBSET UpTo(S, i) /\ UpTo(S, i) \in SUBSET S
    BY <2>1, <2>2, UpToGrows
  <2>4. i \in UpTo(S, i) /\ i \notin UpTo(S, a)
    BY <2>2 DEF UpTo
  <2>5. IsFiniteSet(UpTo(S, i))
    BY <2>3, FS_Subset
  <2>6. /\ k - 1 <= Cardinality(UpTo(S, i))
        /\ k - 1 = Cardinality(UpTo(S, i)) => UpTo(S, a) = UpTo(S, i)
    BY <2>1, <2>3, <2>5, FS_Subset
  <2>7. k - 1 # Cardinality(UpTo(S, i))
    BY <2>4, <2>6
  <2>8. r = Cardinality(UpTo(S, i))
    BY DEF r
  <2> QED
    BY <1>1, <1>2, <1>4, <1>5, <2>6, <2>7, <2>8
<1>7. Nth(S, k - 1) \in Nat /\ i \in Nat
  <2>1. Nth(S, k - 1) \in S
    BY <1>5, NthFound
  <2> QED
    BY <2>1
<1> QED
  BY <1>5, <1>6, <1>7

(* Positions in order, with none of the set left out up to the last of      *)
(* them, are the first ones of the set.                                     *)
LEMMA NthIs ==
  ASSUME NEW S \in SUBSET Nat, IsFiniteSet(S), NEW u \in Nat, NEW p,
         \A k \in 1 .. u : p[k] \in S,
         \A k \in 1 .. u : \A i \in S :
           i <= p[k] <=> i = p[k] \/ (k # 1 /\ i <= p[k - 1]),
         \A k \in 1 .. u : k # 1 => p[k - 1] < p[k]
  PROVE  u <= Cardinality(S) /\ \A k \in 1 .. u : Nth(S, k) = p[k]
<1> DEFINE r(k) == Cardinality(UpTo(S, p[k]))
           Bad == {k \in 1 .. u : r(k) # k}
<1>1. ASSUME Bad # {} PROVE FALSE
  <2> DEFINE k == Min(Bad)
  <2>1. k \in Bad /\ \A j \in Bad : k <= j
    BY <1>1, MinFound
  <2>2. k \in 1 .. u /\ r(k) # k
    BY <2>1
  <2>3. ASSUME k # 1 PROVE k - 1 \in 1 .. u /\ r(k - 1) = k - 1
    <3> HIDE DEF k
    <3>1. k - 1 \in 1 .. u /\ ~ (k <= k - 1)
      BY <2>2, <2>3
    <3> QED
      BY <2>1, <3>1
  <2> HIDE DEF k, Bad
  <2>4. CASE k = 1
    <3>1. UpTo(S, p[k]) = {p[k]}
      BY <2>2, <2>4 DEF UpTo
    <3> QED
      BY <2>2, <2>4, <3>1, FS_Singleton
  <2>5. CASE k # 1
    <3> DEFINE T == UpTo(S, p[k - 1])
    <3>0. p[k] \in S /\ \A i \in S : i <= p[k] <=> i = p[k] \/ i <= p[k - 1]
      BY <2>2, <2>5
    <3>1. UpTo(S, p[k]) = T \cup {p[k]}
      <4> DEFINE x == p[k]
                 y == p[k - 1]
      <4>1. x \in S /\ \A i \in S : i <= x <=> i = x \/ i <= y
        BY <3>0
      <4> HIDE DEF x, y
      <4>2. {i \in S : i <= x} = {i \in S : i <= y} \cup {x}
        BY <4>1
      <4> QED
        BY <4>2 DEF UpTo, x, y
    <3>2. p[k] \notin T
      <4>1. p[k] \in Nat /\ p[k - 1] \in Nat /\ p[k - 1] < p[k]
        BY <2>2, <2>3, <2>5
      <4> QED
        BY <4>1 DEF UpTo
    <3>3. IsFiniteSet(T)
      <4>1. T \in SUBSET S
        BY DEF UpTo
      <4> QED
        BY <4>1, FS_Subset
    <3>4. Cardinality(T \cup {p[k]}) = Cardinality(T) + 1
      BY <3>2, <3>3, FS_AddElement
    <3>5. r(k) = (k - 1) + 1
      BY <2>3, <2>5, <3>1, <3>4
    <3> QED
      BY <2>2, <3>5
  <2> QED
    BY <2>4, <2>5
<1>2. \A k \in 1 .. u : r(k) = k
  BY <1>1
<1> HIDE DEF Bad
<1>3. \A k \in 1 .. u : k \in 1 .. Cardinality(S) /\ Nth(S, k) = p[k]
  <2> TAKE k \in 1 .. u
  <2> DEFINE x == p[k]
  <2>1. x \in S /\ Cardinality(UpTo(S, x)) = k
    BY <1>2
  <2> HIDE DEF x
  <2>2. k \in 1 .. Cardinality(S) /\ Nth(S, k) = x
    BY <2>1, NthOfRank
  <2> QED
    BY <2>2 DEF x
<1>4. Cardinality(S) \in Nat
  BY FS_CardinalityType
<1>5. u <= Cardinality(S)
  <2>1. CASE u = 0
    BY <1>4, <2>1
  <2>2. CASE u # 0
    <3>1. u \in 1 .. u
      BY <2>2
    <3> QED
      BY <1>3, <1>4, <3>1
  <2> QED
    BY <2>1, <2>2
<1> QED
  BY <1>3, <1>5
-----------------------------------------------------------------------------
(* A sequence among many lies behind those in front of it. *)
LEMMA FlatPlace ==
  ASSUME NEW S, NEW seqs \in Seq(Seq(S)), NEW u \in 1 .. Len(seqs)
  PROVE  LET a == IF u = 1 THEN 0 ELSE Len(Flat(seqs)[u - 1])
             b == Len(Flat(seqs)[u])
             all == FlattenSeq(seqs)
         IN  /\ a \in Nat /\ b = a + Len(seqs[u])
             /\ b <= Len(all) /\ (u = Len(seqs) => b = Len(all))
             /\ \A i \in 1 .. Len(seqs[u]) : all[a + i] = seqs[u][i]
<1> DEFINE n == Len(seqs)
           k == Flat(seqs)
           all == FlattenSeq(seqs)
           Begins(i) == /\ k[i] \in Seq(S) /\ Len(k[i]) <= Len(all)
                        /\ \A j \in 1 .. Len(k[i]) : all[j] = k[i][j]
           Bad == {i \in 0 .. n - 1 : ~ Begins(n - i)}
<1>1. n \in Nat /\ (\A i \in 1 .. n : seqs[i] \in Seq(S)) /\ u \in 1 .. n
  OBVIOUS
<1>2. \A i \in 1 .. n : k[i] = FlatStep(seqs, k, i)
  BY FlatExists
<1>3. all = k[n] /\ all \in Seq(S)
  <2>1. FlattenSeq(seqs) = IF n = 0 THEN seqs ELSE k[n]
    BY DEF FlattenSeq, Flat, FlatStep
  <2> QED
    BY <1>1, <2>1, FlattenType
<1>4. \A i \in 1 .. n : k[i] \in Seq(S)
  <2> DEFINE Odd == {i \in 1 .. n : k[i] \notin Seq(S)}
  <2>1. ASSUME Odd # {} PROVE FALSE
    <3> DEFINE m == Min(Odd)
    <3>1. m \in Odd /\ \A i \in Odd : m <= i
      <4>1. Odd \in SUBSET Nat
        BY <1>1
      <4> QED
        BY <2>1, <4>1, MinFound
    <3> HIDE DEF m
    <3>2. m \in 1 .. n /\ k[m] \notin Seq(S) /\ m \in Nat
      BY <1>1, <3>1
    <3>3. CASE m = 1
      <4> HIDE DEF n, k
      <4> QED
        BY <1>1, <1>2, <3>2, <3>3 DEF FlatStep
    <3>4. CASE m # 1
      <4>1. m - 1 \in 1 .. n /\ ~ (m <= m - 1)
        BY <1>1, <3>2, <3>4
      <4>2. k[m - 1] \in Seq(S)
        BY <3>1, <4>1
      <4> HIDE DEF n, k
      <4>3. k[m] = k[m - 1] \o seqs[m] /\ seqs[m] \in Seq(S)
        BY <1>1, <1>2, <3>2, <3>4 DEF FlatStep
      <4> QED
        BY <3>2, <4>2, <4>3
    <3> QED
      BY <3>3, <3>4
  <2> QED
    BY <2>1
<1> HIDE DEF n, k, all
<1>5. ASSUME NEW i \in 1 .. n, i # 1
      PROVE  /\ i - 1 \in 1 .. n
             /\ k[i - 1] \in Seq(S) /\ seqs[i] \in Seq(S)
             /\ k[i] = k[i - 1] \o seqs[i]
             /\ Len(k[i]) = Len(k[i - 1]) + Len(seqs[i])
             /\ \A j \in 1 .. Len(k[i - 1]) : k[i][j] = k[i - 1][j]
             /\ \A j \in 1 .. Len(seqs[i]) : k[i][Len(k[i - 1]) + j] = seqs[i][j]
  <2>1. i - 1 \in 1 .. n
    BY <1>1, <1>5
  <2> DEFINE s == k[i - 1]
             t == seqs[i]
             c == k[i]
  <2>2. c = s \o t /\ s \in Seq(S) /\ t \in Seq(S)
    BY <1>1, <1>2, <1>4, <1>5, <2>1 DEF FlatStep
  <2> HIDE DEF s, t, c
  <2>3. /\ Len(c) = Len(s) + Len(t)
        /\ \A j \in 1 .. Len(s) : c[j] = s[j]
        /\ \A j \in 1 .. Len(t) : c[Len(s) + j] = t[j]
    BY <2>2
  <2> QED
    BY <2>1, <2>2, <2>3 DEF s, t, c
<1>6. ASSUME Bad # {} PROVE FALSE
  <2> DEFINE m == Min(Bad)
  <2>1. m \in Bad /\ \A i \in Bad : m <= i
    <3>1. Bad \in SUBSET Nat
      BY <1>1
    <3> QED
      BY <1>6, <3>1, MinFound
  <2> HIDE DEF m
  <2>2. m \in 0 .. n - 1 /\ ~ Begins(n - m)
    BY <2>1
  <2>3. CASE m = 0
    <3>1. n - m = n
      BY <1>1, <2>3
    <3> QED
      BY <1>3, <2>2, <3>1
  <2>4. CASE m # 0
    <3> DEFINE i == n - m + 1
    <3>1. /\ m - 1 \in 0 .. n - 1 /\ ~ (m <= m - 1) /\ n - (m - 1) = i
          /\ i \in 1 .. n /\ i # 1 /\ i - 1 = n - m
      BY <1>1, <2>2, <2>4
    <3>2. Begins(n - (m - 1))
      BY <2>1, <3>1
    <3> HIDE DEF i
    <3>3. Begins(i)
      BY <3>1, <3>2
    <3>4. Begins(i - 1)
      <4>1. /\ k[i - 1] \in Seq(S) /\ seqs[i] \in Seq(S)
            /\ Len(k[i]) = Len(k[i - 1]) + Len(seqs[i])
            /\ \A j \in 1 .. Len(k[i - 1]) : k[i][j] = k[i - 1][j]
        BY <1>5, <3>1
      <4> DEFINE l == Len(k[i - 1])
      <4>2. l \in Nat /\ l <= Len(k[i]) /\ Len(all) \in Nat /\ Len(k[i]) \in Nat
        <5> DEFINE c == Len(k[i])
                   d == Len(seqs[i])
        <5>1. l \in Nat /\ d \in Nat
          BY <4>1
        <5>2. c = l + d
          BY <4>1
        <5>3. Len(all) \in Nat
          BY <1>3
        <5> HIDE DEF c, d, l
        <5>4. l \in Nat /\ l <= c /\ c \in Nat
          BY <5>1, <5>2
        <5> QED
          BY <5>3, <5>4 DEF c
      <4>3. l <= Len(all)
        BY <3>3, <4>2
      <4>4. \A j \in 1 .. l : j \in 1 .. Len(k[i])
        BY <4>2
      <4> QED
        BY <3>3, <4>1, <4>3, <4>4
    <3> QED
      BY <2>2, <3>1, <3>4
  <2> QED
    BY <2>3, <2>4
<1>7. Begins(u)
  <2> DEFINE i == n - u
  <2>1. i \in 0 .. n - 1 /\ n - i = u
    BY <1>1
  <2>2. Begins(n - i)
    <3> HIDE DEF i
    <3> QED
      BY <1>6, <2>1
  <2> QED
    BY <2>1, <2>2
<1> HIDE DEF Bad
<1> DEFINE a == IF u = 1 THEN 0 ELSE Len(k[u - 1])
           t == seqs[u]
<1>8. t \in Seq(S) /\ Len(t) \in Nat
  BY <1>1
<1> HIDE DEF t
<1>9. a \in Nat /\ Len(k[u]) = a + Len(t) /\ \A j \in 1 .. Len(t) : k[u][a + j] = t[j]
  <2>1. CASE u = 1
    <3>1. k[u] = t /\ a = 0
      BY <1>1, <1>2, <2>1 DEF FlatStep, t
    <3> QED
      BY <1>8, <3>1
  <2>2. CASE u # 1
    <3>1. a = Len(k[u - 1])
      BY <2>2
    <3> HIDE DEF a
    <3>2. k[u - 1] \in Seq(S)
      BY <1>1, <1>5, <2>2
    <3>3. Len(k[u]) = a + Len(t)
      BY <1>1, <1>5, <2>2, <3>1 DEF t
    <3>4. \A j \in 1 .. Len(t) : k[u][a + j] = t[j]
      BY <1>1, <1>5, <2>2, <3>1 DEF t
    <3>5. a \in Nat
      BY <3>1, <3>2
    <3> QED
      BY <3>3, <3>4, <3>5
  <2> QED
    BY <2>1, <2>2
<1> HIDE DEF a
<1>10. \A j \in 1 .. Len(t) : a + j \in 1 .. Len(k[u])
  BY <1>8, <1>9
<1>11. \A j \in 1 .. Len(t) : all[a + j] = t[j]
  BY <1>7, <1>9, <1>10
<1>12. Len(k[u]) <= Len(all) /\ (u = n => Len(k[u]) = Len(all))
  BY <1>3, <1>7
<1> QED
  BY <1>9, <1>11, <1>12 DEF a, t, n, k, all
=============================================================================
