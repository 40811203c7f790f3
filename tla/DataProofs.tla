------------------------------ MODULE DataProofs ------------------------------
(***************************************************************************)
(* Lemmas about the data the models are built from: sums over finite sets, *)
(* filtered sequences, and the elements of a sequence.                     *)
(*                                                                         *)
(* The sums and Without are recursive functions.  What they compute is     *)
(* proved without an induction rule, by taking a smallest counterexample:  *)
(* a subset of least cardinality, or a least index.                        *)
(***************************************************************************)
EXTENDS Filter, SequencesExt, FiniteSetsExt, FiniteSetTheorems, SequenceTheorems,
        WellFoundedInduction, TLAPS

(* The element a fold takes next. *)
Pick(s) == CHOOSE x \in s : TRUE

(* h computes partial sums of fun over the subsets of S. *)
Iterates(h, fun, S) ==
    h = [s \in SUBSET S |-> IF s = {} THEN 0 ELSE fun[Pick(s)] + h[s \ {Pick(s)}]]

(* A sum is the last value of an iteration over the subsets of the set. *)
LEMMA SumIsIterate ==
    ASSUME NEW fun, NEW S
    PROVE  SumFunctionOnSet(fun, S) = (CHOOSE h : Iterates(h, fun, S))[S]
BY DEF SumFunctionOnSet, FoldFunctionOnSet, MapThenFoldSet, Iterates, Pick

(* MapThenSumSet adds the same values as SumFunctionOnSet. *)
LEMMA MapIsFunction ==
    ASSUME NEW fun, NEW S
    PROVE  MapThenSumSet(LAMBDA x : fun[x], S) = SumFunctionOnSet(fun, S)
BY Zenon DEF MapThenSumSet, SumFunctionOnSet, FoldFunctionOnSet

(* A property of some finite subset holds of a smallest one. *)
LEMMA SmallestSubset ==
    ASSUME NEW S, IsFiniteSet(S), NEW T, T \subseteq SUBSET S, T # {}
    PROVE  \E U \in T : \A V \in T : ~(V \subseteq U /\ V # U)
<1>1. IsWellFoundedOn(StrictSubsetOrdering(S), SUBSET S)
  BY FS_StrictSubsetOrderingWellFounded, FS_FiniteSubsetsOfFinite
<1>2. PICK U \in T : \A V \in T : ~(<<V, U>> \in StrictSubsetOrdering(S))
  BY <1>1, WFMin
<1> QED BY <1>2 DEF StrictSubsetOrdering

(* Two iterations over the same set agree. *)
LEMMA IteratesUnique ==
    ASSUME NEW fun, NEW S, IsFiniteSet(S), NEW g, NEW h,
           Iterates(g, fun, S), Iterates(h, fun, S)
    PROVE  g = h
<1> DEFINE T == {s \in SUBSET S : g[s] # h[s]}
<1>1. SUFFICES ASSUME T # {} PROVE FALSE
  BY DEF Iterates
<1>2. PICK U \in T : \A V \in T : ~(V \subseteq U /\ V # U)
  <2>1. T \subseteq SUBSET S
    OBVIOUS
  <2> HIDE DEF T
  <2> QED BY <1>1, <2>1, SmallestSubset
<1>3. U # {}
  BY DEF Iterates
<1>4. Pick(U) \in U
  BY <1>3 DEF Pick
<1>5. g[U \ {Pick(U)}] = h[U \ {Pick(U)}]
  BY <1>2, <1>4
<1>6. /\ g[U] = fun[Pick(U)] + g[U \ {Pick(U)}]
      /\ h[U] = fun[Pick(U)] + h[U \ {Pick(U)}]
  BY <1>3 DEF Iterates
<1> QED BY <1>5, <1>6

(* An iteration restricted to the subsets of a smaller set is an iteration. *)
LEMMA IteratesRestricts ==
    ASSUME NEW fun, NEW S, NEW U \in SUBSET S, NEW h, Iterates(h, fun, S)
    PROVE  Iterates([s \in SUBSET U |-> h[s]], fun, U)
<1> DEFINE g == [s \in SUBSET U |-> h[s]]
<1>1. ASSUME NEW s \in SUBSET U
      PROVE  g[s] = IF s = {} THEN 0 ELSE fun[Pick(s)] + g[s \ {Pick(s)}]
  <2>1. s \ {Pick(s)} \in SUBSET U
    OBVIOUS
  <2>2. h[s] = IF s = {} THEN 0 ELSE fun[Pick(s)] + h[s \ {Pick(s)}]
    BY DEF Iterates
  <2> QED BY <2>1, <2>2
<1> QED BY <1>1 DEF Iterates

(* A finite set can be iterated over. *)
LEMMA IteratesExists ==
    ASSUME NEW fun, NEW S, IsFiniteSet(S)
    PROVE  \E h : Iterates(h, fun, S)
<1> DEFINE T == {U \in SUBSET S : ~\E h : Iterates(h, fun, U)}
<1>1. SUFFICES ASSUME T # {} PROVE FALSE
  OBVIOUS
<1>2. PICK U \in T : \A V \in T : ~(V \subseteq U /\ V # U)
  <2>1. T \subseteq SUBSET S
    OBVIOUS
  <2> HIDE DEF T
  <2> QED BY <1>1, <2>1, SmallestSubset
<1> DEFINE It(V) == CHOOSE h : Iterates(h, fun, V)
           Val(s) == IF s = {} THEN 0
                     ELSE fun[Pick(s)] + It(s \ {Pick(s)})[s \ {Pick(s)}]
           g == [s \in SUBSET U |-> Val(s)]
<1>3. ASSUME NEW V \in SUBSET U, V # U
      PROVE  Iterates(It(V), fun, V)
  BY <1>2, <1>3
<1> HIDE DEF It
<1>4. ASSUME NEW V \in SUBSET U, V # U
      PROVE  It(V)[V] = Val(V)
  <2>1. Iterates(It(V), fun, V)
    BY <1>3, <1>4
  <2>2. It(V)[V] = IF V = {} THEN 0 ELSE fun[Pick(V)] + It(V)[V \ {Pick(V)}]
    BY <2>1 DEF Iterates
  <2> DEFINE W == V \ {Pick(V)}
  <2>3. ASSUME V # {} PROVE It(V)[W] = It(W)[W]
    <3>1. Pick(V) \in V
      BY <2>3 DEF Pick
    <3>2. W \in SUBSET U /\ W # U
      BY <1>4, <3>1
    <3>3. Iterates(It(W), fun, W)
      BY <3>2, <1>3
    <3>4. Iterates([s \in SUBSET W |-> It(V)[s]], fun, W)
      BY <2>1, IteratesRestricts
    <3>5. IsFiniteSet(W)
      BY <3>2, FS_Subset
    <3>6. It(W) = [s \in SUBSET W |-> It(V)[s]]
      BY <3>3, <3>4, <3>5, IteratesUnique
    <3> QED BY <3>6
  <2> QED BY <2>2, <2>3
<1>5. Iterates(g, fun, U)
  <2>1. ASSUME NEW s \in SUBSET U, s # {}
        PROVE  g[s] = fun[Pick(s)] + g[s \ {Pick(s)}]
    <3>1. Pick(s) \in s
      BY <2>1 DEF Pick
    <3>2. s \ {Pick(s)} \in SUBSET U /\ s \ {Pick(s)} # U
      BY <3>1
    <3>3. It(s \ {Pick(s)})[s \ {Pick(s)}] = g[s \ {Pick(s)}]
      BY <3>2, <1>4
    <3> QED BY <2>1, <3>3
  <2>2. g[{}] = 0
    OBVIOUS
  <2> QED BY <2>1, <2>2 DEF Iterates
<1> QED BY <1>2, <1>5

(* The sum of the empty set, and the equation that defines all others. *)
LEMMA SumEmpty ==
    ASSUME NEW fun
    PROVE  SumFunctionOnSet(fun, {}) = 0
<1> DEFINE h == CHOOSE h : Iterates(h, fun, {})
<1>1. Iterates(h, fun, {})
  BY IteratesExists, FS_EmptySet
<1>2. h[{}] = 0
  BY <1>1 DEF Iterates
<1> QED BY <1>2, SumIsIterate

(* The sum of a nonempty set, one element taken out. *)
LEMMA SumPick ==
    ASSUME NEW fun, NEW S, IsFiniteSet(S), S # {}
    PROVE  SumFunctionOnSet(fun, S)
             = fun[Pick(S)] + SumFunctionOnSet(fun, S \ {Pick(S)})
<1> DEFINE W == S \ {Pick(S)}
           It(V) == CHOOSE h : Iterates(h, fun, V)
<1>1. IsFiniteSet(W)
  BY FS_Subset
<1>2. Iterates(It(S), fun, S) /\ Iterates(It(W), fun, W)
  BY <1>1, IteratesExists
<1> HIDE DEF It
<1>3. Iterates([s \in SUBSET W |-> It(S)[s]], fun, W)
  BY <1>2, IteratesRestricts
<1>4. It(W) = [s \in SUBSET W |-> It(S)[s]]
  BY <1>1, <1>2, <1>3, IteratesUnique
<1>5. It(S)[S] = fun[Pick(S)] + It(S)[W]
  BY <1>2 DEF Iterates
<1>6. It(S)[S] = fun[Pick(S)] + It(W)[W]
  BY <1>4, <1>5
<1> QED BY <1>6, SumIsIterate DEF It

(* A sum of naturals is a natural. *)
LEMMA SumNat ==
    ASSUME NEW fun, NEW S, IsFiniteSet(S), \A x \in S : fun[x] \in Nat
    PROVE  SumFunctionOnSet(fun, S) \in Nat
<1> DEFINE T == {U \in SUBSET S : SumFunctionOnSet(fun, U) \notin Nat}
<1>1. SUFFICES ASSUME T # {} PROVE FALSE
  OBVIOUS
<1>2. PICK U \in T : \A V \in T : ~(V \subseteq U /\ V # U)
  <2>1. T \subseteq SUBSET S
    OBVIOUS
  <2> HIDE DEF T
  <2> QED BY <1>1, <2>1, SmallestSubset
<1>3. U # {}
  BY SumEmpty
<1>4. Pick(U) \in U
  BY <1>3 DEF Pick
<1>5. SumFunctionOnSet(fun, U \ {Pick(U)}) \in Nat
  BY <1>2, <1>4
<1>6. IsFiniteSet(U)
  BY FS_Subset
<1>7. SumFunctionOnSet(fun, U) = fun[Pick(U)] + SumFunctionOnSet(fun, U \ {Pick(U)})
  BY <1>3, <1>6, SumPick
<1> QED BY <1>4, <1>5, <1>7

(* Any element can be taken out of a sum. *)
LEMMA SumRemove ==
    ASSUME NEW fun, NEW S, IsFiniteSet(S), \A x \in S : fun[x] \in Nat, NEW x \in S
    PROVE  SumFunctionOnSet(fun, S) = fun[x] + SumFunctionOnSet(fun, S \ {x})
<1> DEFINE Sum(U) == SumFunctionOnSet(fun, U)
           T == {U \in SUBSET S : \E y \in U : Sum(U) # fun[y] + Sum(U \ {y})}
<1>1. SUFFICES ASSUME T # {} PROVE FALSE
  OBVIOUS
<1>2. PICK U \in T : \A V \in T : ~(V \subseteq U /\ V # U)
  <2>1. T \subseteq SUBSET S
    OBVIOUS
  <2> HIDE DEF T
  <2> QED BY <1>1, <2>1, SmallestSubset
<1>3. PICK y \in U : Sum(U) # fun[y] + Sum(U \ {y})
  OBVIOUS
<1> DEFINE z == Pick(U)
<1>4. z \in U
  BY DEF Pick
<1>5. \A V \in SUBSET S : IsFiniteSet(V) /\ Sum(V) \in Nat
  BY FS_Subset, SumNat
<1>6. Sum(U) = fun[z] + Sum(U \ {z})
  BY <1>4, <1>5, SumPick
<1>7. y # z
  BY <1>3, <1>6
<1> HIDE DEF z, Sum
<1>8. \A V \in SUBSET U : V # U => \A w \in V : Sum(V) = fun[w] + Sum(V \ {w})
  BY <1>2
<1>9. Sum(U \ {z}) = fun[y] + Sum((U \ {z}) \ {y})
  BY <1>4, <1>7, <1>8
<1>10. Sum(U \ {y}) = fun[z] + Sum((U \ {y}) \ {z})
  BY <1>4, <1>7, <1>8
<1>11. (U \ {z}) \ {y} = (U \ {y}) \ {z}
  OBVIOUS
<1>12. fun[y] \in Nat /\ fun[z] \in Nat /\ Sum((U \ {y}) \ {z}) \in Nat
  BY <1>4, <1>5
<1> QED BY <1>3, <1>6, <1>9, <1>10, <1>11, <1>12

(* ... and any new element added. *)
LEMMA SumAdd ==
    ASSUME NEW fun, NEW S, IsFiniteSet(S), NEW x, x \notin S,
           \A y \in S \cup {x} : fun[y] \in Nat
    PROVE  SumFunctionOnSet(fun, S \cup {x}) = fun[x] + SumFunctionOnSet(fun, S)
<1>1. IsFiniteSet(S \cup {x}) /\ (S \cup {x}) \ {x} = S
  BY FS_AddElement
<1> QED BY <1>1, SumRemove

(* The sum over part of a set is at most the whole sum. *)
LEMMA SumSubset ==
    ASSUME NEW fun, NEW S, IsFiniteSet(S), \A x \in S : fun[x] \in Nat, NEW R \in SUBSET S
    PROVE  SumFunctionOnSet(fun, R) <= SumFunctionOnSet(fun, S)
<1> DEFINE Sum(U) == SumFunctionOnSet(fun, U)
           T == {U \in SUBSET S : R \subseteq U /\ ~(Sum(R) <= Sum(U))}
<1>1. SUFFICES ASSUME T # {} PROVE FALSE
  OBVIOUS
<1>2. PICK U \in T : \A V \in T : ~(V \subseteq U /\ V # U)
  <2>1. T \subseteq SUBSET S
    OBVIOUS
  <2> HIDE DEF T
  <2> QED BY <1>1, <2>1, SmallestSubset
<1>5. \A V \in SUBSET S : IsFiniteSet(V) /\ Sum(V) \in Nat
  BY FS_Subset, SumNat
<1>3. U # R
  BY <1>5
<1>4. PICK x \in U : x \notin R
  BY <1>3
<1>6. Sum(U) = fun[x] + Sum(U \ {x})
  BY <1>5, SumRemove
<1>7. Sum(R) <= Sum(U \ {x})
  BY <1>2, <1>4
<1> QED BY <1>5, <1>6, <1>7

(* A sum depends only on the values it adds. *)
LEMMA SumSame ==
    ASSUME NEW f, NEW g, NEW S, IsFiniteSet(S), \A x \in S : f[x] \in Nat /\ f[x] = g[x]
    PROVE  SumFunctionOnSet(f, S) = SumFunctionOnSet(g, S)
<1> DEFINE T == {U \in SUBSET S : SumFunctionOnSet(f, U) # SumFunctionOnSet(g, U)}
<1>1. SUFFICES ASSUME T # {} PROVE FALSE
  OBVIOUS
<1>2. PICK U \in T : \A V \in T : ~(V \subseteq U /\ V # U)
  <2>1. T \subseteq SUBSET S
    OBVIOUS
  <2> HIDE DEF T
  <2> QED BY <1>1, <2>1, SmallestSubset
<1>3. U # {}
  BY SumEmpty
<1>4. Pick(U) \in U
  BY <1>3 DEF Pick
<1>5. SumFunctionOnSet(f, U \ {Pick(U)}) = SumFunctionOnSet(g, U \ {Pick(U)})
  BY <1>2, <1>4
<1>6. IsFiniteSet(U)
  BY FS_Subset
<1>7. /\ SumFunctionOnSet(f, U) = f[Pick(U)] + SumFunctionOnSet(f, U \ {Pick(U)})
      /\ SumFunctionOnSet(g, U) = g[Pick(U)] + SumFunctionOnSet(g, U \ {Pick(U)})
  BY <1>3, <1>6, SumPick
<1> QED BY <1>4, <1>5, <1>7

-----------------------------------------------------------------------------
(* A set of naturals has a least element. *)
LEMMA LeastNatural ==
    ASSUME NEW T, T \subseteq Nat, T # {}
    PROVE  \E n \in T : \A m \in T : n <= m
<1> DEFINE less == {ss \in Nat \X Nat : ss[1] < ss[2]}
<1>1. IsWellFoundedOn(less, Nat)
  BY NatLessThanWellFounded DEF OpToRel
<1>2. PICK n \in T : \A m \in T : ~(<<m, n>> \in less)
  <2> HIDE DEF less
  <2> QED BY <1>1, WFMin
<1>3. ASSUME NEW m \in T PROVE n <= m
  <2>1. m \in Nat /\ n \in Nat
    OBVIOUS
  <2>2. <<m, n>> \in Nat \X Nat /\ <<m, n>>[1] = m /\ <<m, n>>[2] = n
    BY <2>1
  <2>3. ~(m < n)
    BY <1>2, <2>2
  <2> QED BY <2>1, <2>3
<1> QED BY <1>3

(* f filters the first n elements of s. *)
Keeps(f, s, gone, n) ==
    f = [i \in 0 .. n |-> IF i = 0 THEN <<>>
                          ELSE IF s[i] \in gone THEN f[i - 1] ELSE Append(f[i - 1], s[i])]

(* The recursion that Without computes with is well defined. *)
LEMMA KeepsExists ==
    ASSUME NEW s, NEW gone, NEW n \in Nat
    PROVE  \E f : Keeps(f, s, gone, n)
<1> DEFINE T == {m \in Nat : ~\E f : Keeps(f, s, gone, m)}
<1>1. SUFFICES ASSUME T # {} PROVE FALSE
  OBVIOUS
<1>2. PICK m \in T : \A k \in T : m <= k
  <2>1. T \subseteq Nat
    OBVIOUS
  <2> HIDE DEF T
  <2> QED BY <1>1, <2>1, LeastNatural
<1>3. CASE m = 0
  <2>1. Keeps([i \in 0 .. 0 |-> <<>>], s, gone, 0)
    BY DEF Keeps
  <2> QED BY <1>3, <2>1
<1>4. CASE m # 0
  <2>1. m - 1 \in Nat /\ ~(m <= m - 1)
    BY <1>4
  <2>2. PICK f : Keeps(f, s, gone, m - 1)
    BY <1>2, <2>1
  <2> DEFINE g == [i \in 0 .. m |-> IF i = m
                                    THEN IF s[m] \in gone THEN f[m - 1]
                                         ELSE Append(f[m - 1], s[m])
                                    ELSE f[i]]
  <2>3. ASSUME NEW i \in 0 .. m
        PROVE  g[i] = IF i = 0 THEN <<>>
                      ELSE IF s[i] \in gone THEN g[i - 1] ELSE Append(g[i - 1], s[i])
    <3>1. CASE i = m
      BY <1>4, <2>1, <3>1
    <3>2. CASE i # m
      <4>1. i \in 0 .. m - 1 /\ (i # 0 => i - 1 \in 0 .. m - 1 /\ i - 1 # m)
        BY <2>1, <3>2
      <4>2. f[i] = IF i = 0 THEN <<>>
                   ELSE IF s[i] \in gone THEN f[i - 1] ELSE Append(f[i - 1], s[i])
        BY <2>2, <4>1 DEF Keeps
      <4>3. g[i] = f[i] /\ (i # 0 => g[i - 1] = f[i - 1])
        BY <2>1, <3>2, <4>1
      <4> QED BY <4>2, <4>3
    <3> QED BY <3>1, <3>2
  <2>4. Keeps(g, s, gone, m)
    BY <2>3 DEF Keeps
  <2> QED BY <2>4
<1> QED BY <1>3, <1>4

(* What a filter keeps: exactly the other elements, each as often as before. *)
LEMMA WithoutKeeps ==
    ASSUME NEW S, NEW s \in Seq(S), NEW gone
    PROVE  /\ Without(s, gone) \in Seq(S)
           /\ ToSet(Without(s, gone)) = ToSet(s) \ gone
           /\ IsInjective(s) => IsInjective(Without(s, gone))
<1> DEFINE f == CHOOSE f : Keeps(f, s, gone, Len(s))
<1>1. Without(s, gone) = f[Len(s)]
  BY DEF Without, Keeps
<1>2. Keeps(f, s, gone, Len(s))
  BY KeepsExists
<1> HIDE DEF f
<1> DEFINE Good(n) == /\ f[n] \in Seq(S)
                      /\ \A x : (\E j \in 1 .. Len(f[n]) : f[n][j] = x)
                                 <=> (x \notin gone /\ \E i \in 1 .. n : s[i] = x)
                      /\ IsInjective(s) => \A j, k \in 1 .. Len(f[n]) : f[n][j] = f[n][k] => j = k
           T == {n \in 0 .. Len(s) : ~Good(n)}
<1>3. f[0] = <<>>
  BY <1>2 DEF Keeps
<1>4. Good(0)
  BY <1>3
<1>5. ASSUME NEW n \in 1 .. Len(s), Good(n - 1)
      PROVE  Good(n)
  <2>1. n - 1 \in 0 .. Len(s) /\ n \in 0 .. Len(s) /\ n # 0
    OBVIOUS
  <2>2. f[n] = IF s[n] \in gone THEN f[n - 1] ELSE Append(f[n - 1], s[n])
    BY <1>2, <2>1 DEF Keeps
  <2> DEFINE q == f[n - 1]
  <2>3. /\ q \in Seq(S)
        /\ \A x : (\E j \in 1 .. Len(q) : q[j] = x)
                   <=> (x \notin gone /\ \E i \in 1 .. n - 1 : s[i] = x)
        /\ IsInjective(s) => \A j, k \in 1 .. Len(q) : q[j] = q[k] => j = k
    BY <1>5
  <2>4. s[n] \in S
    OBVIOUS
  <2>5. 1 .. n = (1 .. n - 1) \cup {n}
    BY <2>1
  <2> HIDE DEF q
  <2>6. CASE s[n] \in gone
    <3>1. f[n] = q
      BY <2>2, <2>6 DEF q
    <3>2. \A x : (x \notin gone /\ \E i \in 1 .. n : s[i] = x)
                 <=> (x \notin gone /\ \E i \in 1 .. n - 1 : s[i] = x)
      BY <2>5, <2>6
    <3> QED BY <3>1, <3>2, <2>3
  <2>7. CASE s[n] \notin gone
    <3>1. f[n] = Append(q, s[n])
      BY <2>2, <2>7 DEF q
    <3>2. /\ f[n] \in Seq(S)
          /\ Len(f[n]) = Len(q) + 1
          /\ \A j \in 1 .. Len(q) : f[n][j] = q[j]
          /\ f[n][Len(q) + 1] = s[n]
      BY <2>3, <2>4, <3>1, AppendProperties
    <3>3. 1 .. Len(f[n]) = (1 .. Len(q)) \cup {Len(q) + 1} /\ Len(q) + 1 \notin 1 .. Len(q)
      BY <2>3, <3>2
    <3>4. \A x : (\E j \in 1 .. Len(f[n]) : f[n][j] = x)
                 <=> (x \notin gone /\ \E i \in 1 .. n : s[i] = x)
      <4>1. ASSUME NEW x
            PROVE  (\E j \in 1 .. Len(f[n]) : f[n][j] = x)
                     <=> ((\E j \in 1 .. Len(q) : q[j] = x) \/ x = s[n])
        BY <3>2, <3>3
      <4>2. ASSUME NEW x
            PROVE  (\E i \in 1 .. n : s[i] = x) <=> ((\E i \in 1 .. n - 1 : s[i] = x) \/ x = s[n])
        BY <2>5
      <4> QED BY <2>3, <2>7, <4>1, <4>2
    <3>5. ASSUME IsInjective(s), NEW j \in 1 .. Len(f[n]), NEW k \in 1 .. Len(f[n]),
                 f[n][j] = f[n][k]
          PROVE  j = k
      <4>1. \A i \in 1 .. n - 1 : s[i] # s[n]
        BY <3>5 DEF IsInjective
      <4>2. \A i \in 1 .. Len(q) : q[i] # s[n]
        BY <4>1, <2>3
      <4> QED BY <2>3, <3>2, <3>3, <3>5, <4>2
    <3> QED BY <3>2, <3>4, <3>5
  <2> QED BY <2>6, <2>7
<1>6. Good(Len(s))
  <2>1. SUFFICES ASSUME T # {} PROVE FALSE
    OBVIOUS
  <2>2. PICK n \in T : \A m \in T : n <= m
    <3>1. T \subseteq Nat
      OBVIOUS
    <3> HIDE DEF T
    <3> QED BY <2>1, <3>1, LeastNatural
  <2> HIDE DEF Good
  <2>3. n # 0
    BY <1>4
  <2>4. n - 1 \in 0 .. Len(s) /\ ~(n <= n - 1) /\ n \in 1 .. Len(s)
    BY <2>3
  <2>5. Good(n - 1)
    BY <2>2, <2>4
  <2> QED BY <1>5, <2>4, <2>5
<1>7. DOMAIN f[Len(s)] = 1 .. Len(f[Len(s)]) /\ DOMAIN s = 1 .. Len(s)
  BY <1>6
<1>8. ToSet(f[Len(s)]) = ToSet(s) \ gone
  <2> DEFINE q == f[Len(s)]
  <2>1. /\ ToSet(q) = {q[j] : j \in 1 .. Len(q)}
        /\ ToSet(s) = {s[i] : i \in 1 .. Len(s)}
    BY <1>7 DEF ToSet
  <2>2. \A x : (\E j \in 1 .. Len(q) : q[j] = x)
              <=> (x \notin gone /\ \E i \in 1 .. Len(s) : s[i] = x)
    BY <1>6
  <2> HIDE DEF q
  <2>3. \A x : x \in ToSet(q) <=> x \in ToSet(s) \ gone
    BY <2>1, <2>2, Zenon
  <2> QED BY <2>3, Zenon DEF q
<1> QED BY <1>1, <1>6, <1>7, <1>8 DEF IsInjective

(* The elements of the empty sequence, of an appended one and of a tail. *)
LEMMA EmptySequence ==
    /\ ToSet(<<>>) = {}
    /\ IsInjective(<<>>)
BY DEF ToSet, IsInjective

(* Appending a new element adds it to the elements. *)
LEMMA AppendNew ==
    ASSUME NEW S, NEW s \in Seq(S), IsInjective(s), NEW x \in S, x \notin ToSet(s)
    PROVE  /\ Append(s, x) \in Seq(S)
           /\ IsInjective(Append(s, x))
           /\ ToSet(Append(s, x)) = ToSet(s) \cup {x}
<1> DEFINE t == Append(s, x)
<1>1. /\ t \in Seq(S) /\ Len(t) = Len(s) + 1 /\ DOMAIN t = 1 .. Len(s) + 1
      /\ DOMAIN s = 1 .. Len(s) /\ Len(s) \in Nat
      /\ t[Len(s) + 1] = x /\ \A i \in 1 .. Len(s) : t[i] = s[i]
  BY AppendProperties
<1>2. DOMAIN t = DOMAIN s \cup {Len(s) + 1} /\ Len(s) + 1 \notin DOMAIN s
  BY <1>1
<1> HIDE DEF t
<1>3. \A i \in DOMAIN s : s[i] # x
  BY DEF ToSet
<1>4. IsInjective(t)
  BY <1>1, <1>2, <1>3 DEF IsInjective
<1>5. \A y : y \in ToSet(t) <=> y \in ToSet(s) \cup {x}
  BY <1>1, <1>2 DEF ToSet
<1> QED BY <1>1, <1>4, <1>5 DEF t

(* The tail holds the other elements. *)
LEMMA TailRest ==
    ASSUME NEW S, NEW s \in Seq(S), s # <<>>, IsInjective(s)
    PROVE  /\ Head(s) \in S /\ Head(s) \in ToSet(s)
           /\ Tail(s) \in Seq(S) /\ IsInjective(Tail(s))
           /\ ToSet(Tail(s)) = ToSet(s) \ {Head(s)}
<1> DEFINE t == Tail(s)
<1>1. /\ Head(s) = s[1] /\ Head(s) \in S /\ t \in Seq(S) /\ Len(s) \in Nat \ {0}
      /\ Len(t) = Len(s) - 1 /\ \A i \in 1 .. Len(t) : t[i] = s[i + 1]
  BY HeadTailProperties
<1>2. DOMAIN s = 1 .. Len(s) /\ DOMAIN t = 1 .. Len(s) - 1 /\ 1 \in DOMAIN s
  BY <1>1
<1> HIDE DEF t
<1>3. IsInjective(t)
  <2>1. ASSUME NEW i \in 1 .. Len(s) - 1, NEW j \in 1 .. Len(s) - 1, t[i] = t[j]
        PROVE  i = j
    <3>1. i + 1 \in DOMAIN s /\ j + 1 \in DOMAIN s /\ s[i + 1] = s[j + 1]
      BY <1>1, <1>2, <2>1
    <3>2. i + 1 = j + 1
      BY <3>1 DEF IsInjective
    <3> QED BY <3>2
  <2> QED BY <1>2, <2>1 DEF IsInjective
<1>4. Head(s) \in ToSet(s)
  BY <1>1, <1>2 DEF ToSet
<1>5. ASSUME NEW y \in ToSet(t) PROVE y \in ToSet(s) \ {Head(s)}
  <2>1. PICK i \in 1 .. Len(s) - 1 : y = t[i]
    BY <1>2 DEF ToSet
  <2>2. y = s[i + 1] /\ i + 1 \in DOMAIN s /\ i + 1 # 1
    BY <1>1, <1>2, <2>1
  <2>3. s[i + 1] # s[1]
    BY <1>2, <2>2 DEF IsInjective
  <2> QED BY <1>1, <2>2, <2>3 DEF ToSet
<1>6. ASSUME NEW y \in ToSet(s), y # Head(s) PROVE y \in ToSet(t)
  <2>1. PICK i \in 1 .. Len(s) : y = s[i]
    BY <1>2 DEF ToSet
  <2>2. i # 1
    BY <1>1, <1>6, <2>1
  <2>3. i - 1 \in 1 .. Len(s) - 1 /\ (i - 1) + 1 = i
    BY <1>1, <2>2
  <2>4. y = t[i - 1] /\ i - 1 \in DOMAIN t
    BY <1>1, <1>2, <2>1, <2>3
  <2> QED BY <2>4 DEF ToSet
<1> QED BY <1>1, <1>3, <1>4, <1>5, <1>6 DEF t

(* The cardinality of a set without two different elements. *)
LEMMA AtMostOne ==
    ASSUME NEW S, \A x, y \in S : x = y
    PROVE  IsFiniteSet(S) /\ Cardinality(S) = IF S = {} THEN 0 ELSE 1
<1>1. CASE S = {}
  BY <1>1, FS_EmptySet
<1>2. CASE S # {}
  <2>1. PICK x : x \in S
    BY <1>2
  <2>2. S = {x}
    BY <2>1
  <2> QED BY <1>2, <2>2, FS_Singleton
<1> QED BY <1>1, <1>2

-----------------------------------------------------------------------------
(* A finite set of naturals has a greatest element, which Max chooses. *)
LEMMA FiniteMax ==
    ASSUME NEW S, IsFiniteSet(S), S \subseteq Nat, S # {}
    PROVE  Max(S) \in S /\ \A m \in S : m <= Max(S)
<1> DEFINE T == {U \in SUBSET S : U # {} /\ ~\E x \in U : \A y \in U : x >= y}
<1>1. SUFFICES ASSUME T # {} PROVE FALSE
  <2>1. S \notin T
    OBVIOUS
  <2>2. \E x \in S : \A y \in S : x >= y
    BY <2>1
  <2>3. Max(S) \in S /\ \A y \in S : Max(S) >= y
    BY <2>2 DEF Max
  <2> QED BY <2>3
<1>2. PICK U \in T : \A V \in T : ~(V \subseteq U /\ V # U)
  <2>1. T \subseteq SUBSET S
    OBVIOUS
  <2> HIDE DEF T
  <2>2. T # {}
    BY <1>1
  <2> QED BY ONLY <2>1, <2>2, IsFiniteSet(S), SmallestSubset
<1>3. U \subseteq Nat /\ U # {} /\ ~\E x \in U : \A y \in U : x >= y
  OBVIOUS
<1>4. PICK x \in Nat : x \in U
  BY <1>3
<1>5. U \ {x} \notin T
  BY <1>2, <1>4
<1>6. CASE U \ {x} = {}
  BY <1>3, <1>4, <1>6
<1>7. CASE U \ {x} # {}
  <2>1. PICK m \in U \ {x} : \A y \in U \ {x} : m >= y
    BY <1>5, <1>7
  <2>2. CASE m >= x
    BY <1>3, <1>4, <2>1, <2>2
  <2>3. CASE x >= m
    BY <1>3, <1>4, <2>1, <2>3
  <2> QED BY <1>3, <1>4, <2>1, <2>2, <2>3
<1> QED BY <1>6, <1>7

(* The image of a finite set is finite. *)
LEMMA FiniteImage ==
    ASSUME NEW S, IsFiniteSet(S), NEW g
    PROVE  IsFiniteSet({g[x] : x \in S})
<1> DEFINE T == {g[x] : x \in S}
           f == [x \in S |-> g[x]]
<1>1. f \in Surjection(S, T)
  BY DEF Surjection
<1> QED BY <1>1, FS_Surjection

(* A sum splits into the sums over a part and the rest. *)
LEMMA SumSplit ==
    ASSUME NEW fun, NEW S, IsFiniteSet(S), \A x \in S : fun[x] \in Nat, NEW R \in SUBSET S
    PROVE  SumFunctionOnSet(fun, S)
             = SumFunctionOnSet(fun, R) + SumFunctionOnSet(fun, S \ R)
<1> DEFINE Sum(U) == SumFunctionOnSet(fun, U)
           T == {U \in SUBSET S : Sum(S) # Sum(U) + Sum(S \ U)}
<1>1. SUFFICES ASSUME T # {} PROVE FALSE
  OBVIOUS
<1>2. PICK U \in T : \A V \in T : ~(V \subseteq U /\ V # U)
  <2>1. T \subseteq SUBSET S
    OBVIOUS
  <2> HIDE DEF T
  <2> QED BY <1>1, <2>1, SmallestSubset
<1>3. \A V \in SUBSET S : IsFiniteSet(V) /\ Sum(V) \in Nat
  BY FS_Subset, SumNat
<1>4. CASE U = {}
  <2>1. S \ U = S /\ Sum({}) = 0
    BY <1>4, SumEmpty
  <2> QED BY <1>3, <1>4, <2>1
<1>5. CASE U # {}
  <2>1. PICK x : x \in U
    BY <1>5
  <2> DEFINE V == U \ {x}
  <2>2. V \in SUBSET S /\ V \notin T
    BY <1>2, <2>1
  <2>3. Sum(S) = Sum(V) + Sum(S \ V)
    BY <2>2
  <2>4. Sum(U) = fun[x] + Sum(V)
    <3>1. IsFiniteSet(U) /\ \A y \in U : fun[y] \in Nat
      BY <1>3
    <3> QED BY <2>1, <3>1, SumRemove
  <2>5. Sum(S \ V) = fun[x] + Sum(S \ U)
    <3>1. S \ V = (S \ U) \cup {x} /\ x \notin S \ U /\ IsFiniteSet(S \ U)
      BY <1>3, <2>1
    <3>2. \A y \in (S \ U) \cup {x} : fun[y] \in Nat
      BY <2>1
    <3> QED BY <3>1, <3>2, SumAdd
  <2>6. fun[x] \in Nat /\ Sum(V) \in Nat /\ Sum(S \ U) \in Nat /\ Sum(S) # Sum(U) + Sum(S \ U)
    BY <1>3, <2>1, <2>2
  <2> HIDE DEF V, Sum, T
  <2> QED BY <2>3, <2>4, <2>5, <2>6
<1> QED BY <1>4, <1>5

(* A sum can be reindexed along an injection. *)
LEMMA SumImage ==
    ASSUME NEW f, NEW g, NEW h, NEW S, IsFiniteSet(S),
           \A x \in S : h[x] \in Nat /\ h[x] = f[g[x]],
           \A x, y \in S : g[x] = g[y] => x = y
    PROVE  SumFunctionOnSet(h, S) = SumFunctionOnSet(f, {g[x] : x \in S})
<1> DEFINE Image(U) == {g[x] : x \in U}
           T == {U \in SUBSET S : SumFunctionOnSet(h, U) # SumFunctionOnSet(f, Image(U))}
<1>1. SUFFICES ASSUME T # {} PROVE FALSE
  OBVIOUS
<1>2. PICK U \in T : \A V \in T : ~(V \subseteq U /\ V # U)
  <2>1. T \subseteq SUBSET S
    OBVIOUS
  <2> HIDE DEF T
  <2> QED BY <1>1, <2>1, SmallestSubset
<1>3. CASE U = {}
  <2>1. Image(U) = {}
    BY <1>3
  <2> QED BY <1>3, <2>1, SumEmpty
<1>4. CASE U # {}
  <2>1. PICK x : x \in U
    BY <1>4
  <2> DEFINE V == U \ {x}
  <2>2. V \in SUBSET S /\ V \notin T
    BY <1>2, <2>1
  <2>3. SumFunctionOnSet(h, V) = SumFunctionOnSet(f, Image(V))
    BY <2>2
  <2>4. SumFunctionOnSet(h, U) = h[x] + SumFunctionOnSet(h, V)
    <3>1. IsFiniteSet(U) /\ \A y \in U : h[y] \in Nat
      BY FS_Subset
    <3> QED BY <2>1, <3>1, SumRemove
  <2>5. SumFunctionOnSet(f, Image(U)) = h[x] + SumFunctionOnSet(f, Image(V))
    <3>1. Image(U) = Image(V) \cup {g[x]}
      BY <2>1
    <3>2. g[x] \notin Image(V)
      BY <2>1
    <3>3. IsFiniteSet(Image(V))
      BY <2>2, FS_Subset, FiniteImage
    <3>4. \A y \in Image(V) \cup {g[x]} : f[y] \in Nat
      BY <2>1
    <3>5. h[x] = f[g[x]]
      BY <2>1
    <3> DEFINE A == Image(V)
               y == g[x]
    <3>6. Image(U) = A \cup {y} /\ y \notin A /\ IsFiniteSet(A)
          /\ (\A z \in A \cup {y} : f[z] \in Nat) /\ h[x] = f[y]
      BY <3>1, <3>2, <3>3, <3>4, <3>5
    <3> HIDE DEF A, y
    <3>7. SumFunctionOnSet(f, A \cup {y}) = f[y] + SumFunctionOnSet(f, A)
      BY <3>6, SumAdd
    <3> QED BY <3>6, <3>7 DEF A
  <2> QED BY <2>3, <2>4, <2>5
<1> QED BY <1>3, <1>4

(* An element put in front of a sequence. *)
LEMMA ConsNew ==
    ASSUME NEW S, NEW s \in Seq(S), IsInjective(s), NEW x \in S, x \notin ToSet(s)
    PROVE  /\ <<x>> \o s \in Seq(S)
           /\ IsInjective(<<x>> \o s)
           /\ ToSet(<<x>> \o s) = ToSet(s) \cup {x}
<1> DEFINE t == <<x>> \o s
<1>1. /\ t \in Seq(S) /\ Len(t) = Len(s) + 1 /\ Len(s) \in Nat
      /\ DOMAIN s = 1 .. Len(s) /\ DOMAIN t = 1 .. Len(s) + 1
      /\ t[1] = x /\ \A i \in 1 .. Len(s) + 1 : i # 1 => t[i] = s[i - 1]
  <2>1. <<x>> \in Seq(S) /\ Len(<<x>>) = 1 /\ <<x>>[1] = x
    OBVIOUS
  <2>2. /\ t \in Seq(S) /\ Len(t) = 1 + Len(s)
        /\ \A i \in 1 .. 1 + Len(s) : t[i] = IF i <= 1 THEN <<x>>[i] ELSE s[i - 1]
    BY <2>1, ConcatProperties
  <2> HIDE DEF t
  <2> QED BY <2>1, <2>2
<1> HIDE DEF t
<1>2. \A i \in DOMAIN s : s[i] # x
  BY DEF ToSet
<1>3. ASSUME NEW i \in DOMAIN t, NEW j \in DOMAIN t, t[i] = t[j]
      PROVE  i = j
  <2>0. \A m \in DOMAIN t : m # 1 => t[m] # t[1]
    <3>1. ASSUME NEW m \in DOMAIN t, m # 1 PROVE t[m] # t[1]
      <4>1. m - 1 \in DOMAIN s /\ t[m] = s[m - 1] /\ t[1] = x
        BY <1>1, <3>1
      <4> QED BY <1>2, <4>1
    <3> QED BY <3>1
  <2>1. CASE i = 1 \/ j = 1
    BY <1>3, <2>0, <2>1
  <2>2. CASE i # 1 /\ j # 1
    <3>1. i - 1 \in DOMAIN s /\ j - 1 \in DOMAIN s /\ s[i - 1] = s[j - 1]
      BY <1>1, <1>3, <2>2
    <3>2. i - 1 = j - 1
      BY <3>1 DEF IsInjective
    <3> QED BY <1>1, <3>2
  <2> QED BY <2>1, <2>2
<1>4. ASSUME NEW y \in ToSet(t) PROVE y \in ToSet(s) \cup {x}
  <2>1. PICK i \in DOMAIN t : y = t[i]
    BY DEF ToSet
  <2>2. CASE i = 1
    BY <1>1, <2>1, <2>2
  <2>3. CASE i # 1
    BY <1>1, <2>1, <2>3, SMTT(40) DEF ToSet
  <2> QED BY <2>2, <2>3
<1>5. ASSUME NEW y \in ToSet(s) \cup {x} PROVE y \in ToSet(t)
  <2>1. CASE y = x
    BY <1>1, <2>1 DEF ToSet
  <2>2. CASE y \in ToSet(s)
    <3>1. PICK i \in DOMAIN s : y = s[i]
      BY <2>2 DEF ToSet
    <3>2. i \in Nat /\ i + 1 \in 1 .. Len(s) + 1 /\ i + 1 # 1 /\ (i + 1) - 1 = i
      BY <1>1, <3>1
    <3>3. i + 1 \in DOMAIN t /\ t[i + 1] = s[(i + 1) - 1]
      BY <1>1, <3>2, Zenon
    <3> QED BY <3>1, <3>2, <3>3 DEF ToSet
  <2> QED BY <2>1, <2>2
<1> QED BY <1>1, <1>3, <1>4, <1>5 DEF t, IsInjective

(* A prefix of a sequence without repetitions. *)
LEMMA PrefixRest ==
    ASSUME NEW S, NEW s \in Seq(S), IsInjective(s), NEW n \in 0 .. Len(s)
    PROVE  /\ SubSeq(s, 1, n) \in Seq(S)
           /\ IsInjective(SubSeq(s, 1, n))
           /\ ToSet(SubSeq(s, 1, n)) \subseteq ToSet(s)
           /\ n = 0 => ToSet(SubSeq(s, 1, n)) = {}
<1> DEFINE t == SubSeq(s, 1, n)
<1>1. \A i \in 1 .. n : s[i] \in S
  OBVIOUS
<1>2. /\ t \in Seq(S) /\ Len(t) = n /\ DOMAIN t = 1 .. n /\ DOMAIN s = 1 .. Len(s)
      /\ \A i \in 1 .. n : t[i] = s[i]
  <2>1. n \in Int /\ n >= 0 /\ 1 \in Int /\ n - 1 + 1 = n /\ (1 <= n \/ n = 0)
    OBVIOUS
  <2>2. /\ t \in Seq(S) /\ Len(t) = IF 1 <= n THEN n - 1 + 1 ELSE 0
        /\ \A i \in 1 .. n - 1 + 1 : t[i] = s[1 + i - 1]
    BY <1>1, <2>1, SubSeqProperties
  <2> HIDE DEF t
  <2> QED BY <2>1, <2>2
<1> HIDE DEF t
<1>3. DOMAIN t \subseteq DOMAIN s
  BY <1>2
<1> QED BY <1>2, <1>3 DEF t, IsInjective, ToSet

(* A sequence without repetitions is as long as its set of elements is large. *)
LEMMA InjectiveLength ==
    ASSUME NEW S, NEW s \in Seq(S), IsInjective(s)
    PROVE  IsFiniteSet(ToSet(s)) /\ Cardinality(ToSet(s)) = Len(s)
<1>1. Len(s) \in Nat /\ DOMAIN s = 1 .. Len(s) /\ ToSet(s) = {s[i] : i \in 1 .. Len(s)}
  BY DEF ToSet
<1>2. s \in Bijection(1 .. Len(s), ToSet(s))
  <2>1. s \in [1 .. Len(s) -> ToSet(s)]
    BY <1>1
  <2>2. s \in Injection(1 .. Len(s), ToSet(s))
    BY <1>1, <2>1 DEF Injection, IsInjective
  <2>3. s \in Surjection(1 .. Len(s), ToSet(s))
    BY <1>1, <2>1 DEF Surjection
  <2> QED BY <2>2, <2>3 DEF Bijection
<1>3. IsFiniteSet(1 .. Len(s)) /\ Cardinality(1 .. Len(s)) = Len(s)
  BY <1>1, FS_Interval, SMTT(40)
<1> QED BY <1>2, <1>3, FS_Bijection DEF ExistsBijection

(* Erasing the last of a sequence without repetitions leaves the others in place. *)
LEMMA WithoutLast ==
    ASSUME NEW S, NEW s \in Seq(S), IsInjective(s), s # <<>>
    PROVE  /\ Len(s) \in Nat \ {0} /\ Last(s) \in ToSet(s)
           /\ Len(Without(s, {Last(s)})) = Len(s) - 1
           /\ \A k \in 1 .. Len(s) - 1 : Without(s, {Last(s)})[k] = s[k]
<1> DEFINE L == Len(s)
           gone == {Last(s)}
           f == CHOOSE f : Keeps(f, s, gone, L)
<1>1. Without(s, gone) = f[L]
  BY DEF Without, Keeps
<1>2. L \in Nat \ {0} /\ DOMAIN s = 1 .. L /\ Last(s) = s[L]
  BY EmptySeq DEF Last
<1>3. Keeps(f, s, gone, L)
  BY <1>2, KeepsExists
<1>4. Last(s) \in ToSet(s)
  BY <1>2 DEF ToSet
<1> HIDE DEF f
<1>5. f[0] = <<>>
  BY <1>2, <1>3 DEF Keeps
<1>6. \A n \in 1 .. L - 1 : f[n] = Append(f[n - 1], s[n])
  <2>1. ASSUME NEW n \in 1 .. L - 1 PROVE f[n] = Append(f[n - 1], s[n])
    <3>0. n \in 0 .. L /\ n # 0 /\ n \in 1 .. L /\ L \in 1 .. L /\ n # L
      <4> HIDE DEF L
      <4> QED BY <1>2
    <3>1. n \in 0 .. L /\ n # 0 /\ n \in DOMAIN s /\ L \in DOMAIN s /\ n # L
      <4> HIDE DEF L
      <4> QED BY <1>2, <3>0
    <3>2. s[n] \notin gone
      <4> HIDE DEF L
      <4> QED BY <1>2, <3>1 DEF IsInjective
    <3> QED BY <1>3, <3>1, <3>2 DEF Keeps
  <2> QED BY <2>1
<1>7. f[L] = f[L - 1]
  <2>1. L \in 0 .. L /\ L # 0 /\ s[L] \in gone
    BY <1>2
  <2> QED BY <1>3, <2>1 DEF Keeps
<1> HIDE DEF L
<1> DEFINE Good(n) == /\ f[n] \in Seq(S) /\ Len(f[n]) = n
                      /\ \A k \in 1 .. n : f[n][k] = s[k]
           T == {n \in 0 .. L - 1 : ~Good(n)}
<1>8. Good(0)
  BY <1>5
<1>9. ASSUME NEW n \in 1 .. L - 1, Good(n - 1) PROVE Good(n)
  <2>1. n - 1 \in Nat /\ n \in 1 .. L /\ s[n] \in S
    BY <1>2 DEF L
  <2> DEFINE q == f[n - 1]
  <2>2. q \in Seq(S) /\ Len(q) = n - 1 /\ \A k \in 1 .. n - 1 : q[k] = s[k]
    BY <1>9
  <2>3. f[n] = Append(q, s[n])
    BY <1>6
  <2> HIDE DEF q
  <2>4. /\ Append(q, s[n]) \in Seq(S) /\ Len(Append(q, s[n])) = Len(q) + 1
        /\ \A k \in 1 .. Len(q) : Append(q, s[n])[k] = q[k]
        /\ Append(q, s[n])[Len(q) + 1] = s[n]
    BY <2>1, <2>2, AppendProperties
  <2>5. \A k \in 1 .. n : k \in 1 .. n - 1 \/ k = n
    BY <2>1
  <2> QED BY <2>1, <2>2, <2>3, <2>4, <2>5
<1>10. Good(L - 1)
  <2>1. L - 1 \in 0 .. L - 1
    BY <1>2
  <2>2. SUFFICES ASSUME T # {} PROVE FALSE
    BY <2>1
  <2>3. PICK n \in T : \A m \in T : n <= m
    <3>1. T \subseteq Nat
      OBVIOUS
    <3> HIDE DEF T
    <3> QED BY <2>2, <3>1, LeastNatural
  <2> HIDE DEF Good
  <2>4. n # 0
    BY <1>8
  <2>5. n - 1 \in 0 .. L - 1 /\ ~(n <= n - 1) /\ n \in 1 .. L - 1
    BY <1>2, <2>4
  <2>6. Good(n - 1)
    BY <2>3, <2>5
  <2> QED BY <1>9, <2>5, <2>6
<1> QED BY <1>1, <1>2, <1>4, <1>7, <1>10, Zenon DEF L
=============================================================================
