---------------------------- MODULE SumTheorems ----------------------------
(***************************************************************************)
(* What a total over a table is, for every finite set of keys: zero over   *)
(* nothing, and changed by exactly an entry's value when the entry is      *)
(* added, removed or rewritten.  The induction over the set is an argument *)
(* by a least counterexample (LeastSubset): a partial total that is not    *)
(* additive would have a smallest one.                                     *)
(***************************************************************************)
EXTENDS Sums, FiniteSets, FiniteSetTheorems, WellFoundedInduction, TLAPS

(* g gives every part of S its total: nothing totals zero, and an element  *)
(* contributes its value to every part it is in.                           *)
Additive(g, f, S) ==
    /\ g \in [SUBSET S -> Int]
    /\ g[{}] = 0
    /\ \A s \in SUBSET S : \A x \in s : g[s] = g[s \ {x}] + f[x]

(* Among the subsets of a finite set with some property one is smallest.   *)
LEMMA LeastSubset ==
    ASSUME NEW S, IsFiniteSet(S), NEW T, T \subseteq SUBSET S, T # {}
    PROVE  \E s \in T : \A r \in T : ~(r \subseteq s /\ r # s)
<1>1. IsWellFoundedOn(StrictSubsetOrdering(S), SUBSET S)
    BY FS_StrictSubsetOrderingWellFounded, FS_FiniteSubsetsOfFinite
<1>2. PICK s \in T : \A r \in T : ~(<<r, s>> \in StrictSubsetOrdering(S))
    BY <1>1, WFMin
<1> QED BY <1>2 DEF StrictSubsetOrdering

(* Every table of integers over a finite set has such a g: one for the set *)
(* without an element is extended by adding that element's value.          *)
LEMMA AdditiveExists ==
    ASSUME NEW S, IsFiniteSet(S), NEW f, \A x \in S : f[x] \in Int
    PROVE  \E g \in [SUBSET S -> Int] : Additive(g, f, S)
<1> DEFINE Bad == {s \in SUBSET S : ~ \E g \in [SUBSET s -> Int] : Additive(g, f, s)}
<1> SUFFICES ASSUME Bad # {} PROVE FALSE
    OBVIOUS
<1>1. PICK s \in Bad : \A r \in Bad : ~(r \subseteq s /\ r # s)
    <2> Bad \subseteq SUBSET S
        OBVIOUS
    <2> HIDE DEF Bad
    <2> QED BY LeastSubset
<1>2. s # {}
    <2> SUFFICES ASSUME s = {} PROVE FALSE
        OBVIOUS
    <2> DEFINE z == [t \in SUBSET s |-> 0]
    <2>1. z \in [SUBSET s -> Int] /\ z[{}] = 0
        OBVIOUS
    <2>2. Additive(z, f, s)
        BY <2>1 DEF Additive
    <2> QED BY <2>1, <2>2, <1>1
<1>3. PICK x \in s : TRUE
    BY <1>2
<1>4. PICK g \in [SUBSET (s \ {x}) -> Int] : Additive(g, f, s \ {x})
    <2>1. s \ {x} \notin Bad
        BY <1>1, <1>3
    <2> QED BY <2>1
<1> DEFINE h == [t \in SUBSET s |-> IF x \in t THEN g[t \ {x}] + f[x] ELSE g[t]]
<1>5. h \in [SUBSET s -> Int]
    <2> SUFFICES ASSUME NEW t \in SUBSET s
                 PROVE  (IF x \in t THEN g[t \ {x}] + f[x] ELSE g[t]) \in Int
        OBVIOUS
    <2>1. CASE x \in t
        BY <2>1, <1>3
    <2>2. CASE x \notin t
        BY <2>2
    <2> QED BY <2>1, <2>2
<1>6. h[{}] = 0
    BY <1>4 DEF Additive
<1>7. ASSUME NEW t \in SUBSET s, NEW y \in t
      PROVE  h[t] = h[t \ {y}] + f[y]
    <2>1. f[x] \in Int /\ f[y] \in Int
        OBVIOUS
    <2>2. CASE x \notin t
        <3>1. t \in SUBSET (s \ {x})
            BY <2>2
        <3>2. g[t] = g[t \ {y}] + f[y]
            BY <3>1, <1>4 DEF Additive
        <3> QED BY <2>2, <3>2
    <2>3. CASE x \in t /\ y = x
        BY <2>3
    <2>4. CASE x \in t /\ y # x
        <3>1. t \ {x} \in SUBSET (s \ {x}) /\ y \in t \ {x}
            BY <2>4
        <3>2. g[t \ {x}] = g[(t \ {x}) \ {y}] + f[y]
            BY <3>1, <1>4 DEF Additive
        <3>3. (t \ {x}) \ {y} = (t \ {y}) \ {x}
            OBVIOUS
        <3>4. h[t] = g[t \ {x}] + f[x]
            BY <2>4
        <3>5. h[t \ {y}] = g[(t \ {y}) \ {x}] + f[x]
            BY <2>4
        <3>6. g[(t \ {x}) \ {y}] \in Int
            BY <3>1
        <3> DEFINE a == g[(t \ {x}) \ {y}]  b == f[x]  c == f[y]
        <3>7. h[t] = (a + c) + b /\ h[t \ {y}] = a + b
            BY <3>2, <3>3, <3>4, <3>5
        <3>8. a \in Int /\ b \in Int /\ c \in Int
            BY <3>6, <2>1
        <3>9. (a + c) + b = (a + b) + c
            <4> HIDE DEF a, b, c
            <4> QED BY <3>8
        <3> HIDE DEF h, a, b
        <3> QED BY <3>7, <3>9
    <2> QED BY <2>2, <2>3, <2>4
<1>8. Additive(h, f, s)
    BY <1>5, <1>6, <1>7 DEF Additive
<1> QED BY <1>1, <1>5, <1>8

(* The fold of the community modules, which takes the elements in the      *)
(* order CHOOSE picks them, computes the value of any additive g.          *)
LEMMA SumIsAdditive ==
    ASSUME NEW S, IsFiniteSet(S), NEW f, \A x \in S : f[x] \in Int,
           NEW g, Additive(g, f, S)
    PROVE  SumOver(f, S) = g[S]
<1> DEFINE Pick(s) == CHOOSE x \in s : TRUE
           Folds(k) == k = [s \in SUBSET S |->
                              IF s = {} THEN 0 ELSE f[Pick(s)] + k[s \ {Pick(s)}]]
           h == CHOOSE k : Folds(k)
<1>1. Folds(g)
    <2>1. g = [s \in SUBSET S |-> g[s]]
        BY DEF Additive
    <2>2. ASSUME NEW s \in SUBSET S, s # {}
          PROVE  g[s] = f[Pick(s)] + g[s \ {Pick(s)}]
        <3>1. Pick(s) \in s
            BY <2>2
        <3> HIDE DEF Pick
        <3>2. g[s] = g[s \ {Pick(s)}] + f[Pick(s)]
            BY <3>1 DEF Additive
        <3>3. g[s \ {Pick(s)}] \in Int /\ f[Pick(s)] \in Int
            BY <3>1 DEF Additive
        <3> QED BY <3>2, <3>3
    <2> HIDE DEF Pick
    <2> QED BY <2>1, <2>2 DEF Additive
<1>2. Folds(h)
    <2> HIDE DEF Folds
    <2> QED BY <1>1
<1>3. SumOver(f, S) = h[S]
    BY DEF SumOver, MapThenSumSet, MapThenFoldSet
<1> DEFINE Bad == {s \in SUBSET S : h[s] # g[s]}
<1>4. Bad = {}
    <2> HIDE DEF h
    <2> SUFFICES ASSUME Bad # {} PROVE FALSE
        OBVIOUS
    <2>1. PICK s \in Bad : \A r \in Bad : ~(r \subseteq s /\ r # s)
        <3> Bad \subseteq SUBSET S
            OBVIOUS
        <3> HIDE DEF Bad
        <3> QED BY LeastSubset
    <2>2. s # {}
        BY <1>2 DEF Additive
    <2>3. Pick(s) \in s
        BY <2>2
    <2> HIDE DEF Pick
    <2>4. h[s \ {Pick(s)}] = g[s \ {Pick(s)}]
        BY <2>1, <2>3
    <2>5. h[s] = f[Pick(s)] + h[s \ {Pick(s)}] /\ g[s] = f[Pick(s)] + g[s \ {Pick(s)}]
        BY <1>1, <1>2, <2>2
    <2> QED BY <2>4, <2>5
<1> HIDE DEF h
<1> QED BY <1>3, <1>4

(* An empty total is zero.                                                 *)
THEOREM SumEmpty ==
    ASSUME NEW f
    PROVE  SumOver(f, {}) = 0
<1>1. IsFiniteSet({})
    BY FS_EmptySet
<1>2. PICK g \in [SUBSET {} -> Int] : Additive(g, f, {})
    BY <1>1, AdditiveExists
<1>3. SumOver(f, {}) = g[{}]
    BY <1>1, <1>2, SumIsAdditive
<1> QED BY <1>2, <1>3 DEF Additive

(* A total of integers is an integer.                                      *)
THEOREM SumType ==
    ASSUME NEW S, IsFiniteSet(S), NEW f, \A x \in S : f[x] \in Int
    PROVE  SumOver(f, S) \in Int
<1>1. PICK g \in [SUBSET S -> Int] : Additive(g, f, S)
    BY AdditiveExists
<1>2. SumOver(f, S) = g[S]
    BY <1>1, SumIsAdditive
<1> QED BY <1>2

(* An entry contributes exactly its value.                                 *)
THEOREM SumRemove ==
    ASSUME NEW S, IsFiniteSet(S), NEW f, \A x \in S : f[x] \in Int, NEW x \in S
    PROVE  SumOver(f, S) = SumOver(f, S \ {x}) + f[x]
<1>1. PICK g \in [SUBSET S -> Int] : Additive(g, f, S)
    BY AdditiveExists
<1>2. SumOver(f, S) = g[S]
    BY <1>1, SumIsAdditive
<1> DEFINE R == S \ {x}
           h == [s \in SUBSET R |-> g[s]]
<1>3. IsFiniteSet(R)
    BY FS_Subset
<1>4. Additive(h, f, R)
    <2>1. h \in [SUBSET R -> Int] /\ h[{}] = 0
        BY <1>1 DEF Additive
    <2>2. ASSUME NEW s \in SUBSET R, NEW y \in s
          PROVE  h[s] = h[s \ {y}] + f[y]
        <3>1. s \in SUBSET S /\ s \ {y} \in SUBSET R
            OBVIOUS
        <3>2. g[s] = g[s \ {y}] + f[y]
            BY <3>1, <1>1 DEF Additive
        <3> QED BY <3>1, <3>2
    <2> HIDE DEF h, R
    <2> QED BY <2>1, <2>2 DEF Additive
<1>5. SumOver(f, R) = h[R]
    <2>1. \A y \in R : f[y] \in Int
        OBVIOUS
    <2> HIDE DEF h, R
    <2> QED BY <1>3, <1>4, <2>1, SumIsAdditive
<1>6. g[S] = g[R] + f[x]
    BY <1>1 DEF Additive
<1> QED BY <1>2, <1>5, <1>6

(* A total grows by the value of an entry that is added.                   *)
THEOREM SumAdd ==
    ASSUME NEW S, IsFiniteSet(S), NEW x, x \notin S, NEW f,
           \A y \in S \cup {x} : f[y] \in Int
    PROVE  SumOver(f, S \cup {x}) = SumOver(f, S) + f[x]
<1>1. IsFiniteSet(S \cup {x})
    BY FS_AddElement
<1>2. (S \cup {x}) \ {x} = S
    OBVIOUS
<1>3. SumOver(f, S \cup {x}) = SumOver(f, (S \cup {x}) \ {x}) + f[x]
    BY <1>1, SumRemove
<1> QED BY <1>2, <1>3

(* Two tables that agree on the keys have the same total.                  *)
THEOREM SumEqual ==
    ASSUME NEW S, IsFiniteSet(S), NEW f, NEW g,
           \A x \in S : f[x] \in Int /\ f[x] = g[x]
    PROVE  SumOver(f, S) = SumOver(g, S)
<1>1. PICK a \in [SUBSET S -> Int] : Additive(a, f, S)
    BY AdditiveExists
<1>2. Additive(a, g, S)
    BY <1>1 DEF Additive
<1> QED BY <1>1, <1>2, SumIsAdditive

(* Rewriting one entry changes the total by the difference.                *)
THEOREM SumUpdate ==
    ASSUME NEW S, IsFiniteSet(S), NEW x \in S, NEW f, NEW g,
           \A y \in S : f[y] \in Int /\ g[y] \in Int,
           \A y \in S \ {x} : f[y] = g[y]
    PROVE  SumOver(g, S) = SumOver(f, S) - f[x] + g[x]
<1>1. IsFiniteSet(S \ {x})
    BY FS_Subset
<1>2. SumOver(f, S \ {x}) = SumOver(g, S \ {x})
    BY <1>1, SumEqual
<1>3. SumOver(f, S) = SumOver(f, S \ {x}) + f[x]
    BY SumRemove
<1>4. SumOver(g, S) = SumOver(g, S \ {x}) + g[x]
    BY SumRemove
<1>5. SumOver(f, S \ {x}) \in Int
    BY <1>1, SumType
<1> QED BY <1>2, <1>3, <1>4, <1>5

(* A total of natural numbers is one, and no entry exceeds it.             *)
THEOREM SumNat ==
    ASSUME NEW S, IsFiniteSet(S), NEW f, \A x \in S : f[x] \in Nat
    PROVE  /\ SumOver(f, S) \in Nat
           /\ \A x \in S : f[x] <= SumOver(f, S)
<1>0. \A x \in S : f[x] \in Int
    OBVIOUS
<1>1. PICK g \in [SUBSET S -> Int] : Additive(g, f, S)
    BY <1>0, AdditiveExists
<1>2. SumOver(f, S) = g[S]
    BY <1>0, <1>1, SumIsAdditive
<1> DEFINE Bad == {s \in SUBSET S : g[s] \notin Nat}
<1>3. Bad = {}
    <2> SUFFICES ASSUME Bad # {} PROVE FALSE
        OBVIOUS
    <2>1. PICK s \in Bad : \A r \in Bad : ~(r \subseteq s /\ r # s)
        <3> Bad \subseteq SUBSET S
            OBVIOUS
        <3> HIDE DEF Bad
        <3> QED BY LeastSubset
    <2>2. PICK x \in s : TRUE
        <3>1. {} \notin Bad
            BY <1>1 DEF Additive
        <3>2. s # {}
            BY <3>1
        <3> QED BY <3>2
    <2>3. g[s \ {x}] \in Nat /\ f[x] \in Nat
        BY <2>1, <2>2
    <2>4. g[s] = g[s \ {x}] + f[x]
        BY <1>1, <2>2 DEF Additive
    <2> QED BY <2>3, <2>4
<1>4. ASSUME NEW x \in S PROVE f[x] <= g[S]
    <2>1. g[S] = g[S \ {x}] + f[x] /\ g[S \ {x}] \in Nat
        BY <1>1, <1>3 DEF Additive
    <2> QED BY <2>1
<1> QED BY <1>2, <1>3, <1>4

(* A table of zeros totals zero.                                           *)
THEOREM SumZero ==
    ASSUME NEW S, IsFiniteSet(S), NEW f, \A x \in S : f[x] = 0
    PROVE  SumOver(f, S) = 0
<1> DEFINE z == [s \in SUBSET S |-> 0]
<1>1. z \in [SUBSET S -> Int] /\ z[{}] = 0 /\ z[S] = 0
    OBVIOUS
<1>2. \A s \in SUBSET S : \A x \in s : z[s] = z[s \ {x}] + f[x]
    OBVIOUS
<1>3. \A x \in S : f[x] \in Int
    OBVIOUS
<1> HIDE DEF z
<1>4. Additive(z, f, S)
    BY <1>1, <1>2 DEF Additive
<1> QED
    BY <1>1, <1>3, <1>4, SumIsAdditive

(* A table with one value throughout totals that value for every entry.    *)
THEOREM SumConstant ==
    ASSUME NEW S, IsFiniteSet(S), NEW c \in Int, NEW f, \A x \in S : f[x] = c
    PROVE  SumOver(f, S) = c * Cardinality(S)
<1> DEFINE z == [s \in SUBSET S |-> c * Cardinality(s)]
<1>1. \A s \in SUBSET S : IsFiniteSet(s) /\ Cardinality(s) \in Nat
    BY FS_Subset, FS_CardinalityType
<1>2. z \in [SUBSET S -> Int]
    BY <1>1
<1>3. z[{}] = 0
    BY FS_EmptySet
<1>4. \A s \in SUBSET S : \A x \in s : z[s] = z[s \ {x}] + f[x]
    <2> TAKE s \in SUBSET S
    <2> TAKE x \in s
    <2>1. PICK n \in Int : n = Cardinality(s)
        BY <1>1
    <2>2. Cardinality(s \ {x}) = n - 1
        BY <1>1, <2>1, FS_RemoveElement
    <2>3. c * n = c * (n - 1) + c
        OBVIOUS
    <2>4. z[s] = c * n /\ z[s \ {x}] = c * (n - 1)
        BY <2>1, <2>2
    <2> QED
        BY <2>3, <2>4
<1>5. \A x \in S : f[x] \in Int
    OBVIOUS
<1>6. z[S] = c * Cardinality(S)
    OBVIOUS
<1> HIDE DEF z
<1>7. Additive(z, f, S)
    BY <1>2, <1>3, <1>4 DEF Additive
<1> QED
    BY <1>5, <1>6, <1>7, SumIsAdditive

(* Entries without a value may be left out of a total.                     *)
THEOREM SumSupport ==
    ASSUME NEW S, IsFiniteSet(S), NEW f, \A x \in S : f[x] \in Int,
           NEW T, T \subseteq S, \A x \in S \ T : f[x] = 0
    PROVE  SumOver(f, S) = SumOver(f, T)
<1>1. PICK g \in [SUBSET S -> Int] : Additive(g, f, S)
    BY AdditiveExists
<1> DEFINE h == [s \in SUBSET S |-> g[s \cap T]]
           k == [s \in SUBSET T |-> g[s]]
<1>2. Additive(h, f, S)
    <2>1. h \in [SUBSET S -> Int] /\ h[{}] = 0
        BY <1>1 DEF Additive
    <2>2. ASSUME NEW s \in SUBSET S, NEW x \in s
          PROVE  h[s] = h[s \ {x}] + f[x]
        <3>1. h[s] = g[s \cap T] /\ h[s \ {x}] = g[(s \ {x}) \cap T]
            OBVIOUS
        <3>2. CASE x \in T
            <4>1. (s \ {x}) \cap T = (s \cap T) \ {x}
                OBVIOUS
            <4>2. g[s \cap T] = g[(s \cap T) \ {x}] + f[x]
                BY <1>1, <3>2 DEF Additive
            <4> QED
                BY <3>1, <4>1, <4>2
        <3>3. CASE x \notin T
            <4>1. (s \ {x}) \cap T = s \cap T
                BY <3>3
            <4>2. f[x] = 0 /\ g[s \cap T] \in Int
                BY <1>1, <3>3
            <4>3. h[s] = h[s \ {x}]
                BY <3>1, <4>1
            <4> HIDE DEF h
            <4> QED
                BY <3>1, <4>2, <4>3
        <3> QED
            BY <3>2, <3>3
    <2> HIDE DEF h
    <2> QED
        BY <2>1, <2>2 DEF Additive
<1>3. Additive(k, f, T)
    <2>1. k \in [SUBSET T -> Int] /\ k[{}] = 0
        BY <1>1 DEF Additive
    <2>2. \A s \in SUBSET T : \A x \in s : k[s] = k[s \ {x}] + f[x]
        BY <1>1 DEF Additive
    <2> HIDE DEF k
    <2> QED
        BY <2>1, <2>2 DEF Additive
<1>4. h[S] = g[T] /\ k[T] = g[T]
    <2>1. S \cap T = T
        OBVIOUS
    <2> QED
        BY <2>1
<1>5. IsFiniteSet(T) /\ \A x \in T : f[x] \in Int
    BY FS_Subset
<1> HIDE DEF h, k
<1>6. SumOver(f, S) = h[S]
    BY <1>2, SumIsAdditive
<1>7. SumOver(f, T) = k[T]
    BY <1>3, <1>5, SumIsAdditive
<1> QED
    BY <1>4, <1>6, <1>7

(* A total is the total of the totals of its groups.                       *)
THEOREM SumPartition ==
    ASSUME NEW S, IsFiniteSet(S), NEW D, IsFiniteSet(D), NEW f, \A x \in S : f[x] \in Int,
           NEW key, \A x \in S : key[x] \in D
    PROVE  SumOver(f, S) = SumOver([d \in D |-> SumOver(f, {x \in S : key[x] = d})], D)
<1> DEFINE Group(s, d) == {x \in s : key[x] = d}
           Totals(s) == [d \in D |-> SumOver(f, Group(s, d))]
           Bad == {s \in SUBSET S : SumOver(f, s) # SumOver(Totals(s), D)}
<1>1. Bad = {}
    <2> SUFFICES ASSUME Bad # {} PROVE FALSE
        OBVIOUS
    <2>1. Bad \subseteq SUBSET S
        OBVIOUS
    <2>2. PICK s \in Bad : \A r \in Bad : ~(r \subseteq s /\ r # s)
        <3> HIDE DEF Bad
        <3> QED BY ONLY <2>1, Bad # {}, IsFiniteSet(S), LeastSubset
    <2>3. s \in SUBSET S /\ SumOver(f, s) # SumOver(Totals(s), D)
        OBVIOUS
    <2>4. s # {}
        <3> SUFFICES ASSUME s = {} PROVE FALSE
            OBVIOUS
        <3>1. \A d \in D : Group(s, d) = {}
            OBVIOUS
        <3> HIDE DEF Group
        <3>2. \A d \in D : Totals(s)[d] = 0
            BY <3>1, SumEmpty
        <3> DEFINE t == Totals(s)
        <3>3. \A d \in D : t[d] = 0
            BY <3>2
        <3> HIDE DEF t
        <3>4. SumOver(t, D) = 0
            BY <3>3, SumZero
        <3>5. SumOver(f, s) = 0
            BY SumEmpty
        <3> QED BY <2>3, <3>4, <3>5 DEF t
    <2>5. PICK a \in s : TRUE
        BY <2>4
    <2> DEFINE r == s \ {a}
    <2>6. r \notin Bad
        BY <2>2, <2>5
    <2>7. r \in SUBSET S
        BY <2>3
    <2>8. SumOver(f, r) = SumOver(Totals(r), D)
        BY <2>6, <2>7
    <2>9. SumOver(f, s) = SumOver(f, r) + f[a]
        <3>1. IsFiniteSet(s) /\ \A x \in s : f[x] \in Int
            BY <2>3, FS_Subset
        <3> QED BY <3>1, <2>5, SumRemove
    <2> DEFINE k == key[a]
               new == Totals(s)
               old == Totals(r)
    <2>10. k \in D /\ f[a] \in Int
        BY <2>3, <2>5
    <2>11. \A d \in D : IsFiniteSet(Group(s, d)) /\ IsFiniteSet(Group(r, d))
        BY <2>3, <2>7, FS_Subset
    <2>12. \A d \in D : new[d] \in Int /\ old[d] \in Int
        <3> SUFFICES ASSUME NEW d \in D PROVE new[d] \in Int /\ old[d] \in Int
            OBVIOUS
        <3> DEFINE g == Group(s, d)
                   h == Group(r, d)
        <3>1. (\A x \in g : f[x] \in Int) /\ (\A x \in h : f[x] \in Int)
            BY <2>3, <2>7
        <3>2. IsFiniteSet(g) /\ IsFiniteSet(h)
            BY <2>11
        <3> HIDE DEF g, h
        <3>3. SumOver(f, g) \in Int /\ SumOver(f, h) \in Int
            BY <3>1, <3>2, SumType
        <3> QED BY <3>3 DEF g, h
    <2>13. \A d \in D \ {k} : old[d] = new[d]
        <3>1. \A d \in D \ {k} : Group(r, d) = Group(s, d)
            OBVIOUS
        <3> HIDE DEF Group
        <3> QED BY <3>1
    <2>14. new[k] = old[k] + f[a]
        <3> DEFINE g == Group(s, k)
                   h == Group(r, k)
        <3>1. a \in g /\ h = g \ {a} /\ \A x \in g : f[x] \in Int
            BY <2>3, <2>5
        <3>2. IsFiniteSet(g)
            BY <2>10, <2>11
        <3>3. new[k] = SumOver(f, g) /\ old[k] = SumOver(f, h)
            BY <2>10
        <3> HIDE DEF g, h
        <3>4. SumOver(f, g) = SumOver(f, g \ {a}) + f[a]
            BY <3>1, <3>2, SumRemove
        <3> QED BY <3>1, <3>3, <3>4
    <2>15. SumOver(f, r) = SumOver(old, D)
        BY <2>8
    <2>16. SumOver(f, s) # SumOver(new, D)
        BY <2>3
    <2> HIDE DEF new, old, k
    <2>17. SumOver(new, D) = SumOver(old, D) - old[k] + new[k]
        BY <2>10, <2>12, <2>13, SumUpdate
    <2>18. SumOver(old, D) \in Int /\ old[k] \in Int
        BY <2>10, <2>12, SumType
    <2> HIDE DEF r
    <2> QED BY <2>9, <2>10, <2>14, <2>15, <2>16, <2>17, <2>18
<1>2. S \notin Bad
    BY <1>1
<1> QED BY <1>2

(* A finite set of numbers that is not empty has a largest one.            *)
THEOREM MaxIsOne ==
    ASSUME NEW S, S \subseteq Int, IsFiniteSet(S), S # {}
    PROVE  Max(S) \in S /\ \A y \in S : Max(S) >= y
<1> DEFINE Bad == {s \in SUBSET S : s # {} /\ \A x \in s : \E y \in s : ~(x >= y)}
<1>1. Bad = {}
    <2> SUFFICES ASSUME Bad # {} PROVE FALSE
        OBVIOUS
    <2>1. PICK s \in Bad : \A r \in Bad : ~(r \subseteq s /\ r # s)
        <3>1. Bad \subseteq SUBSET S
            OBVIOUS
        <3> HIDE DEF Bad
        <3> QED BY ONLY <3>1, Bad # {}, IsFiniteSet(S), LeastSubset
    <2>2. PICK a \in s : TRUE
        OBVIOUS
    <2> DEFINE r == s \ {a}
    <2>3. r # {}
        <3> SUFFICES ASSUME r = {} PROVE FALSE
            OBVIOUS
        <3>1. s = {a} /\ a \in Int
            OBVIOUS
        <3> QED BY <3>1
    <2>4. r \notin Bad
        BY <2>1
    <2>5. PICK m \in r : \A y \in r : m >= y
        BY <2>3, <2>4
    <2>6. a \in Int /\ m \in Int /\ \A y \in s : y \in Int /\ (y = a \/ m >= y)
        BY <2>5
    <2>7. CASE m >= a
        BY <2>5, <2>6, <2>7
    <2>8. CASE ~(m >= a)
        <3>1. \A y \in s : a >= y
            BY <2>6, <2>8
        <3> QED BY <3>1
    <2> QED BY <2>7, <2>8
<1>2. \E x \in S : \A y \in S : x >= y
    BY <1>1
<1> QED BY <1>2 DEF Max

-----------------------------------------------------------------------------
(* A set of numbers has a least one.                                       *)
LEMMA LeastNumber ==
    ASSUME NEW T, T \subseteq Nat, T # {}
    PROVE  \E n \in T : \A m \in T : n <= m
<1>1. PICK k \in T : TRUE
    OBVIOUS
<1> DEFINE below == {m \in T : m <= k}
           segs == {0..m : m \in below}
<1>2. k \in Nat /\ IsFiniteSet(0..k)
    BY <1>1, FS_Interval
<1>3. segs \subseteq SUBSET (0..k) /\ segs # {}
    <2>1. k \in below
        BY <1>2
    <2>2. \A m \in below : m \in Nat /\ m <= k
        OBVIOUS
    <2>3. \A m \in below : 0..m \subseteq 0..k
        BY <1>2, <2>2
    <2> QED
        BY <2>1, <2>3
<1>4. PICK s \in segs : \A r \in segs : ~(r \subseteq s /\ r # s)
    <2> DEFINE top == 0..k
    <2>1. IsFiniteSet(top) /\ segs \subseteq SUBSET top /\ segs # {}
        BY <1>2, <1>3
    <2> HIDE DEF segs, top
    <2> QED
        BY ONLY <2>1, LeastSubset
<1>5. PICK n \in below : s = 0..n
    OBVIOUS
<1>6. ASSUME NEW m \in T, ~(n <= m) PROVE FALSE
    <2>1. m \in Nat /\ n \in Nat /\ n <= k /\ m < n /\ m \in below
        BY <1>2, <1>6
    <2>2. 0..m \in segs
        BY <2>1
    <2>3. 0..m \subseteq 0..n /\ n \in 0..n /\ n \notin 0..m
        BY <2>1
    <2> HIDE DEF segs, below
    <2> QED
        BY <1>4, <1>5, <2>2, <2>3
<1> QED
    BY <1>6

(* So has a set of numbers with a bound a greatest one.                    *)
LEMMA GreatestNumber ==
    ASSUME NEW b \in Nat, NEW T, T \subseteq 0..b, T # {}
    PROVE  \E n \in T : \A m \in T : m <= n
<1> DEFINE U == {b - m : m \in T}
<1>0. \A m \in T : m \in 0..b /\ b - m \in Nat
    OBVIOUS
<1>1. U \subseteq Nat /\ U # {}
    <2>1. U \subseteq Nat
        BY <1>0
    <2>2. PICK m \in T : TRUE
        OBVIOUS
    <2>3. b - m \in U
        OBVIOUS
    <2> QED BY <2>1, <2>3
<1>2. PICK u \in U : \A v \in U : u <= v
    <2> HIDE DEF U
    <2> QED BY <1>1, LeastNumber
<1>3. PICK n \in T : u = b - n
    OBVIOUS
<1>4. ASSUME NEW m \in T PROVE m <= n
    <2>1. u <= b - m
        BY <1>2
    <2> QED BY <1>0, <1>3, <2>1
<1> QED BY <1>4
=============================================================================
