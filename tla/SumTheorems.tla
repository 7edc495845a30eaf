---------------------------- MODULE SumTheorems -----------------------------
(***************************************************************************)
(* Sums over finite sets, as SumFunctionOnSet of the community modules     *)
(* adds them: what a sum is, that the order of adding does not matter, and *)
(* what an element more or less changes.  Claims about all finite sets are *)
(* proved by looking at the smallest set that they are wrong for.          *)
(***************************************************************************)
EXTENDS Integers, FiniteSets, Functions, Folds, FiniteSetTheorems, WellFoundedInduction, TLAPS

\* Every set of naturals has a least one.
LEMMA LeastOf ==
    ASSUME NEW T \in SUBSET Nat, T # {}
    PROVE  \E n \in T : \A m \in T : n <= m
  <1> DEFINE R == {ss \in Nat \X Nat : ss[1] < ss[2]}
  <1>1. IsWellFoundedOn(R, Nat)
    BY NatLessThanWellFounded DEF OpToRel
  <1>2. \A n, m \in Nat : <<m, n>> \notin R => n <= m
    OBVIOUS
  <1> HIDE DEF R
  <1>3. \E n \in T : \A m \in T : <<m, n>> \notin R
    BY <1>1, WFMin
  <1> QED
    BY <1>2, <1>3

\* So has every family of finite sets, by their size.
LEMMA LeastSet ==
    ASSUME NEW S, NEW Bad \in SUBSET SUBSET S, \A A \in Bad : IsFiniteSet(A), Bad # {}
    PROVE  \E A \in Bad : \A B \in Bad : Cardinality(A) <= Cardinality(B)
  <1> DEFINE T == {Cardinality(A) : A \in Bad}
  <1>1. \A A \in Bad : Cardinality(A) \in Nat
    BY FS_CardinalityType
  <1>2. T \in SUBSET Nat /\ T # {}
    BY <1>1
  <1> HIDE DEF T
  <1>3. PICK n \in T : \A m \in T : n <= m
    BY <1>2, LeastOf
  <1> QED
    BY <1>3 DEF T

\* A set with one element less is smaller.
LEMMA Shrinks ==
    ASSUME NEW A, IsFiniteSet(A), NEW x \in A
    PROVE  /\ IsFiniteSet(A \ {x}) /\ Cardinality(A \ {x}) < Cardinality(A)
           /\ Cardinality(A \ {x}) \in Nat /\ Cardinality(A) \in Nat
  <1>1. IsFiniteSet(A \ {x}) /\ Cardinality(A \ {x}) = Cardinality(A) - 1
    BY FS_RemoveElement
  <1>2. Cardinality(A) \in Nat /\ Cardinality(A \ {x}) \in Nat
    BY <1>1, FS_CardinalityType
  <1> QED
    BY <1>1, <1>2

First(s) == CHOOSE x \in s : TRUE

\* g gives each subset of A its sum, the way the folds add.
Sums(g, f, A) ==
    g = [s \in SUBSET A |-> IF s = {} THEN 0 ELSE f[First(s)] + g[s \ {First(s)}]]

Total(f, A) == (CHOOSE g : Sums(g, f, A))[A]

\* What is proved of Total is proved of the sums in the models.
LEMMA TotalIsSum ==
    ASSUME NEW f, NEW A
    PROVE  Total(f, A) = SumFunctionOnSet(f, A)
  BY DEF Total, Sums, First, SumFunctionOnSet, FoldFunctionOnSet, MapThenFoldSet

\* Two sums agree where both are defined and add the same.
LEMMA SumsAgree ==
    ASSUME NEW e, NEW f, NEW A, NEW B, IsFiniteSet(A),
           NEW g, NEW h, Sums(g, e, A), Sums(h, f, B),
           NEW s \in SUBSET (A \intersect B), \A x \in s : e[x] = f[x]
    PROVE  g[s] = h[s]
  <1> DEFINE Bad == {t \in SUBSET s : g[t] # h[t]}
  <1>1. \A t \in Bad : IsFiniteSet(t)
    BY FS_Subset
  <1>2. ASSUME Bad # {} PROVE FALSE
    <2>1. Bad \in SUBSET SUBSET s
      OBVIOUS
    <2> HIDE DEF Bad
    <2>2. PICK t \in Bad : \A u \in Bad : Cardinality(t) <= Cardinality(u)
      BY <1>1, <1>2, <2>1, LeastSet
    <2>3. t \in SUBSET s /\ t \in SUBSET (A \intersect B) /\ g[t] # h[t]
      BY DEF Bad
    <2>4. t # {}
      BY <2>3 DEF Sums
    <2> DEFINE x == First(t)  u == t \ {x}
    <2>5. x \in t
      BY <2>4 DEF First
    <2>6. /\ IsFiniteSet(u) /\ Cardinality(u) < Cardinality(t)
          /\ Cardinality(u) \in Nat /\ Cardinality(t) \in Nat
      BY <1>1, <2>5, Shrinks
    <2>7. u \in SUBSET s
      BY <2>3
    <2>8. g[u] = h[u]
      BY <2>2, <2>6, <2>7 DEF Bad
    <2>9. g[t] = e[x] + g[u] /\ h[t] = f[x] + h[u]
      BY <2>3, <2>4 DEF Sums
    <2>10. e[x] = f[x]
      BY <2>3, <2>5
    <2> QED
      BY <2>3, <2>8, <2>9, <2>10
  <1> QED
    BY <1>2

\* Every finite set has its sum.
LEMMA SumsExist ==
    ASSUME NEW f, NEW S, IsFiniteSet(S)
    PROVE  \E g : Sums(g, f, S)
  <1> DEFINE Bad == {A \in SUBSET S : ~ \E g : Sums(g, f, A)}
  <1>1. \A A \in Bad : IsFiniteSet(A)
    BY FS_Subset
  <1>2. ASSUME Bad # {} PROVE FALSE
    <2>1. Bad \in SUBSET SUBSET S
      OBVIOUS
    <2> HIDE DEF Bad
    <2>2. PICK A \in Bad : \A B \in Bad : Cardinality(A) <= Cardinality(B)
      BY <1>1, <1>2, <2>1, LeastSet
    <2> DEFINE H(x) == CHOOSE g : Sums(g, f, A \ {x})
               G == [s \in SUBSET A |->
                       IF s = {} THEN 0 ELSE f[First(s)] + H(First(s))[s \ {First(s)}]]
    <2>3. A \in SUBSET S /\ IsFiniteSet(A)
      BY <1>1 DEF Bad
    <2>4. ASSUME NEW x \in A PROVE Sums(H(x), f, A \ {x})
      <3>1. /\ IsFiniteSet(A \ {x}) /\ Cardinality(A \ {x}) < Cardinality(A)
            /\ Cardinality(A \ {x}) \in Nat /\ Cardinality(A) \in Nat
        BY <2>3, Shrinks
      <3>2. A \ {x} \notin Bad
        BY <2>2, <3>1
      <3>3. \E g : Sums(g, f, A \ {x})
        BY <2>3, <3>2 DEF Bad
      <3> QED
        BY <3>3
    <2>5. ASSUME NEW s \in SUBSET A, s # {}
          PROVE  H(First(s))[s \ {First(s)}] = G[s \ {First(s)}]
      <3> DEFINE x == First(s)  t == s \ {x}  y == First(t)  u == t \ {y}
      <3>1. x \in s /\ x \in A
        BY <2>5 DEF First
      <3>2. t \in SUBSET (A \ {x}) /\ t \in SUBSET A
        BY <3>1
      <3>3. Sums(H(x), f, A \ {x})
        BY <2>4, <3>1
      <3>4. CASE t = {}
        <4>1. H(x)[t] = 0
          BY <3>2, <3>3, <3>4 DEF Sums
        <4>2. G[t] = 0
          BY <3>2, <3>4
        <4> QED
          BY <4>1, <4>2
      <3>5. CASE t # {}
        <4>1. y \in t /\ y \in A
          BY <3>2, <3>5 DEF First
        <4>2. Sums(H(y), f, A \ {y}) /\ IsFiniteSet(A \ {x})
          BY <2>3, <2>4, <3>1, <4>1, Shrinks
        <4>3. u \in SUBSET ((A \ {x}) \intersect (A \ {y}))
          BY <3>2
        <4> HIDE DEF H
        <4>4. H(x)[t] = f[y] + H(x)[u]
          BY <3>2, <3>3, <3>5 DEF Sums
        <4>5. G[t] = f[y] + H(y)[u]
          BY <3>2, <3>5
        <4>6. H(x)[u] = H(y)[u]
          <5> HIDE DEF x, y, u
          <5>1. \A z \in u : f[z] = f[z]
            OBVIOUS
          <5> QED
            BY <3>3, <4>2, <4>3, <5>1, SumsAgree
        <4> QED
          BY <4>4, <4>5, <4>6
      <3> QED
        BY <3>4, <3>5
    <2>6. Sums(G, f, A)
      <3> HIDE DEF H
      <3>1. \A s \in SUBSET A :
              G[s] = IF s = {} THEN 0 ELSE f[First(s)] + G[s \ {First(s)}]
        BY <2>5
      <3>2. G = [s \in SUBSET A |-> G[s]]
        OBVIOUS
      <3> HIDE DEF G
      <3> QED
        BY <3>1, <3>2 DEF Sums
    <2> HIDE DEF G
    <2> QED
      BY <2>2, <2>6 DEF Bad
  <1>3. S \notin Bad
    BY <1>2
  <1> QED
    BY <1>3

\* Only what f gives the elements of the set matters.
LEMMA TotalSame ==
    ASSUME NEW e, NEW f, NEW A, IsFiniteSet(A), \A x \in A : e[x] = f[x]
    PROVE  Total(e, A) = Total(f, A)
  <1> DEFINE G(q) == CHOOSE g : Sums(g, q, A)
  <1>1. Sums(G(e), e, A) /\ Sums(G(f), f, A)
    BY SumsExist
  <1>2. A \in SUBSET (A \intersect A)
    OBVIOUS
  <1> HIDE DEF G
  <1>3. G(e)[A] = G(f)[A]
    BY <1>1, <1>2, SumsAgree
  <1> QED
    BY <1>3 DEF Total, G

\* The sum of a set by the element that is taken out first.
LEMMA TotalStep ==
    ASSUME NEW f, NEW A, IsFiniteSet(A)
    PROVE  Total(f, A) = IF A = {} THEN 0 ELSE f[First(A)] + Total(f, A \ {First(A)})
  <1> DEFINE G(B) == CHOOSE g : Sums(g, f, B)
  <1>1. Sums(G(A), f, A)
    BY SumsExist
  <1>2. CASE A = {}
    <2> HIDE DEF G
    <2>1. G(A)[A] = 0
      BY <1>1, <1>2 DEF Sums
    <2> QED
      BY <1>2, <2>1 DEF Total, G
  <1>3. CASE A # {}
    <2> DEFINE x == First(A)  B == A \ {x}
    <2>1. x \in A
      BY <1>3 DEF First
    <2>2. IsFiniteSet(B)
      BY <2>1, Shrinks
    <2>3. Sums(G(B), f, B)
      BY <2>2, SumsExist
    <2>4. B \in SUBSET (A \intersect B)
      OBVIOUS
    <2> HIDE DEF G
    <2>5. G(A)[A] = f[x] + G(A)[B]
      BY <1>1, <1>3 DEF Sums
    <2>6. G(A)[B] = G(B)[B]
      BY <1>1, <2>3, <2>4, SumsAgree
    <2> QED
      BY <1>3, <2>5, <2>6 DEF Total, G
  <1> QED
    BY <1>2, <1>3

LEMMA TotalOfNone ==
    ASSUME NEW f
    PROVE  Total(f, {}) = 0
  BY TotalStep, FS_EmptySet

\* Naturals add up to a natural.
LEMMA TotalType ==
    ASSUME NEW f, NEW S, IsFiniteSet(S), \A x \in S : f[x] \in Nat
    PROVE  Total(f, S) \in Nat
  <1> DEFINE Bad == {A \in SUBSET S : Total(f, A) \notin Nat}
  <1>1. \A A \in Bad : IsFiniteSet(A)
    BY FS_Subset
  <1>2. ASSUME Bad # {} PROVE FALSE
    <2>1. Bad \in SUBSET SUBSET S
      OBVIOUS
    <2> HIDE DEF Bad
    <2>2. PICK A \in Bad : \A B \in Bad : Cardinality(A) <= Cardinality(B)
      BY <1>1, <1>2, <2>1, LeastSet
    <2>3. A \in SUBSET S /\ IsFiniteSet(A) /\ Total(f, A) \notin Nat
      BY <1>1 DEF Bad
    <2>4. ASSUME A = {} PROVE FALSE
      <3>1. Total(f, A) = 0
        BY <2>3, <2>4, TotalStep
      <3> QED
        BY <2>3, <3>1
    <2> DEFINE x == First(A)  B == A \ {x}
    <2>5. x \in A /\ Total(f, A) = f[x] + Total(f, B)
      BY <2>3, <2>4, TotalStep DEF First
    <2>6. /\ IsFiniteSet(B) /\ Cardinality(B) < Cardinality(A)
          /\ Cardinality(B) \in Nat /\ Cardinality(A) \in Nat
      BY <2>3, <2>5, Shrinks
    <2>7. Total(f, B) \in Nat
      BY <2>2, <2>3, <2>6 DEF Bad
    <2>8. f[x] \in Nat
      BY <2>3, <2>5
    <2> QED
      BY <2>3, <2>5, <2>7, <2>8
  <1> QED
    BY <1>2

\* Whichever element is taken out first.
LEMMA TotalTakes ==
    ASSUME NEW f, NEW S, IsFiniteSet(S), \A x \in S : f[x] \in Nat, NEW r \in S
    PROVE  Total(f, S) = f[r] + Total(f, S \ {r})
  <1> DEFINE Bad == {A \in SUBSET S : \E x \in A : Total(f, A) # f[x] + Total(f, A \ {x})}
  <1>1. \A A \in Bad : IsFiniteSet(A)
    BY FS_Subset
  <1>2. ASSUME Bad # {} PROVE FALSE
    <2>1. Bad \in SUBSET SUBSET S
      OBVIOUS
    <2> HIDE DEF Bad
    <2>2. PICK A \in Bad : \A B \in Bad : Cardinality(A) <= Cardinality(B)
      BY <1>1, <1>2, <2>1, LeastSet
    <2>3. PICK x \in A : Total(f, A) # f[x] + Total(f, A \ {x})
      BY DEF Bad
    <2> DEFINE y == First(A)  C == A \ {x, y}
    <2>4. A \in SUBSET S /\ IsFiniteSet(A) /\ y \in A
      BY <1>1, <2>3 DEF Bad, First
    <2>5. Total(f, A) = f[y] + Total(f, A \ {y})
      BY <2>3, <2>4, TotalStep
    <2>6. x # y
      BY <2>3, <2>5
    <2>7. ASSUME NEW z \in A
          PROVE  /\ IsFiniteSet(A \ {z})
                 /\ \A w \in A \ {z} : Total(f, A \ {z}) = f[w] + Total(f, (A \ {z}) \ {w})
      <3>1. /\ IsFiniteSet(A \ {z}) /\ Cardinality(A \ {z}) < Cardinality(A)
            /\ Cardinality(A \ {z}) \in Nat /\ Cardinality(A) \in Nat
        BY <2>4, Shrinks
      <3>2. A \ {z} \notin Bad
        BY <2>2, <3>1
      <3> QED
        BY <2>4, <3>1, <3>2 DEF Bad
    <2>8. (A \ {x}) \ {y} = C /\ (A \ {y}) \ {x} = C
      OBVIOUS
    <2>9. Total(f, A \ {y}) = f[x] + Total(f, C)
      BY <2>3, <2>4, <2>6, <2>7, <2>8
    <2>10. Total(f, A \ {x}) = f[y] + Total(f, C)
      BY <2>3, <2>4, <2>6, <2>7, <2>8
    <2>11. IsFiniteSet(C) /\ \A z \in C : f[z] \in Nat
      BY <2>4, FS_Subset
    <2>12. f[x] \in Nat /\ f[y] \in Nat /\ Total(f, C) \in Nat
      BY <2>3, <2>4, <2>11, TotalType
    <2> HIDE DEF C, y
    <2> QED
      BY <2>3, <2>5, <2>9, <2>10, <2>12
  <1>3. S \notin Bad
    BY <1>2
  <1> QED
    BY <1>3

\* A set and what is left of a larger one add up to it.
LEMMA TotalSplit ==
    ASSUME NEW f, NEW S, IsFiniteSet(S), \A x \in S : f[x] \in Nat, NEW T \in SUBSET S
    PROVE  Total(f, S) = Total(f, T) + Total(f, S \ T)
  <1> DEFINE Bad == {A \in SUBSET S : Total(f, S) # Total(f, A) + Total(f, S \ A)}
  <1>1. \A A \in Bad : IsFiniteSet(A)
    BY FS_Subset
  <1>2. ASSUME Bad # {} PROVE FALSE
    <2>1. Bad \in SUBSET SUBSET S
      OBVIOUS
    <2> HIDE DEF Bad
    <2>2. PICK A \in Bad : \A B \in Bad : Cardinality(A) <= Cardinality(B)
      BY <1>1, <1>2, <2>1, LeastSet
    <2>3. A \in SUBSET S /\ IsFiniteSet(A) /\ Total(f, S) # Total(f, A) + Total(f, S \ A)
      BY <1>1 DEF Bad
    <2>4. ASSUME A = {} PROVE FALSE
      <3>1. S \ A = S /\ Total(f, A) = 0 /\ Total(f, S) \in Nat
        BY <2>4, TotalOfNone, TotalType
      <3> QED
        BY <2>3, <3>1
    <2>5. PICK x \in A : TRUE
      BY <2>4
    <2> DEFINE B == A \ {x}
    <2>6. /\ IsFiniteSet(B) /\ Cardinality(B) < Cardinality(A)
          /\ Cardinality(B) \in Nat /\ Cardinality(A) \in Nat
      BY <2>3, <2>5, Shrinks
    <2>7. Total(f, S) = Total(f, B) + Total(f, S \ B)
      BY <2>2, <2>3, <2>6 DEF Bad
    <2>8. Total(f, A) = f[x] + Total(f, B)
      BY <2>3, <2>5, TotalTakes
    <2>9. /\ IsFiniteSet(S \ B) /\ x \in S \ B /\ (S \ B) \ {x} = S \ A
          /\ IsFiniteSet(S \ A)
      BY <2>3, <2>5, FS_Subset
    <2>10. Total(f, S \ B) = f[x] + Total(f, S \ A)
      BY <2>9, TotalTakes
    <2>11. f[x] \in Nat /\ Total(f, B) \in Nat /\ Total(f, S \ A) \in Nat
      BY <2>3, <2>5, <2>6, <2>9, TotalType
    <2> HIDE DEF B
    <2> QED
      BY <2>3, <2>7, <2>8, <2>10, <2>11
  <1> QED
    BY <1>2

=============================================================================
