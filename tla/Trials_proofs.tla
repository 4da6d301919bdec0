---------------------------- MODULE Trials_proofs ----------------------------
(***************************************************************************)
(* Proofs about the programs that run trials against an engine or a service, *)
(* each on its own, for every value of its constants: the open-loop           *)
(* generator of InterferenceArm, the resumable mapping run, the closed-loop   *)
(* bench, the ingest harness, the engine matrix and the catalog contention    *)
(* trial.  Before them, the lemmas that they and the proofs of                *)
(* Benches_proofs share: induction over the naturals and over finite sets,     *)
(* the least of a set, and sums.                                             *)
(***************************************************************************)
EXTENDS InterferenceArm, MappingRun, ClosedLoop, IngestHarness, MultiEngine, CatalogContention,
        Integers,
        FiniteSetTheorems, SequenceTheorems, WellFoundedInduction, TLAPS

(* The order of the naturals, as a relation, is well founded.               *)
LEMMA NatWellFounded == IsWellFoundedOn({p \in Nat \X Nat : p[1] < p[2]}, Nat)
BY NatLessThanWellFounded DEF OpToRel

(* A set of naturals that is not empty has a least element.                  *)
LEMMA MinIn ==
  ASSUME NEW S, S \subseteq Nat, S # {}
  PROVE  Min(S) \in S /\ \A x \in S : Min(S) <= x
<1> DEFINE R == {p \in Nat \X Nat : p[1] < p[2]}
<1>1. \E x \in S : \A y \in S : ~(<<y, x>> \in R)
  <2> HIDE DEF R
  <2> QED
    BY NatWellFounded, WFMin DEF R
<1>2. \E x \in S : \A y \in S : x <= y
  <2>1. \A x, y \in S : y < x => <<y, x>> \in R
    OBVIOUS
  <2>2. PICK x \in S : \A y \in S : ~(<<y, x>> \in R)
    BY <1>1
  <2> HIDE DEF R
  <2>3. \A y \in S : ~(y < x)
    BY <2>1, <2>2
  <2>4. \A y \in S : x <= y
    BY <2>3
  <2> QED
    BY <2>4
<1> QED
  BY <1>2 DEF Min

(* Induction over the naturals, on the set of those that have a property.    *)
LEMMA Induction ==
  ASSUME NEW S, 0 \in S, \A n \in Nat : n \in S => n + 1 \in S
  PROVE  Nat \subseteq S
<1> DEFINE T == Nat \ S
           R == {p \in Nat \X Nat : p[1] < p[2]}
<1> SUFFICES ASSUME T # {} PROVE FALSE
  OBVIOUS
<1>1. \E x \in T : \A y \in T : ~(<<y, x>> \in R)
  <2> T \subseteq Nat
    OBVIOUS
  <2> HIDE DEF T, R
  <2> QED
    BY NatWellFounded, WFMin DEF R
<1>2. PICK x \in T : \A y \in T : ~(<<y, x>> \in R)
  BY <1>1
<1>3. x \in Nat \ {0} /\ x - 1 \in Nat
  OBVIOUS
<1>4. x - 1 \in T
  BY <1>3
<1>5. <<x - 1, x>> \in R
  BY <1>3
<1> QED
  BY <1>2, <1>4, <1>5

(* Induction over a finite set that grows by one element at a time.          *)
LEMMA FiniteInduction ==
  ASSUME NEW S, IsFiniteSet(S), NEW Q, {} \in Q,
         \A s \in SUBSET S, x \in S : s \in Q /\ x \notin s => s \cup {x} \in Q
  PROVE  S \in Q
<1> DEFINE N == {n \in Nat : \A s \in SUBSET S : Cardinality(s) = n => s \in Q}
<1>1. \A s \in SUBSET S : IsFiniteSet(s) /\ Cardinality(s) \in Nat
  BY FS_Subset, FS_CardinalityType
<1>2. 0 \in N
  BY <1>1, FS_EmptySet
<1>3. ASSUME NEW n \in Nat, n \in N PROVE n + 1 \in N
  <2> SUFFICES ASSUME NEW s \in SUBSET S, Cardinality(s) = n + 1 PROVE s \in Q
    OBVIOUS
  <2>1. s # {}
    <3>1. n + 1 # 0
      OBVIOUS
    <3> QED
      BY <3>1, FS_EmptySet
  <2>2. PICK x \in s : TRUE
    BY <2>1
  <2> DEFINE t == s \ {x}
  <2>3. Cardinality(t) = n
    <3>1. Cardinality(t) = Cardinality(s) - 1
      BY <1>1, <2>2, FS_RemoveElement
    <3> HIDE DEF t
    <3> QED
      BY <3>1
  <2>4. t \in SUBSET S /\ x \in S /\ x \notin t /\ s = t \cup {x}
    BY <2>2
  <2> HIDE DEF t
  <2>5. t \in Q
    BY <1>3, <2>3, <2>4
  <2> QED
    BY <2>4, <2>5
<1>4. Nat \subseteq N
  <2> HIDE DEF N
  <2> QED
    BY <1>2, <1>3, Induction
<1> QED
  BY <1>1, <1>4

\* F has the sums of f over the subsets of S.
PartialSums(F, f, S) ==
  /\ F \in [SUBSET S -> Nat]
  /\ SumFunction(f) = F[S] /\ F[{}] = 0
  /\ \A s \in SUBSET S, x \in S : x \notin s => F[s \cup {x}] = F[s] + f[x]

(* The sum of a function over a finite set is built from its partial sums.    *)
LEMMA SumGrows ==
  ASSUME NEW S, IsFiniteSet(S), NEW f \in [S -> Nat]
  PROVE  \E F : PartialSums(F, f, S)
<1> DEFINE c(s) == CHOOSE x \in s : TRUE
           Sized(n) == {s \in SUBSET S : Cardinality(s) <= n}
           Solves(F, n) == \A s \in Sized(n) : F[s] = IF s = {} THEN 0 ELSE f[c(s)] + F[s \ {c(s)}]
           N == {n \in Nat : \E F \in [Sized(n) -> Nat] : Solves(F, n)}
<1>1. \A s \in SUBSET S : IsFiniteSet(s) /\ Cardinality(s) \in Nat
  BY FS_Subset, FS_CardinalityType
<1>2. ASSUME NEW s \in SUBSET S, s # {}
      PROVE  /\ c(s) \in s /\ c(s) \in S /\ s \ {c(s)} \in SUBSET S
             /\ Cardinality(s \ {c(s)}) = Cardinality(s) - 1
             /\ Cardinality(s) > 0
  <2>1. c(s) \in s
    BY <1>2
  <2> HIDE DEF c
  <2>2. Cardinality(s) # 0
    BY <1>1, <1>2, FS_EmptySet
  <2>3. Cardinality(s \ {c(s)}) = Cardinality(s) - 1
    BY <1>1, <2>1, FS_RemoveElement
  <2> QED
    BY <1>1, <2>1, <2>2, <2>3
<1> HIDE DEF c
<1>3. 0 \in N
  <2> DEFINE F == [s \in Sized(0) |-> 0]
  <2>1. \A s \in Sized(0) : s = {}
    <3>1. \A s \in Sized(0) : s \in SUBSET S /\ Cardinality(s) = 0
      BY <1>1
    <3> QED
      BY <1>1, <3>1, FS_EmptySet
  <2>2. F \in [Sized(0) -> Nat] /\ Solves(F, 0)
    BY <2>1
  <2> HIDE DEF F, Solves
  <2> QED
    BY <2>2
<1>4. ASSUME NEW n \in Nat, n \in N PROVE n + 1 \in N
  <2>1. PICK F \in [Sized(n) -> Nat] : Solves(F, n)
    BY <1>4
  <2> DEFINE G == [s \in Sized(n + 1) |-> IF s = {} THEN 0 ELSE f[c(s)] + F[s \ {c(s)}]]
  <2>2. \A s \in Sized(n + 1) : s # {} => s \ {c(s)} \in Sized(n) /\ c(s) \in S
    BY <1>1, <1>2
  <2>3. Sized(n) \subseteq Sized(n + 1)
    BY <1>1
  <2>4. G \in [Sized(n + 1) -> Nat]
    <3>1. ASSUME NEW s \in Sized(n + 1) PROVE G[s] \in Nat
      <4>1. CASE s = {}
        BY <4>1
      <4>2. CASE s # {}
        <5>1. f[c(s)] \in Nat /\ F[s \ {c(s)}] \in Nat
          BY <2>1, <2>2, <4>2
        <5>2. G[s] = f[c(s)] + F[s \ {c(s)}]
          BY <4>2
        <5> QED
          BY <5>1, <5>2
      <4> QED
        BY <4>1, <4>2
    <3> HIDE DEF Sized
    <3> QED
      BY <3>1
  <2>5. \A s \in Sized(n) : G[s] = F[s]
    BY <2>1, <2>3
  <2>6. Solves(G, n + 1)
    <3> SUFFICES ASSUME NEW s \in Sized(n + 1)
                 PROVE  G[s] = IF s = {} THEN 0 ELSE f[c(s)] + G[s \ {c(s)}]
      OBVIOUS
    <3>1. G[s] = IF s = {} THEN 0 ELSE f[c(s)] + F[s \ {c(s)}]
      OBVIOUS
    <3> HIDE DEF G, Sized
    <3> QED
      BY <2>2, <2>5, <3>1
  <2> HIDE DEF G, Solves, Sized
  <2> QED
    BY <2>4, <2>6
<1>5. PICK F \in [SUBSET S -> Nat] :
        \A s \in SUBSET S : F[s] = IF s = {} THEN 0 ELSE f[c(s)] + F[s \ {c(s)}]
  <2>1. Cardinality(S) \in Nat /\ Sized(Cardinality(S)) = SUBSET S
    BY <1>1, FS_Subset
  <2>2. Nat \subseteq N
    <3> HIDE DEF N
    <3> QED
      BY <1>3, <1>4, Induction
  <2> HIDE DEF Sized
  <2> QED
    BY <2>1, <2>2
<1>6. F = [s \in SUBSET S |-> IF s = {} THEN 0 ELSE f[c(s)] + F[s \ {c(s)}]]
  BY <1>5
<1>7. PICK I : /\ SumFunction(f) = I[S]
               /\ I = [s \in SUBSET S |-> IF s = {} THEN 0 ELSE f[c(s)] + I[s \ {c(s)}]]
  <2> DEFINE J == CHOOSE g : g = [s \in SUBSET S |-> IF s = {} THEN 0
                                    ELSE LET x == CHOOSE x \in s : TRUE IN f[x] + g[s \ {x}]]
  <2>1. SumFunction(f) = J[S]
    BY DEF SumFunction, SumFunctionOnSet, FoldFunctionOnSet, MapThenFoldSet
  <2>2. \E g : g = [s \in SUBSET S |-> IF s = {} THEN 0
                      ELSE LET x == CHOOSE x \in s : TRUE IN f[x] + g[s \ {x}]]
    BY <1>6 DEF c
  <2>3. J = [s \in SUBSET S |-> IF s = {} THEN 0 ELSE f[c(s)] + J[s \ {c(s)}]]
    BY <2>2 DEF c
  <2> QED
    BY <2>1, <2>3
<1>8. I[{}] = 0 /\ \A s \in SUBSET S : s # {} => I[s] = f[c(s)] + I[s \ {c(s)}]
  <2>1. \A s \in SUBSET S : I[s] = IF s = {} THEN 0 ELSE f[c(s)] + I[s \ {c(s)}]
    BY <1>7
  <2> QED
    BY <2>1
<1> DEFINE M == {n \in Nat : \A s \in SUBSET S : Cardinality(s) <= n =>
                   I[s] \in Nat /\ \A x \in s : I[s] = f[x] + I[s \ {x}]}
<1>9. 0 \in M
  <2>1. \A s \in SUBSET S : Cardinality(s) <= 0 => s = {}
    <3>1. \A s \in SUBSET S : Cardinality(s) <= 0 => Cardinality(s) = 0
      BY <1>1
    <3> QED
      BY <1>1, <3>1, FS_EmptySet
  <2> QED
    BY <1>8, <2>1
<1>10. ASSUME NEW n \in Nat, n \in M PROVE n + 1 \in M
  <2> SUFFICES ASSUME NEW s \in SUBSET S, Cardinality(s) <= n + 1
               PROVE  I[s] \in Nat /\ \A x \in s : I[s] = f[x] + I[s \ {x}]
    OBVIOUS
  <2>1. \A t \in SUBSET S : Cardinality(t) <= n =>
          I[t] \in Nat /\ \A x \in t : I[t] = f[x] + I[t \ {x}]
    BY <1>10
  <2>2. CASE s = {}
    BY <1>8, <2>2
  <2>3. CASE s # {}
    <3> DEFINE a == c(s)
    <3>1. a \in s /\ a \in S /\ I[s] = f[a] + I[s \ {a}] /\ f[a] \in Nat
      BY <1>2, <1>8, <2>3
    <3> HIDE DEF a
    <3>2. \A x \in s : s \ {x} \in SUBSET S /\ Cardinality(s \ {x}) <= n
      <4> TAKE x \in s
      <4>1. Cardinality(s \ {x}) = Cardinality(s) - 1
        BY <1>1, FS_RemoveElement
      <4> QED
        BY <1>1, <4>1
    <3>3. \A x \in s : I[s \ {x}] \in Nat
      BY <2>1, <3>2
    <3>4. ASSUME NEW x \in s PROVE I[s] = f[x] + I[s \ {x}]
      <4>1. CASE x = a
        BY <3>1, <4>1
      <4>2. CASE x # a
        <5>1. I[s \ {a}] = f[x] + I[(s \ {a}) \ {x}]
          BY <2>1, <3>1, <3>2, <4>2
        <5>2. I[s \ {x}] = f[a] + I[(s \ {x}) \ {a}]
          BY <2>1, <3>1, <3>2, <4>2
        <5>3. (s \ {a}) \ {x} = (s \ {x}) \ {a}
          OBVIOUS
        <5>4. I[(s \ {x}) \ {a}] \in Nat
          <6>1. (s \ {x}) \ {a} \in SUBSET S /\ Cardinality((s \ {x}) \ {a}) <= n
            <7>1. Cardinality((s \ {x}) \ {a}) <= Cardinality(s \ {x})
              BY <1>1, <3>2, FS_Subset
            <7>2. (s \ {x}) \ {a} \in SUBSET S
              OBVIOUS
            <7> QED
              BY <1>1, <3>2, <7>1, <7>2
          <6> QED
            BY <2>1, <6>1
        <5>5. f[x] \in Nat
          OBVIOUS
        <5> DEFINE r == I[(s \ {x}) \ {a}]
        <5>6. r \in Nat /\ I[s \ {a}] = f[x] + r /\ I[s \ {x}] = f[a] + r
          BY <5>1, <5>2, <5>3, <5>4
        <5> HIDE DEF r
        <5>7. I[s] = f[a] + (f[x] + r)
          BY <3>1, <5>6
        <5>8. f[a] + (f[x] + r) = f[x] + (f[a] + r)
          BY <3>1, <5>5, <5>6
        <5> QED
          BY <5>6, <5>7, <5>8, Zenon
      <4> QED
        BY <4>1, <4>2
    <3>5. I[s] \in Nat
      BY <3>1, <3>3
    <3> QED
      BY <3>4, <3>5
  <2> QED
    BY <2>2, <2>3
<1>11. \A s \in SUBSET S : I[s] \in Nat /\ \A x \in s : I[s] = f[x] + I[s \ {x}]
  <2>1. Nat \subseteq M
    <3> HIDE DEF M
    <3> QED
      BY <1>9, <1>10, Induction
  <2> QED
    BY <1>1, <2>1
<1>12. I \in [SUBSET S -> Nat]
  BY <1>7, <1>11
<1>13. ASSUME NEW s \in SUBSET S, NEW x \in S, x \notin s
       PROVE  I[s \cup {x}] = I[s] + f[x]
  <2>1. s \cup {x} \in SUBSET S /\ x \in s \cup {x} /\ (s \cup {x}) \ {x} = s
    BY <1>13
  <2>2. I[s \cup {x}] = f[x] + I[s]
    BY <1>11, <2>1
  <2> QED
    BY <1>11, <2>2
<1> QED
  BY <1>7, <1>8, <1>12, <1>13 DEF PartialSums

(* Sized two functions, one nowhere above the other has the smaller sum.         *)
LEMMA SumMono ==
  ASSUME NEW S, IsFiniteSet(S), NEW f \in [S -> Nat], NEW g \in [S -> Nat],
         \A x \in S : f[x] <= g[x]
  PROVE  SumFunction(f) <= SumFunction(g)
<1>1. PICK F : PartialSums(F, f, S)
  BY SumGrows
<1>2. PICK G : PartialSums(G, g, S)
  BY SumGrows
<1> DEFINE Q == {s \in SUBSET S : F[s] <= G[s]}
<1>3. {} \in Q
  BY <1>1, <1>2 DEF PartialSums
<1>4. \A s \in SUBSET S, x \in S : s \in Q /\ x \notin s => s \cup {x} \in Q
  <2> SUFFICES ASSUME NEW s \in SUBSET S, NEW x \in S, F[s] <= G[s], x \notin s
               PROVE  F[s \cup {x}] <= G[s \cup {x}]
    OBVIOUS
  <2>1. F[s \cup {x}] = F[s] + f[x] /\ G[s \cup {x}] = G[s] + g[x]
    BY <1>1, <1>2 DEF PartialSums
  <2>2. F[s] \in Nat /\ G[s] \in Nat /\ f[x] \in Nat /\ g[x] \in Nat /\ f[x] <= g[x]
    BY <1>1, <1>2 DEF PartialSums
  <2> QED
    BY <2>1, <2>2
<1>5. S \in Q
  <2> HIDE DEF Q
  <2> QED
    BY <1>3, <1>4, FiniteInduction
<1> QED
  BY <1>1, <1>2, <1>5 DEF PartialSums

(* The sum of a function that is changed at one place.                        *)
LEMMA SumUpdate ==
  ASSUME NEW S, IsFiniteSet(S), NEW f \in [S -> Nat], NEW g \in [S -> Nat], NEW y \in S,
         \A x \in S \ {y} : f[x] = g[x]
  PROVE  /\ SumFunction(f) \in Nat /\ SumFunction(g) \in Nat
         /\ SumFunction(f) + g[y] = SumFunction(g) + f[y]
<1>1. PICK F : PartialSums(F, f, S)
  BY SumGrows
<1>2. PICK G : PartialSums(G, g, S)
  BY SumGrows
<1> DEFINE R == S \ {y}
           Q == {s \in SUBSET R : F[s] = G[s]}
<1>3. {} \in Q
  BY <1>1, <1>2 DEF PartialSums
<1>4. \A s \in SUBSET R, x \in R : s \in Q /\ x \notin s => s \cup {x} \in Q
  <2> SUFFICES ASSUME NEW s \in SUBSET R, NEW x \in R, F[s] = G[s], x \notin s
               PROVE  F[s \cup {x}] = G[s \cup {x}]
    OBVIOUS
  <2>1. F[s \cup {x}] = F[s] + f[x] /\ G[s \cup {x}] = G[s] + g[x]
    BY <1>1, <1>2 DEF PartialSums
  <2> QED
    BY <2>1
<1>5. IsFiniteSet(R)
  BY FS_Subset
<1>6. R \in Q
  <2> HIDE DEF Q, R
  <2> QED
    BY <1>3, <1>4, <1>5, FiniteInduction
<1>7. R \in SUBSET S /\ y \notin R /\ R \cup {y} = S
  OBVIOUS
<1> HIDE DEF R
<1>8. F[S] = F[R] + f[y] /\ G[S] = G[R] + g[y] /\ F[R] = G[R]
  BY <1>1, <1>2, <1>6, <1>7 DEF PartialSums
<1>9. F[R] \in Nat /\ f[y] \in Nat /\ g[y] \in Nat
  BY <1>1, <1>7 DEF PartialSums
<1> QED
  BY <1>1, <1>2, <1>8, <1>9 DEF PartialSums

(* The sum of a constant function; that of zeroes is 0.                       *)
LEMMA SumConstant ==
  ASSUME NEW S, IsFiniteSet(S), NEW c \in Nat
  PROVE  SumFunction([x \in S |-> c]) = Cardinality(S) * c
<1> DEFINE f == [x \in S |-> c]
<1>1. f \in [S -> Nat] /\ \A x \in S : f[x] = c
  OBVIOUS
<1> HIDE DEF f
<1>2. PICK F : PartialSums(F, f, S)
  BY <1>1, SumGrows
<1> DEFINE Q == {s \in SUBSET S : F[s] = Cardinality(s) * c}
<1>3. {} \in Q
  BY <1>2, FS_EmptySet DEF PartialSums
<1>4. \A s \in SUBSET S, x \in S : s \in Q /\ x \notin s => s \cup {x} \in Q
  <2> SUFFICES ASSUME NEW s \in SUBSET S, NEW x \in S, F[s] = Cardinality(s) * c, x \notin s
               PROVE  F[s \cup {x}] = Cardinality(s \cup {x}) * c
    OBVIOUS
  <2>1. F[s \cup {x}] = F[s] + c
    BY <1>1, <1>2 DEF PartialSums
  <2>2. Cardinality(s) \in Nat /\ Cardinality(s \cup {x}) = Cardinality(s) + 1
    BY FS_Subset, FS_CardinalityType, FS_AddElement
  <2> DEFINE n == Cardinality(s)
  <2> HIDE DEF n
  <2>3. (n + 1) * c = n * c + c
    <3>1. n \in Nat
      BY <2>2 DEF n
    <3> QED
      BY <3>1
  <2> QED
    BY <2>1, <2>2, <2>3 DEF n
<1>5. S \in Q
  <2> HIDE DEF Q
  <2> QED
    BY <1>3, <1>4, FiniteInduction
<1> QED
  BY <1>2, <1>5 DEF f, PartialSums

(* The sum of a sum.                                                          *)
LEMMA SumPlus ==
  ASSUME NEW S, IsFiniteSet(S), NEW f \in [S -> Nat], NEW g \in [S -> Nat]
  PROVE  SumFunction([x \in S |-> f[x] + g[x]]) = SumFunction(f) + SumFunction(g)
<1> DEFINE h == [x \in S |-> f[x] + g[x]]
<1>1. h \in [S -> Nat] /\ \A x \in S : h[x] = f[x] + g[x]
  OBVIOUS
<1> HIDE DEF h
<1>2. PICK F : PartialSums(F, f, S)
  BY SumGrows
<1>3. PICK G : PartialSums(G, g, S)
  BY SumGrows
<1>4. PICK H : PartialSums(H, h, S)
  BY <1>1, SumGrows
<1> DEFINE Q == {s \in SUBSET S : H[s] = F[s] + G[s]}
<1>5. {} \in Q
  BY <1>2, <1>3, <1>4 DEF PartialSums
<1>6. \A s \in SUBSET S, x \in S : s \in Q /\ x \notin s => s \cup {x} \in Q
  <2> SUFFICES ASSUME NEW s \in SUBSET S, NEW x \in S, H[s] = F[s] + G[s], x \notin s
               PROVE  H[s \cup {x}] = F[s \cup {x}] + G[s \cup {x}]
    OBVIOUS
  <2>1. /\ F[s \cup {x}] = F[s] + f[x] /\ G[s \cup {x}] = G[s] + g[x]
        /\ H[s \cup {x}] = H[s] + h[x] /\ h[x] = f[x] + g[x]
    BY <1>1, <1>2, <1>3, <1>4 DEF PartialSums
  <2>2. F[s] \in Nat /\ G[s] \in Nat /\ f[x] \in Nat /\ g[x] \in Nat
    BY <1>2, <1>3 DEF PartialSums
  <2> QED
    BY <2>1, <2>2
<1>7. S \in Q
  <2> HIDE DEF Q
  <2> QED
    BY <1>5, <1>6, FiniteInduction
<1> QED
  BY <1>2, <1>3, <1>4, <1>7 DEF h, PartialSums

(* Sums are natural numbers; one place where a function is above another,     *)
(* and nowhere below, makes its sum larger.                                   *)
LEMMA SumType ==
  ASSUME NEW S, IsFiniteSet(S), NEW f \in [S -> Nat]
  PROVE  SumFunction(f) \in Nat
<1>1. PICK F : PartialSums(F, f, S)
  BY SumGrows
<1> QED
  BY <1>1 DEF PartialSums

(* A sum is strictly less than another whose terms are nowhere less and      *)
(* somewhere greater.                                                        *)
LEMMA SumStrict ==
  ASSUME NEW S, IsFiniteSet(S), NEW f \in [S -> Nat], NEW g \in [S -> Nat],
         \A x \in S : f[x] <= g[x], NEW y \in S, f[y] < g[y]
  PROVE  SumFunction(f) < SumFunction(g)
<1> DEFINE h == [f EXCEPT ![y] = g[y]]
<1>1. h \in [S -> Nat] /\ h[y] = g[y] /\ \A x \in S \ {y} : h[x] = f[x]
  OBVIOUS
<1> HIDE DEF h
<1>2. \A x \in S : h[x] <= g[x]
  <2> TAKE x \in S
  <2>1. g[x] \in Nat /\ h[x] \in Nat
    BY <1>1
  <2> QED
    BY <1>1, <2>1
<1>3. SumFunction(h) <= SumFunction(g)
  BY <1>1, <1>2, SumMono
<1>4. /\ SumFunction(f) \in Nat /\ SumFunction(h) \in Nat
      /\ SumFunction(f) + h[y] = SumFunction(h) + f[y]
  BY <1>1, SumUpdate
<1>5. SumFunction(g) \in Nat /\ f[y] \in Nat /\ g[y] \in Nat
  BY SumType
<1> QED
  BY <1>1, <1>3, <1>4, <1>5

(* The places where a function is not 0 are at most its sum.                  *)
LEMMA SumCounts ==
  ASSUME NEW S, IsFiniteSet(S), NEW f \in [S -> Nat]
  PROVE  Cardinality({x \in S : f[x] > 0}) <= SumFunction(f)
<1> DEFINE Positive(s) == {x \in s : f[x] > 0}
<1>1. PICK F : PartialSums(F, f, S)
  BY SumGrows
<1> DEFINE Q == {s \in SUBSET S : Cardinality(Positive(s)) <= F[s]}
<1>2. {} \in Q
  <2>1. Positive({}) = {}
    OBVIOUS
  <2> QED
    BY <1>1, <2>1, FS_EmptySet DEF PartialSums
<1>3. \A s \in SUBSET S, x \in S : s \in Q /\ x \notin s => s \cup {x} \in Q
  <2> SUFFICES ASSUME NEW s \in SUBSET S, NEW x \in S, Cardinality(Positive(s)) <= F[s], x \notin s
               PROVE  Cardinality(Positive(s \cup {x})) <= F[s \cup {x}]
    OBVIOUS
  <2>1. F[s \cup {x}] = F[s] + f[x] /\ F[s] \in Nat /\ f[x] \in Nat
    BY <1>1 DEF PartialSums
  <2>2. Positive(s) \in SUBSET S /\ x \notin Positive(s)
    OBVIOUS
  <2>3. Positive(s \cup {x}) = IF f[x] > 0 THEN Positive(s) \cup {x} ELSE Positive(s)
    OBVIOUS
  <2> DEFINE A == Positive(s)
  <2> HIDE DEF A
  <2>4. IsFiniteSet(A) /\ Cardinality(A) \in Nat
    BY <2>2, FS_Subset, FS_CardinalityType DEF A
  <2>5. Cardinality(A \cup {x}) = Cardinality(A) + 1
    BY <2>2, <2>4, FS_AddElement DEF A
  <2>6. Positive(s \cup {x}) = IF f[x] > 0 THEN A \cup {x} ELSE A
    BY <2>3 DEF A
  <2>7. Cardinality(A) <= F[s]
    BY DEF A
  <2> HIDE DEF Positive
  <2>8. CASE f[x] > 0
    BY <2>1, <2>4, <2>5, <2>6, <2>7, <2>8
  <2>9. CASE f[x] = 0
    BY <2>1, <2>4, <2>6, <2>7, <2>9
  <2> QED
    BY <2>1, <2>8, <2>9
<1>4. S \in Q
  <2> HIDE DEF Q
  <2> QED
    BY <1>2, <1>3, FiniteInduction
<1> QED
  BY <1>1, <1>4 DEF PartialSums
-----------------------------------------------------------------------------

\* What the counters of one generator say of each other.
LoadInv ==
  /\ LoadType
  /\ leaving <= outstanding
  /\ outstanding <= peak_outstanding
  /\ backlog > 0 => peak_outstanding = OUTSTANDING_CAP
  /\ \A i \in 1..Len(backlog_trace) : backlog_trace[i] <= backlog
  /\ Accounting

\* The sum of the failures is a number no smaller than any of them.
LEMMA DnfTotal ==
  ASSUME NEW d \in [Reasons -> 0..MaxFires]
  PROVE  TotalDnf(d) \in Nat /\ \A r \in Reasons : d[r] <= TotalDnf(d)
<1>1. \A r \in Reasons : d[r] \in Nat
  BY LoadAssumption
<1> QED
  BY <1>1 DEF TotalDnf, Reasons

\* One more failure of any reason adds one to the sum.
LEMMA DnfBump ==
  ASSUME NEW d \in [Reasons -> Nat], NEW r \in Reasons
  PROVE  TotalDnf([d EXCEPT ![r] = d[r] + 1]) = TotalDnf(d) + 1
<1> DEFINE e == [d EXCEPT ![r] = d[r] + 1]
           bump(q) == IF q = r THEN 1 ELSE 0
<1>1. \A q \in Reasons : d[q] \in Nat /\ e[q] = d[q] + bump(q) /\ bump(q) \in Nat
  OBVIOUS
<1>2. bump("timeout") + bump("resource") + bump("dialect") + bump("server")
        + bump("error") = 1
  BY DEF Reasons
<1> HIDE DEF e, bump
<1>3. TotalDnf(e) = TotalDnf(d) + 1
  BY <1>1, <1>2 DEF TotalDnf, Reasons
<1> QED BY <1>3 DEF e

(* The first generator, and each new one, satisfies LoadInv.                *)
LEMMA NewLoadInv ==
  /\ LoadInit => LoadInv
  /\ NewLoad => LoadInv'
<1> USE LoadAssumption DEF LoadInv, LoadType, Accounting, Working
<1>1. NoFailures \in [Reasons -> 0..MaxFires] /\ TotalDnf(NoFailures) = 0
  BY DEF NoFailures, TotalDnf, Reasons
<1>2. <<>> \in Seq(0..MaxFires) /\ Len(<<>>) = 0 /\ 1..0 = {}
  OBVIOUS
<1> HIDE DEF LoadInv, Accounting, Working
<1>3. LoadInit => LoadInv
  <2> SUFFICES ASSUME LoadInit PROVE LoadInv
    OBVIOUS
  <2>1. LoadType
    <3>1. Len(backlog_trace) <= MaxSamples /\ backlog_trace \in Seq(0..MaxFires)
      BY <1>2 DEF LoadInit
    <3>2. due \in BOOLEAN /\ hard_break \in BOOLEAN
      BY Zenon DEF LoadInit
    <3> QED
      BY <1>1, <3>1, <3>2 DEF LoadInit
  <2>2. Accounting
    BY <1>1 DEF LoadInit, Accounting, Working
  <2> QED
    BY <1>2, <2>1, <2>2 DEF LoadInit, LoadInv
<1>4. NewLoad => LoadInv'
  <2> SUFFICES ASSUME NewLoad PROVE LoadInv'
    OBVIOUS
  <2>1. LoadType'
    <3>1. Len(backlog_trace') <= MaxSamples /\ backlog_trace' \in Seq(0..MaxFires)
      BY <1>2 DEF NewLoad
    <3>2. due' \in BOOLEAN /\ hard_break' \in BOOLEAN
      BY Zenon DEF NewLoad
    <3> QED
      BY <1>1, <3>1, <3>2 DEF NewLoad
  <2>2. Accounting'
    BY <1>1 DEF NewLoad, Accounting, Working
  <2> QED
    BY <1>2, <2>1, <2>2 DEF NewLoad, LoadInv
<1> QED
  BY <1>3, <1>4

(* run_for: taking a fire from the schedule, and sampling the backlog.      *)
LEMMA ScheduleStep ==
  LoadInv /\ (Intend \/ Sample) => LoadInv'
<1> SUFFICES ASSUME LoadInv, Intend \/ Sample PROVE LoadInv'
  OBVIOUS
<1> USE LoadAssumption DEF LoadInv, LoadType
<1>1. dnf' = dnf /\ TotalDnf(dnf) \in Int
  BY DEF Intend, Sample, TotalDnf, Reasons
<1>2. CASE Intend
  BY <1>1, <1>2 DEF Intend, Accounting, Working
<1>3. CASE Sample
  <2>1. \A i \in 1..Len(backlog_trace') : backlog_trace'[i] <= backlog'
    BY <1>3 DEF Sample
  <2>2. LoadType'
    BY <1>3 DEF Sample
  <2>3. Accounting'
    BY <1>1, <1>3 DEF Sample, Accounting, Working
  <2> QED
    BY <1>3, <2>1, <2>2, <2>3 DEF Sample
<1> QED
  BY <1>2, <1>3

(* _dispatch: under the lock, the fire is sent or added to the backlog.     *)
LEMMA DispatchStep ==
  LoadInv /\ (Send \/ BackUp) => LoadInv'
<1> SUFFICES ASSUME LoadInv, Send \/ BackUp PROVE LoadInv'
  OBVIOUS
<1> USE LoadAssumption DEF LoadInv, LoadType
<1>1. dnf' = dnf /\ TotalDnf(dnf) \in Nat
  BY DnfTotal DEF Send, BackUp
<1>2. CASE Send
  <2>1. outstanding' \in 0..OUTSTANDING_CAP /\ peak_outstanding' \in 0..OUTSTANDING_CAP
    BY <1>2 DEF Send, room
  <2>2. LoadType'
    BY <1>2, <2>1 DEF Send
  <2>3. Accounting'
    BY <1>1, <1>2 DEF Send, Accounting, Working
  <2> QED
    BY <1>2, <2>2, <2>3 DEF Send, room
<1>3. CASE BackUp
  <2>1. backlog + 1 <= MaxFires
    BY <1>1, <1>3 DEF BackUp, Accounting, Working
  <2>2. LoadType'
    <3>1. backlog' \in 0..MaxFires /\ due' = FALSE
      BY <1>3, <2>1 DEF BackUp
    <3> QED
      BY <1>3, <3>1 DEF BackUp
  <2>3. Accounting'
    BY <1>1, <1>3 DEF BackUp, Accounting, Working
  <2> QED
    BY <1>3, <2>2, <2>3 DEF BackUp, room
<1> QED
  BY <1>2, <1>3

(* _work: a worker counts its outcome, and later gives its place back.      *)
LEMMA WorkerStep ==
  LoadInv /\ (Answer \/ Leave \/ \E r \in Faults : Fail(r)) => LoadInv'
<1> SUFFICES ASSUME LoadInv, Answer \/ Leave \/ \E r \in Faults : Fail(r)
             PROVE LoadInv'
  OBVIOUS
<1> USE LoadAssumption DEF LoadInv, LoadType
<1>1. TotalDnf(dnf) \in Nat /\ \A r \in Reasons : dnf[r] <= TotalDnf(dnf)
  BY DnfTotal
<1>2. Working > 0 => completed + TotalDnf(dnf) + 1 <= MaxFires
  BY <1>1 DEF Accounting, Working
<1>3. CASE Answer
  <2>1. Working > 0 /\ UNCHANGED dnf
    BY <1>3 DEF Answer
  <2>2. completed' = completed + 1 /\ completed' \in 0..MaxFires
    BY <1>1, <1>2, <1>3, <2>1 DEF Answer
  <2>3. LoadType'
    <3>1. leaving' \in 0..OUTSTANDING_CAP
      BY <1>3, <2>1 DEF Answer, Working
    <3> QED
      BY <1>3, <2>2, <3>1 DEF Answer
  <2>4. Accounting'
    BY <1>1, <1>3, <2>2 DEF Answer, Accounting, Working
  <2>5. leaving' <= outstanding'
    BY <1>3, <2>1 DEF Answer, Working
  <2>6. UNCHANGED <<outstanding, peak_outstanding, backlog, backlog_trace>>
    BY <1>3 DEF Answer
  <2> HIDE DEF LoadType
  <2> QED
    BY <2>3, <2>4, <2>5, <2>6
<1>4. CASE Leave
  BY <1>1, <1>4 DEF Leave, Accounting, Working
<1>5. CASE \E r \in Faults : Fail(r)
  <2>1. PICK r \in Reasons : Fail(r)
    BY <1>5, LadderAssumption
  <2>2. dnf[r] + 1 \in 0..MaxFires
    <3>1. Working > 0
      BY <2>1 DEF Fail
    <3>2. completed \in Nat /\ dnf[r] \in Nat /\ dnf[r] <= TotalDnf(dnf)
      BY <1>1
    <3> HIDE DEF LoadInv, LoadType
    <3> QED
      BY <1>1, <1>2, <3>1, <3>2
  <2>3. dnf' \in [Reasons -> 0..MaxFires]
    BY <2>1, <2>2 DEF Fail
  <2>4. TotalDnf(dnf') = TotalDnf(dnf) + 1
    <3>1. dnf' = [dnf EXCEPT ![r] = dnf[r] + 1]
      BY <2>1 DEF Fail
    <3>2. dnf \in [Reasons -> Nat]
      BY <1>1
    <3> QED
      BY <3>1, <3>2, DnfBump
  <2> HIDE DEF LoadType
  <2>5. LoadType'
    BY <1>2, <2>1, <2>3 DEF Fail, LoadType, Working
  <2>6. Accounting'
    BY <1>1, <2>1, <2>4 DEF Fail, Accounting, Working, LoadType
  <2> QED
    BY <2>1, <2>5, <2>6 DEF Fail, Working, LoadType
<1> QED
  BY <1>3, <1>4, <1>5

(* Every step keeps the counters' invariant.                                *)
LEMMA LoadStep == LoadInv /\ [Next]_vars => LoadInv'
<1> SUFFICES ASSUME LoadInv, [Next]_vars PROVE LoadInv'
  OBVIOUS
<1>1. CASE UNCHANGED loadVars
  BY <1>1 DEF loadVars, LoadInv, LoadType, Accounting, Working
<1>2. CASE NewLoad
  BY <1>2, NewLoadInv
<1>3. CASE Scheduler
  BY <1>3, ScheduleStep, DispatchStep DEF Scheduler
<1>4. CASE Workers
  BY <1>4, WorkerStep DEF Workers
<1> QED
  BY <1>1, <1>2, <1>3, <1>4
  DEF Next, vars, ProbeSend, ProbeEnds, CloseWindow, Joined, Judge, Finished

(* The invariant of the counters, for every interleaving of the scheduler   *)
(* with the workers.                                                        *)
THEOREM LoadCounters == Spec => []LoadInv
<1>1. Init => LoadInv
  BY NewLoadInv DEF Init
<1> QED
  BY <1>1, LoadStep, PTL DEF Spec

(* No fire of an open-loop window is lost or counted twice, and a fire that *)
(* backed up is never sent.                                                 *)
THEOREM FiresAccounted == Spec => []Accounting
<1>1. LoadInv => Accounting
  BY DEF LoadInv
<1> QED
  BY <1>1, LoadCounters, PTL

(* The utilization trigger of the stop rule implies the cap trigger.        *)
THEOREM UtilizationImpliesCap == Spec => []UtilizationNeedsCap
<1>1. LoadInv => UtilizationNeedsCap
  <2> SUFFICES ASSUME LoadInv, backlog_monotone
               PROVE peak_outstanding = OUTSTANDING_CAP
    BY DEF UtilizationNeedsCap
  <2>1. backlog_trace[1] \in Nat /\ backlog_trace[Len(backlog_trace)] \in Nat
    <3>1. backlog_trace \in Seq(0..MaxFires)
      BY DEF LoadInv, LoadType
    <3>2. Len(backlog_trace) \in Nat /\ Len(backlog_trace) >= 3
      BY <3>1 DEF backlog_monotone
    <3>3. backlog_trace[1] \in 0..MaxFires
          /\ backlog_trace[Len(backlog_trace)] \in 0..MaxFires
      <4>1. 1 \in 1..Len(backlog_trace) /\ Len(backlog_trace) \in 1..Len(backlog_trace)
        BY <3>2
      <4> QED
        BY <3>1, <4>1, ElementOfSeq
    <3> QED
      BY <3>3, LoadAssumption
  <2>2. backlog_trace[Len(backlog_trace)] <= backlog
    BY DEF LoadInv, LoadType, backlog_monotone
  <2>3. backlog > 0
    BY <2>1, <2>2 DEF LoadInv, LoadType, backlog_monotone
  <2> QED
    BY <2>3 DEF LoadInv
<1> QED
  BY <1>1, LoadCounters, PTL

\* How far the ladder is: while it goes on there is at most a knee behind it.
LadderInv ==
  /\ stage \in Stages
  /\ ladder \in Seq(StopReasons)
  /\ knee \in 0..Levels
  /\ KneeRule
  /\ stage # "done" => /\ Len(ladder) < Levels
                       /\ steps_after_knee = 0
                       /\ knee # 0 => knee = Len(ladder)

(* Judge appends one reason, and stops the ladder at the step after the     *)
(* knee or at the last one.                                                 *)
LEMMA JudgeStep == LadderInv /\ Judge => LadderInv'
<1> SUFFICES ASSUME LadderInv, Judge PROVE LadderInv'
  OBVIOUS
<1> USE LadderAssumption DEF LadderInv
<1>1. PICK reason \in StopReasons :
        ladder' = Append(ladder, reason) /\ NextStep(reason)
  BY DEF Judge, StopReason, StopReasons
<1>2. /\ Len(ladder') = Len(ladder) + 1 /\ ladder' \in Seq(StopReasons)
      /\ ladder'[Len(ladder')] = reason
      /\ \A i \in 1..Len(ladder) : ladder'[i] = ladder[i]
  BY <1>1
<1>3. stage = "judge" /\ stage' \in {"warm", "done"}
  BY <1>1 DEF Judge, NextStep
<1>4. CASE knee # 0
  <2>1. knee' = knee /\ knee = Len(ladder) /\ stage' = "done"
    BY <1>1, <1>3, <1>4 DEF NextStep
  <2>2. Len(ladder') \in 0..Levels /\ knee' # Levels
    BY <1>2, <1>3, <2>1
  <2> QED
    BY <1>2, <1>3, <1>4, <2>1, <2>2 DEF KneeRule, Stages
<1>5. CASE knee = 0
  <2>1. steps_after_knee' = 0
    BY <1>1, <1>3, <1>5 DEF NextStep
  <2>2. \A i \in 1..Len(ladder) : ladder[i] = "none"
    BY <1>5 DEF KneeRule
  <2>3. stage' = "done" <=> Len(ladder') = Levels
    BY <1>1, <1>2, <2>1 DEF NextStep
  <2>4. CASE reason = "none"
    BY <1>1, <1>2, <1>3, <1>5, <2>1, <2>2, <2>3, <2>4 DEF NextStep, KneeRule, Stages
  <2>5. CASE reason # "none"
    BY <1>1, <1>2, <1>3, <1>5, <2>1, <2>2, <2>3, <2>5 DEF NextStep, KneeRule, Stages
  <2> QED
    BY <2>4, <2>5
<1> QED
  BY <1>4, <1>5

(* The knee is the first step with a stop reason and one step is run past it. *)
THEOREM KneeIsFirst == Spec => []KneeRule
<1>1. Init => LadderInv
  BY LadderAssumption DEF Init, LadderInv, KneeRule, Stages
<1>2. LadderInv /\ [Next]_vars => LadderInv'
  <2> SUFFICES ASSUME LadderInv, [Next]_vars PROVE LadderInv'
    OBVIOUS
  <2>1. CASE Judge
    BY <2>1, JudgeStep
  <2>2. CASE UNCHANGED armVars
    BY <2>2 DEF armVars, LadderInv, KneeRule
  <2>3. CASE CloseWindow \/ Joined
    BY <2>3 DEF CloseWindow, Joined, LadderInv, KneeRule, Stages
  <2> QED
    BY <2>1, <2>2, <2>3
    DEF Next, vars, armVars, Scheduler, Workers, ProbeSend, ProbeEnds, Finished
<1>3. LadderInv => KneeRule
  BY DEF LadderInv
<1> QED
  BY <1>1, <1>2, <1>3, PTL DEF Spec
-----------------------------------------------------------------------------
(* The items of the mapping run, as a set.                                   *)
ItemSet == {Items[i] : i \in DOMAIN Items}

(* There are finitely many keys, and one per item under each condition,      *)
(* since no two items are the same.                                          *)
LEMMA MappingSizes ==
  /\ IsFiniteSet(Keys) /\ Cardinality(Keys) \in Nat
  /\ \A c : /\ IsFiniteSet(ItemSet \X {c})
            /\ Cardinality(ItemSet \X {c}) = Len(Items)
<1>1. Len(Items) \in Nat /\ DOMAIN Items = 1..Len(Items)
      /\ (\A i, j \in DOMAIN Items : Items[i] = Items[j] => i = j)
      /\ Len(CONDITIONS) \in Nat /\ DOMAIN CONDITIONS = 1..Len(CONDITIONS)
  BY MappingAssumption
<1>2. /\ IsFiniteSet(1..Len(Items)) /\ Cardinality(1..Len(Items)) = Len(Items)
      /\ IsFiniteSet(1..Len(CONDITIONS))
  <2>1. \A n \in Nat : IsFiniteSet(1..n) /\ Cardinality(1..n) = n
    BY FS_Interval
  <2> QED
    BY <1>1, <2>1
<1>3. IsFiniteSet(ItemSet) /\ Cardinality(ItemSet) = Len(Items)
  <2> DEFINE f == [i \in 1..Len(Items) |-> Items[i]]
  <2>1. f \in Bijection(1..Len(Items), ItemSet)
    <3>1. f \in [1..Len(Items) -> ItemSet]
      BY <1>1 DEF ItemSet
    <3>2. \A i, j \in 1..Len(Items) : f[i] = f[j] => i = j
      BY <1>1
    <3>3. \A x \in ItemSet : \E i \in 1..Len(Items) : f[i] = x
      BY <1>1 DEF ItemSet
    <3> HIDE DEF f
    <3>4. f \in Injection(1..Len(Items), ItemSet)
      BY <3>1, <3>2 DEF Injection, IsInjective
    <3>5. f \in Surjection(1..Len(Items), ItemSet)
      BY <3>1, <3>3 DEF Surjection
    <3> QED
      BY <3>4, <3>5 DEF Bijection
  <2>2. ExistsBijection(1..Len(Items), ItemSet)
    BY <2>1 DEF ExistsBijection
  <2> QED
    BY <1>2, <2>2, FS_Bijection
<1>4. IsFiniteSet({CONDITIONS[c] : c \in DOMAIN CONDITIONS})
  <2> DEFINE C == {CONDITIONS[c] : c \in DOMAIN CONDITIONS}
             f == [c \in 1..Len(CONDITIONS) |-> CONDITIONS[c]]
  <2>1. f \in Surjection(1..Len(CONDITIONS), C)
    BY <1>1 DEF Surjection
  <2> HIDE DEF C, f
  <2>2. IsFiniteSet(C)
    BY <1>2, <2>1, FS_Surjection
  <2> QED
    BY <2>2 DEF C
<1>5. IsFiniteSet(Keys)
  BY <1>3, <1>4, FS_Product DEF Keys, ItemSet
<1>6. ASSUME NEW c
      PROVE  IsFiniteSet(ItemSet \X {c}) /\ Cardinality(ItemSet \X {c}) = Len(Items)
  <2>1. IsFiniteSet({c}) /\ Cardinality({c}) = 1
    BY FS_Singleton
  <2>2. /\ IsFiniteSet(ItemSet \X {c})
        /\ Cardinality(ItemSet \X {c}) = Cardinality(ItemSet) * 1
    BY <1>3, <2>1, FS_Product
  <2>3. \A n \in Nat : n * 1 = n
    OBVIOUS
  <2> QED
    BY <1>1, <1>3, <2>2, <2>3, Zenon
<1> QED
  BY <1>5, <1>6, FS_CardinalityType

(* The keys of which the checkpoint holds a record that can be read, and the   *)
(* requests that the end of the file will still cost.                        *)
ParsedKeys(lines) == {lines[i].key : i \in {j \in DOMAIN lines : lines[j].parses}}

Owed == IF ~unterminated THEN 0 ELSE IF ckpt[Len(ckpt)].parses THEN 2 ELSE 1

(* The lines of the checkpoint: of a torn one only the key it stood for is   *)
(* known.                                                                    *)
Lines == [parses : BOOLEAN, key : Keys, pred : Answers]

(* The states of the mapping run.                                            *)
MappingType ==
  /\ mappingPc \in {"down", "running", "exited"}
  /\ ckpt \in Seq(Lines) /\ unterminated \in BOOLEAN
  /\ unterminated => ckpt # <<>>
  /\ DOMAIN done \subseteq Keys
  /\ current \in Nat \ {0} /\ asked \in Nat /\ mappingKills \in Nat

(* What a running process holds in done: all that can be read in the file,   *)
(* and every item of the conditions before the current one.                  *)
DoneInv ==
  mappingPc = "running" =>
    /\ ParsedKeys(ckpt) \subseteq DOMAIN done
    /\ \A c \in DOMAIN CONDITIONS : c < current => ItemSet \X {CONDITIONS[c]} \subseteq DOMAIN done

(* Each request is paid for by a key that can be read, or by a kill, of      *)
(* which each pays for two; what the torn end of the file still costs is     *)
(* put aside.                                                                *)
CostInv == asked + Owed <= Cardinality(ParsedKeys(ckpt)) + 2 * mappingKills

(* The inductive invariant of the mapping run.                               *)
MappingInv == MappingType /\ DoneInv /\ CostInv /\ CompleteMeansAll

(* The mapping run starts in its invariant.                                  *)
LEMMA MappingStart == MappingInit => MappingInv
<1> SUFFICES ASSUME MappingInit PROVE MappingInv
  OBVIOUS
<1> USE DEF MappingInit
<1>1. ckpt \in Seq(Lines) /\ DOMAIN done = {}
  OBVIOUS
<1>2. MappingType
  <2>1. unterminated \in BOOLEAN /\ (unterminated => ckpt # <<>>)
    OBVIOUS
  <2>2. DOMAIN done \subseteq Keys
    BY <1>1
  <2>3. current \in Nat \ {0} /\ asked \in Nat /\ mappingKills \in Nat
    OBVIOUS
  <2> QED
    BY <1>1, <2>1, <2>2, <2>3 DEF MappingType
<1>3. DoneInv /\ CompleteMeansAll
  BY DEF DoneInv, CompleteMeansAll
<1>4. CostInv
  <2>1. ParsedKeys(ckpt) = {}
    BY DEF ParsedKeys
  <2> QED
    BY <2>1, FS_EmptySet DEF CostInv, Owed
<1> QED
  BY <1>2, <1>3, <1>4 DEF MappingInv

(* What one record written does to the file.                                *)
LEMMA WrittenLine ==
  ASSUME MappingType, NEW k \in Keys, NEW pred \in Answers, NEW parses \in BOOLEAN,
         NEW new, new = Written(ckpt, Line(parses, k, pred))
  PROVE  /\ new \in Seq(Lines) /\ new # <<>> /\ Len(new) \in Nat
         /\ ~unterminated =>
              /\ new[Len(new)].parses = parses
              /\ ParsedKeys(new) = ParsedKeys(ckpt) \cup (IF parses THEN {k} ELSE {})
         /\ unterminated =>
              /\ ~new[Len(new)].parses
              /\ ParsedKeys(new) \subseteq ParsedKeys(ckpt)
              /\ ParsedKeys(ckpt) \ {ckpt[Len(ckpt)].key} \subseteq ParsedKeys(new)
              /\ ~ckpt[Len(ckpt)].parses => ParsedKeys(new) = ParsedKeys(ckpt)
<1> DEFINE line == Line(parses, k, pred)
<1>1. /\ ckpt \in Seq(Lines) /\ Len(ckpt) \in Nat /\ DOMAIN ckpt = 1..Len(ckpt)
      /\ \A i \in 1..Len(ckpt) : ckpt[i] \in Lines
  BY DEF MappingType
<1>2. line \in Lines /\ line.parses = parses /\ line.key = k
  BY DEF Line, Lines
<1>3. CASE ~unterminated
  <2> HIDE DEF line
  <2>1. new = Append(ckpt, line)
    BY <1>3 DEF Written, line
  <2>2. /\ new \in Seq(Lines) /\ Len(new) = Len(ckpt) + 1 /\ DOMAIN new = 1..Len(ckpt) + 1
        /\ new[Len(ckpt) + 1] = line /\ \A i \in 1..Len(ckpt) : new[i] = ckpt[i]
    BY <1>1, <1>2, <2>1
  <2>3. ParsedKeys(new) = ParsedKeys(ckpt) \cup (IF parses THEN {k} ELSE {})
    <3>1. ASSUME NEW x \in ParsedKeys(new)
          PROVE  x \in ParsedKeys(ckpt) \/ (parses /\ x = k)
      <4>1. PICK i \in 1..Len(ckpt) + 1 : new[i].parses /\ new[i].key = x
        BY <2>2, <3>1 DEF ParsedKeys
      <4>2. CASE i \in 1..Len(ckpt)
        BY <1>1, <2>2, <4>1, <4>2 DEF ParsedKeys
      <4>3. CASE i = Len(ckpt) + 1
        BY <1>2, <2>2, <4>1, <4>3
      <4> QED
        BY <1>1, <4>2, <4>3
    <3>2. ASSUME NEW x \in ParsedKeys(ckpt)
          PROVE  x \in ParsedKeys(new)
      <4>1. PICK i \in 1..Len(ckpt) : ckpt[i].parses /\ ckpt[i].key = x
        BY <1>1, <3>2 DEF ParsedKeys
      <4>2. i \in DOMAIN new
        BY <1>1, <2>2
      <4> QED
        BY <2>2, <4>1, <4>2 DEF ParsedKeys
    <3>3. ASSUME parses PROVE k \in ParsedKeys(new)
      <4>1. Len(ckpt) + 1 \in DOMAIN new
        BY <1>1, <2>2
      <4> QED
        BY <1>2, <2>2, <3>3, <4>1 DEF ParsedKeys
    <3>4. \A x \in (IF parses THEN {k} ELSE {}) : parses /\ x = k
      OBVIOUS
    <3> QED
      BY <3>1, <3>2, <3>3, <3>4
  <2>4. new # <<>> /\ new[Len(new)].parses = parses /\ Len(new) \in Nat
    BY <1>1, <1>2, <2>2
  <2> QED
    BY <1>3, <2>2, <2>3, <2>4 DEF line
<1>4. CASE unterminated
  <2> DEFINE last == Len(ckpt)
  <2>0. last \in 1..Len(ckpt)
    BY <1>1, <1>4 DEF MappingType
  <2>1. new = [ckpt EXCEPT ![last] = [ckpt[last] EXCEPT !.parses = FALSE]]
    BY <1>4 DEF Written
  <2>2. [ckpt[last] EXCEPT !.parses = FALSE] \in Lines
        /\ ~[ckpt[last] EXCEPT !.parses = FALSE].parses
    BY <1>1, <2>0 DEF Lines
  <2>3. /\ new \in Seq(Lines) /\ Len(new) = Len(ckpt) /\ DOMAIN new = 1..Len(ckpt)
        /\ ~new[last].parses /\ \A i \in 1..Len(ckpt) : i # last => new[i] = ckpt[i]
    BY <1>1, <2>0, <2>1, <2>2
  <2> HIDE DEF last
  <2>4. ParsedKeys(new) \subseteq ParsedKeys(ckpt)
    BY <1>1, <2>3 DEF ParsedKeys
  <2>5. ASSUME NEW x \in ParsedKeys(ckpt), x # ckpt[last].key \/ ~ckpt[last].parses
        PROVE  x \in ParsedKeys(new)
    <3>1. PICK i \in 1..Len(ckpt) : ckpt[i].parses /\ ckpt[i].key = x
      BY <1>1, <2>5 DEF ParsedKeys
    <3>2. i # last
      BY <2>5, <3>1
    <3> QED
      BY <2>3, <3>1, <3>2 DEF ParsedKeys
  <2>6. new # <<>> /\ ~new[Len(new)].parses /\ Len(new) \in Nat
    <3>0. Len(new) = Len(ckpt) /\ Len(ckpt) \in Nat /\ Len(ckpt) \in 1..Len(ckpt)
      BY <1>1, <2>0, <2>3 DEF last
    <3>1. Len(new) = last /\ last \in Nat /\ last # 0
      BY <3>0 DEF last
    <3>2. new # <<>>
      BY <3>1
    <3> QED
      BY <2>3, <3>1, <3>2
  <2> QED
    BY <1>4, <2>3, <2>4, <2>5, <2>6 DEF last
<1> QED
  BY <1>3, <1>4 DEF MappingType

(* What writing the record of a key without one costs.                      *)
LEMMA WrittenCost ==
  ASSUME MappingType, CostInv, NEW k \in Keys, k \notin ParsedKeys(ckpt),
         NEW pred \in Answers, NEW parses \in BOOLEAN,
         NEW new, new = Written(ckpt, Line(parses, k, pred))
  PROVE  /\ parses /\ ~unterminated =>
              asked + 1 <= Cardinality(ParsedKeys(new)) + 2 * mappingKills
         /\ ~parses \/ unterminated =>
              asked <= Cardinality(ParsedKeys(new)) + 2 * mappingKills
         /\ unterminated =>
              asked + 1 <= Cardinality(ParsedKeys(new)) + 2 * mappingKills
<1> DEFINE P == ParsedKeys(ckpt)
           Q == ParsedKeys(new)
<1>0. /\ ckpt \in Seq(Lines) /\ Len(ckpt) \in Nat /\ DOMAIN ckpt = 1..Len(ckpt)
      /\ unterminated => ckpt # <<>>
      /\ asked \in Nat /\ mappingKills \in Nat /\ unterminated \in BOOLEAN
  BY DEF MappingType
<1>1. /\ ~unterminated => Q = P \cup (IF parses THEN {k} ELSE {})
      /\ unterminated => /\ Q \subseteq P /\ P \ {ckpt[Len(ckpt)].key} \subseteq Q
                         /\ ~ckpt[Len(ckpt)].parses => Q = P
  BY WrittenLine
<1>2. P \subseteq Keys /\ IsFiniteSet(P) /\ Cardinality(P) \in Nat
  <2>1. \A i \in DOMAIN ckpt : ckpt[i] \in Lines
    BY <1>0
  <2>2. P \subseteq Keys
    BY <2>1 DEF ParsedKeys, Lines
  <2> HIDE DEF P
  <2> QED
    BY <2>2, MappingSizes, FS_Subset, FS_CardinalityType
<1> HIDE DEF P, Q
<1>3. k \notin P
  BY DEF P
<1>4. CASE ~unterminated
  <2>1. asked <= Cardinality(P) + 2 * mappingKills
    BY <1>0, <1>4 DEF CostInv, Owed, P
  <2>2. CASE parses
    <3>1. Q = P \cup {k}
      BY <1>1, <1>4, <2>2
    <3>2. Cardinality(Q) = Cardinality(P) + 1
      BY <1>2, <1>3, <3>1, FS_AddElement
    <3>3. asked + 1 <= Cardinality(Q) + 2 * mappingKills
      BY <1>0, <1>2, <2>1, <3>2
    <3> QED
      BY <1>4, <2>2, <3>3 DEF Q
  <2>3. CASE ~parses
    <3>1. Q = P
      BY <1>1, <1>4, <2>3
    <3> QED
      BY <1>4, <2>1, <2>3, <3>1 DEF Q
  <2> QED
    BY <2>2, <2>3
<1>5. CASE unterminated
  <2>1. asked + 1 <= Cardinality(Q) + 2 * mappingKills
    <3>1. CASE ckpt[Len(ckpt)].parses
      <4>1. asked + 2 <= Cardinality(P) + 2 * mappingKills
        BY <1>5, <3>1 DEF CostInv, Owed, P
      <4> DEFINE R == P \ {ckpt[Len(ckpt)].key}
      <4>2. IsFiniteSet(R) /\ Cardinality(R) \in Nat /\ Cardinality(P) <= Cardinality(R) + 1
        <5>1. /\ IsFiniteSet(R)
              /\ Cardinality(R) = IF ckpt[Len(ckpt)].key \in P THEN Cardinality(P) - 1
                                  ELSE Cardinality(P)
          BY <1>2, FS_RemoveElement
        <5> HIDE DEF R
        <5>2. Cardinality(R) \in Nat
          BY <5>1, FS_CardinalityType
        <5> QED
          BY <1>2, <5>1, <5>2
      <4>3. R \subseteq Q /\ IsFiniteSet(Q)
        BY <1>1, <1>2, <1>5, FS_Subset
      <4> HIDE DEF R
      <4>4. Cardinality(R) <= Cardinality(Q) /\ Cardinality(Q) \in Nat
        BY <4>3, FS_Subset, FS_CardinalityType
      <4> QED
        BY <1>0, <1>2, <4>1, <4>2, <4>4
    <3>2. CASE ~ckpt[Len(ckpt)].parses
      <4>1. asked + 1 <= Cardinality(P) + 2 * mappingKills
        BY <1>5, <3>2 DEF CostInv, Owed, P
      <4> QED
        BY <1>1, <1>5, <3>2, <4>1
    <3> QED
      BY <3>1, <3>2
  <2>2. IsFiniteSet(Q) /\ Cardinality(Q) \in Nat
    BY <1>1, <1>2, <1>5, FS_Subset, FS_CardinalityType
  <2> QED
    BY <1>0, <1>5, <2>1, <2>2 DEF Q
<1> QED
  BY <1>0, <1>4, <1>5

(* Every step of the mapping run, kills included, keeps its invariant.       *)
LEMMA MappingStep == MappingInv /\ [MappingNext]_mappingVars => MappingInv'
<1> SUFFICES ASSUME MappingInv, [MappingNext]_mappingVars PROVE MappingInv'
  OBVIOUS
<1>0. MappingType /\ DoneInv /\ CostInv /\ CompleteMeansAll
  BY DEF MappingInv
<1>p. ASSUME UNCHANGED published PROVE CompleteMeansAll'
  BY <1>0, <1>p DEF CompleteMeansAll
<1>k. ASSUME InLoop, Remaining # {}
      PROVE  LET key == <<Items[Min(Remaining)], CONDITIONS[current]>>
             IN  key \in Keys /\ key \notin DOMAIN done /\ key \notin ParsedKeys(ckpt)
  <2>1. Remaining \subseteq Nat /\ Remaining \subseteq DOMAIN Items
    BY MappingAssumption DEF Remaining
  <2>2. Min(Remaining) \in Remaining
    BY <1>k, <2>1, MinIn
  <2>3. current \in DOMAIN CONDITIONS
    BY <1>0, <1>k, MappingAssumption DEF InLoop, MappingType
  <2> QED
    BY <1>0, <1>k, <2>1, <2>2, <2>3 DEF Remaining, Keys, DoneInv, InLoop
<1>1. CASE StartRun
  <2>1. DOMAIN done' = ParsedKeys(ckpt) \cap Keys
    BY <1>1 DEF StartRun, load_done, ParsedKeys
  <2>2. ParsedKeys(ckpt) \subseteq Keys
    <3>1. \A i \in DOMAIN ckpt : ckpt[i] \in Lines
      BY <1>0 DEF MappingType
    <3> QED
      BY <3>1 DEF ParsedKeys, Lines
  <2>3. MappingType'
    BY <1>0, <1>1, <2>1 DEF StartRun, MappingType
  <2>4. DoneInv'
    <3>1. \A c \in DOMAIN CONDITIONS : c \in Nat \ {0}
      BY MappingAssumption
    <3> QED
      BY <1>1, <2>1, <2>2, <3>1 DEF StartRun, DoneInv
  <2>5. CostInv'
    BY <1>0, <1>1 DEF StartRun, CostInv, Owed
  <2> QED
    BY <1>1, <1>p, <2>3, <2>4, <2>5 DEF StartRun, MappingInv
<1>2. ASSUME NEW pred \in Answers, AskItem(pred)
      PROVE  MappingInv'
  <2> DEFINE k == <<Items[Min(Remaining)], CONDITIONS[current]>>
             new == Written(ckpt, Line(TRUE, k, pred))
  <2>1. k \in Keys /\ k \notin DOMAIN done /\ k \notin ParsedKeys(ckpt)
    BY <1>2, <1>k DEF AskItem
  <2>2. /\ ckpt' = new /\ done' = [x \in DOMAIN done \cup {k} |-> IF x = k THEN pred ELSE done[x]] /\ unterminated' = FALSE
        /\ asked' = asked + 1 /\ UNCHANGED <<mappingPc, current, published, mappingKills>>
    BY <1>2 DEF AskItem
  <2> HIDE DEF k
  <2>3. /\ new \in Seq(Lines)
        /\ ~unterminated => ParsedKeys(new) = ParsedKeys(ckpt) \cup {k}
        /\ unterminated => ParsedKeys(new) \subseteq ParsedKeys(ckpt)
    BY <1>0, <2>1, WrittenLine
  <2>4. asked + 1 <= Cardinality(ParsedKeys(new)) + 2 * mappingKills
    <3>1. CASE unterminated
      BY <1>0, <2>1, <3>1, WrittenCost
    <3>2. CASE ~unterminated
      BY <1>0, <2>1, <3>2, WrittenCost
    <3> QED
      BY <3>1, <3>2
  <2>5. DOMAIN done' = DOMAIN done \cup {k}
    BY <2>2
  <2> HIDE DEF new
  <2>6. MappingType'
    <3>1. ckpt' \in Seq(Lines) /\ unterminated' \in BOOLEAN /\ ~unterminated'
      BY <2>2, <2>3
    <3>2. DOMAIN done' \subseteq Keys
      BY <1>0, <2>1, <2>5 DEF MappingType
    <3>3. asked' \in Nat
      BY <1>0, <2>2 DEF MappingType
    <3> QED
      BY <1>0, <2>2, <3>1, <3>2, <3>3 DEF MappingType
  <2>7. DoneInv'
    <3>1. ParsedKeys(new) \subseteq ParsedKeys(ckpt) \cup {k}
      BY <1>0, <2>3 DEF MappingType
    <3> QED
      BY <1>0, <2>2, <2>5, <3>1 DEF DoneInv
  <2>8. CostInv'
    <3>1. Cardinality(ParsedKeys(new)) + 2 * mappingKills >= asked + 1 + 0
      BY <1>0, <2>4 DEF MappingType
    <3>2. Owed' = 0
      BY <2>2 DEF Owed
    <3> QED
      BY <1>0, <2>2, <2>4, <3>2 DEF CostInv, MappingType
  <2> QED
    BY <1>p, <2>2, <2>6, <2>7, <2>8 DEF MappingInv
<1>3. CASE EndCondition
  <2>1. MappingType'
    BY <1>0, <1>3 DEF EndCondition, MappingType
  <2>2. CostInv'
    BY <1>0, <1>3 DEF EndCondition, CostInv, Owed
  <2>3. current \in DOMAIN CONDITIONS /\ current \in Nat
    BY <1>0, <1>3, MappingAssumption DEF EndCondition, InLoop, MappingType
  <2>4. \A c \in DOMAIN CONDITIONS : c <= current =>
          ItemSet \X {CONDITIONS[c]} \subseteq DOMAIN done
    <3>1. ItemSet \X {CONDITIONS[current]} \subseteq DOMAIN done
      BY <1>3 DEF EndCondition, Remaining, ItemSet
    <3>2. \A c \in DOMAIN CONDITIONS : c \in Nat /\ (c <= current => c < current \/ c = current)
      BY <2>3, MappingAssumption
    <3> QED
      BY <1>0, <1>3, <3>1, <3>2 DEF EndCondition, InLoop, DoneInv
  <2>5. DoneInv'
    <3>1. \A c \in DOMAIN CONDITIONS : c < current + 1 => c <= current
      BY <2>3, MappingAssumption
    <3> QED
      BY <1>0, <1>3, <2>4, <3>1 DEF EndCondition, InLoop, DoneInv
  <2>6. CompleteMeansAll'
    <3> SUFFICES ASSUME NEW n \in 1..current
                 PROVE  LET c == CONDITIONS[n]
                        IN  c \in DOMAIN aggregate(done) /\ aggregate(done)[c].n = Len(Items)
      BY <1>3 DEF EndCondition, CompleteMeansAll
    <3> DEFINE c == CONDITIONS[n]
               rows == {k \in DOMAIN done : k[2] = c}
    <3>1. n \in DOMAIN CONDITIONS /\ n <= current
      BY <2>3, MappingAssumption
    <3>2. rows = ItemSet \X {c}
      <4>1. ItemSet \X {c} \subseteq DOMAIN done
        BY <2>4, <3>1
      <4>2. \A k \in DOMAIN done : k \in Keys
        BY <1>0 DEF MappingType
      <4> QED
        BY <4>1, <4>2 DEF Keys, ItemSet
    <3>3. c \in {k[2] : k \in DOMAIN done}
      <4>1. 1 \in DOMAIN Items
        BY MappingAssumption
      <4>2. <<Items[1], c>> \in rows
        BY <3>2, <4>1 DEF ItemSet
      <4> QED
        BY <4>2
    <3> HIDE DEF c
    <3>4. c \in DOMAIN aggregate(done) /\ aggregate(done)[c].n = Cardinality(rows)
      BY <3>3 DEF aggregate
    <3> HIDE DEF rows
    <3> QED
      BY <3>2, <3>4, MappingSizes DEF c
  <2> QED
    BY <2>1, <2>2, <2>5, <2>6 DEF MappingInv
<1>4. CASE EndRun
  <2>1. MappingType' /\ DoneInv' /\ CostInv'
    BY <1>0, <1>4 DEF EndRun, MappingType, DoneInv, CostInv, Owed
  <2> QED
    BY <1>4, <1>p, <2>1 DEF EndRun, MappingInv
<1>5. CASE KillRun
  <2>1. /\ mappingPc' = "down" /\ mappingKills' = mappingKills + 1 /\ DOMAIN done' = {}
        /\ asked' \in {asked, asked + 1} /\ UNCHANGED <<ckpt, unterminated, current, published>>
    BY <1>5 DEF KillRun, Interrupted
  <2>2. MappingType' /\ DoneInv'
    BY <1>0, <2>1 DEF MappingType, DoneInv
  <2>3. CostInv'
    <3>1. Owed' = Owed /\ Owed \in Nat /\ ParsedKeys(ckpt)' = ParsedKeys(ckpt)
      BY <2>1 DEF Owed, ParsedKeys
    <3>2. asked \in Nat /\ mappingKills \in Nat /\ Cardinality(ParsedKeys(ckpt)) \in Nat
      <4>1. ParsedKeys(ckpt) \subseteq Keys
        <5>1. \A i \in DOMAIN ckpt : ckpt[i] \in Lines
          BY <1>0 DEF MappingType
        <5> QED
          BY <5>1 DEF ParsedKeys, Lines
      <4> QED
        BY <1>0, <4>1, MappingSizes, FS_Subset, FS_CardinalityType DEF MappingType
    <3> QED
      BY <1>0, <2>1, <3>1, <3>2 DEF CostInv
  <2> QED
    BY <1>p, <2>1, <2>2, <2>3 DEF MappingInv
<1>6. ASSUME NEW pred \in Answers, NEW parses \in BOOLEAN, KillInWrite(pred, parses)
      PROVE  MappingInv'
  <2> DEFINE k == <<Items[Min(Remaining)], CONDITIONS[current]>>
             new == Written(ckpt, Line(parses, k, pred))
  <2>1. k \in Keys /\ k \notin DOMAIN done /\ k \notin ParsedKeys(ckpt)
    BY <1>6, <1>k DEF KillInWrite
  <2>2. /\ ckpt' = new /\ DOMAIN done' = {} /\ unterminated' = TRUE
        /\ mappingPc' = "down" /\ mappingKills' = mappingKills + 1
        /\ asked' = asked + 1 /\ UNCHANGED <<current, published>>
    BY <1>6 DEF KillInWrite, Interrupted
  <2> HIDE DEF k
  <2>3. /\ new \in Seq(Lines) /\ new # <<>>
        /\ ~unterminated => new[Len(new)].parses = parses
        /\ unterminated => ~new[Len(new)].parses
    BY <1>0, <2>1, WrittenLine
  <2>4. /\ parses /\ ~unterminated =>
             asked + 1 <= Cardinality(ParsedKeys(new)) + 2 * mappingKills
        /\ ~parses \/ unterminated =>
             asked <= Cardinality(ParsedKeys(new)) + 2 * mappingKills
    BY <1>0, <2>1, WrittenCost
  <2>c. Cardinality(ParsedKeys(new)) \in Nat
    <3>1. ParsedKeys(new) \subseteq Keys
      <4>1. \A i \in DOMAIN new : new[i] \in Lines
        BY <2>3
      <4> QED
        BY <4>1 DEF ParsedKeys, Lines
    <3> QED
      BY <3>1, MappingSizes, FS_Subset, FS_CardinalityType
  <2> HIDE DEF new
  <2>5. MappingType' /\ DoneInv'
    BY <1>0, <2>2, <2>3 DEF MappingType, DoneInv
  <2>6. CostInv'
    <3>1. asked \in Nat /\ mappingKills \in Nat
      BY <1>0 DEF MappingType
    <3>2. CASE parses /\ ~unterminated
      <4>1. Owed' \in {1, 2}
        BY <2>2 DEF Owed
      <4> QED
        BY <2>2, <2>4, <2>c, <3>1, <3>2, <4>1 DEF CostInv
    <3>3. CASE ~parses \/ unterminated
      <4>1. Owed' = 1
        BY <2>2, <2>3, <3>3 DEF Owed
      <4> QED
        BY <2>2, <2>4, <2>c, <3>1, <3>3, <4>1 DEF CostInv
    <3> QED
      BY <3>2, <3>3
  <2> QED
    BY <1>p, <2>2, <2>5, <2>6 DEF MappingInv
<1>7. CASE UNCHANGED mappingVars
  <2>1. MappingType' /\ DoneInv' /\ CostInv'
    BY <1>0, <1>7 DEF mappingVars, MappingType, DoneInv, CostInv, Owed
  <2> QED
    BY <1>7, <1>p, <2>1 DEF mappingVars, MappingInv
<1> QED
  BY <1>1, <1>2, <1>3, <1>4, <1>5, <1>6, <1>7 DEF MappingNext

(* In every run of mapping.py, however often it is killed, whatever line of  *)
(* the checkpoint a kill tears and whatever the next run writes on it, a     *)
(* condition is reported complete only with an answer for each item, and at  *)
(* most two requests are asked again per kill.                               *)
THEOREM MappingResumes == MappingInit /\ [][MappingNext]_mappingVars => []Resumption
<1>1. MappingInv => Resumption
  <2> SUFFICES ASSUME MappingInv PROVE ResumeIsCheap /\ CompleteMeansAll
    BY DEF Resumption
  <2>1. MappingType /\ CostInv /\ CompleteMeansAll
    BY DEF MappingInv
  <2>2. ParsedKeys(ckpt) \subseteq Keys
    <3>1. \A i \in DOMAIN ckpt : ckpt[i] \in Lines
      BY <2>1 DEF MappingType
    <3> QED
      BY <3>1 DEF ParsedKeys, Lines
  <2>3. Cardinality(ParsedKeys(ckpt)) <= Cardinality(Keys)
        /\ Cardinality(ParsedKeys(ckpt)) \in Nat /\ Cardinality(Keys) \in Nat
    BY <2>2, MappingSizes, FS_Subset, FS_CardinalityType
  <2>4. Owed \in Nat /\ asked \in Nat /\ mappingKills \in Nat
    BY <2>1 DEF Owed, MappingType
  <2> QED
    BY <2>1, <2>3, <2>4 DEF CostInv, ResumeIsCheap
<1> QED
  BY <1>1, MappingStart, MappingStep, PTL
-----------------------------------------------------------------------------
(* A running sum of naturals is a function to the naturals, and where none of  *)
(* them exceeds one, the sum of n of them does not exceed n.                 *)
LEMMA RunningSum ==
  ASSUME NEW N \in Nat, NEW f \in [1..N -> Nat],
         NEW up, up = CHOOSE g : g = [i \in 0..N |-> IF i = 0 THEN 0 ELSE g[i - 1] + f[i]]
  PROVE  /\ up[N] \in Nat
         /\ (\A i \in 1..N : f[i] <= 1) => up[N] <= N
<1> DEFINE SumsTo(m) == \E g \in [0..m -> Nat] :
                        g[0] = 0 /\ \A i \in 1..m : g[i] = g[i - 1] + f[i]
           S == {m \in Nat : m <= N => SumsTo(m)}
<1>1. 0 \in S
  <2> DEFINE g == [i \in 0..0 |-> 0]
  <2>1. g \in [0..0 -> Nat] /\ g[0] = 0
    <3>1. 0 \in 0..0
      OBVIOUS
    <3>2. g[0] = 0
      BY <3>1
    <3>3. g \in [0..0 -> Nat]
      OBVIOUS
    <3> QED
      BY <3>2, <3>3
  <2>2. 1..0 = {}
    OBVIOUS
  <2> HIDE DEF g
  <2> QED
    BY <2>1, <2>2
<1>2. ASSUME NEW m \in Nat, m \in S
      PROVE  m + 1 \in S
  <2> HIDE DEF SumsTo
  <2> SUFFICES ASSUME m + 1 <= N PROVE SumsTo(m + 1)
    OBVIOUS
  <2> USE DEF SumsTo
  <2>1. PICK g \in [0..m -> Nat] : g[0] = 0 /\ \A i \in 1..m : g[i] = g[i - 1] + f[i]
    BY <1>2
  <2> DEFINE h == [i \in 0..m + 1 |-> IF i = m + 1 THEN g[m] + f[m + 1] ELSE g[i]]
  <2>2. g[m] \in Nat /\ f[m + 1] \in Nat /\ m + 1 \in 1..N
    BY <2>1
  <2>3. h \in [0..m + 1 -> Nat]
    BY <2>1, <2>2
  <2>4. h[0] = 0
    BY <2>1
  <2>5. ASSUME NEW i \in 1..m + 1 PROVE h[i] = h[i - 1] + f[i]
    <3>1. CASE i = m + 1
      BY <2>2, <3>1
    <3>2. CASE i # m + 1
      <4>1. i \in 1..m /\ i - 1 \in 0..m + 1 /\ i - 1 # m + 1
        BY <3>2
      <4> QED
        BY <2>1, <3>2, <4>1
    <3> QED
      BY <3>1, <3>2
  <2> HIDE DEF h
  <2> QED
    BY <2>3, <2>4, <2>5
<1>3. SumsTo(N)
  <2> HIDE DEF SumsTo
  <2>1. Nat \subseteq S
    <3> HIDE DEF S
    <3> QED
      BY <1>1, <1>2, Induction
  <2> QED
    BY <2>1
<1>4. PICK g \in [0..N -> Nat] : g[0] = 0 /\ \A i \in 1..N : g[i] = g[i - 1] + f[i]
  BY <1>3
<1>5. g = [i \in 0..N |-> IF i = 0 THEN 0 ELSE g[i - 1] + f[i]]
  <2>1. \A i \in 0..N : g[i] = IF i = 0 THEN 0 ELSE g[i - 1] + f[i]
    BY <1>4
  <2> QED
    BY <1>4, <2>1
<1>6. up = [i \in 0..N |-> IF i = 0 THEN 0 ELSE up[i - 1] + f[i]]
  BY <1>5
<1>7. up[0] = 0 /\ \A i \in 1..N : up[i] = up[i - 1] + f[i]
  <2>1. \A i \in 0..N : up[i] = IF i = 0 THEN 0 ELSE up[i - 1] + f[i]
    BY <1>6
  <2>2. 0 \in 0..N /\ \A i \in 1..N : i \in 0..N /\ i # 0
    OBVIOUS
  <2> QED
    BY <2>1, <2>2
<1> HIDE DEF SumsTo, S
<1> DEFINE B == {m \in Nat : m <= N => up[m] \in Nat /\
                   ((\A i \in 1..N : f[i] <= 1) => up[m] <= m)}
<1>8. 0 \in B
  BY <1>7
<1>9. ASSUME NEW m \in Nat, m \in B
      PROVE  m + 1 \in B
  <2> SUFFICES ASSUME m + 1 <= N
               PROVE  up[m + 1] \in Nat /\ ((\A i \in 1..N : f[i] <= 1) => up[m + 1] <= m + 1)
    OBVIOUS
  <2>1. m + 1 \in 1..N /\ up[m + 1] = up[m] + f[m + 1] /\ f[m + 1] \in Nat
    <3>1. m + 1 \in 1..N /\ (m + 1) - 1 = m
      OBVIOUS
    <3>2. up[m + 1] = up[(m + 1) - 1] + f[m + 1]
      BY <1>7, <3>1
    <3>3. f[m + 1] \in Nat
      BY <3>1
    <3> QED
      BY <3>1, <3>2, <3>3
  <2>2. up[m] \in Nat /\ ((\A i \in 1..N : f[i] <= 1) => up[m] <= m)
    BY <1>9
  <2>3. ASSUME \A i \in 1..N : f[i] <= 1 PROVE up[m + 1] <= m + 1
    <3>1. f[m + 1] <= 1 /\ up[m] <= m
      BY <2>1, <2>2, <2>3
    <3> QED
      BY <2>1, <2>2, <3>1
  <2> QED
    BY <2>1, <2>2, <2>3
<1>10. Nat \subseteq B
  <2> HIDE DEF B
  <2> QED
    BY <1>8, <1>9, Induction
<1> QED
  BY <1>10

(* A client thread and its counts.                                           *)
ClientStates == [at : {"connect", "ready", "ready_to_exit", "loop", "query", "exited"},
                 sent : Nat, lat : Nat, late : Nat, err : Nat]

(* What a level reports.                                                     *)
Reports == [n : Nat, completed : Nat, late : Nat, aborted : BOOLEAN]

(* The states of the closed-loop bench.                                      *)
LoopType ==
  /\ level \in DOMAIN LEVELS /\ levels \in Seq(Reports)
  /\ client = <<>> \/ client \in [Clients -> ClientStates]
  /\ stop \in BOOLEAN /\ aborted \in BOOLEAN

(* A client has one completion after stop is set at most: it checks stop      *)
(* before the next query.                                                    *)
LoopInv ==
  /\ bench \in {"barrier", "window", "stopping", "join"} => client \in [Clients -> ClientStates]
  /\ \A i \in DOMAIN client :
       client[i].late = 0 \/ (client[i].late = 1 /\ stop /\ client[i].at \in {"loop", "exited"})

(* The inductive invariant of the closed-loop bench.                         *)
ClosedLoopInv == LoopType /\ LoopInv /\ OvershootIsBounded

(* Each level of the sweep has a number of clients.                          *)
LEMMA LevelSizes ==
  /\ DOMAIN LEVELS = 1..Len(LEVELS) /\ Len(LEVELS) \in Nat \ {0}
  /\ \A l \in DOMAIN LEVELS : LEVELS[l] \in Nat
<1>1. LEVELS \in Seq(Nat \ {0}) /\ LEVELS # <<>>
  BY ClosedLoopAssumption
<1> QED
  BY <1>1

(* The closed-loop bench starts in its invariant.                            *)
LEMMA ClosedLoopStart == ClosedLoopInit => ClosedLoopInv
<1> SUFFICES ASSUME ClosedLoopInit PROVE ClosedLoopInv
  OBVIOUS
<1> USE DEF ClosedLoopInit
<1>1. levels \in Seq(Reports) /\ 1 \in DOMAIN LEVELS
  BY LevelSizes
<1>2. LoopType
  BY <1>1 DEF LoopType
<1>3. LoopInv /\ OvershootIsBounded
  BY DEF LoopInv, OvershootIsBounded
<1> QED
  BY <1>2, <1>3 DEF ClosedLoopInv

(* The total of a field over the clients of a level is a number, at most     *)
(* that of the clients if the field is at most one.                          *)
LEMMA TotalIs ==
  ASSUME NEW N \in Nat, N = LEVELS[level], NEW field, NEW f,
         f = [i \in 1..N |-> client[i][field]], f \in [1..N -> Nat]
  PROVE  /\ TotalOf(field) \in Nat
         /\ (\A i \in 1..N : f[i] <= 1) => TotalOf(field) <= N
<1> DEFINE up[i \in 0..LEVELS[level]] == IF i = 0 THEN 0 ELSE up[i - 1] + client[i][field]
<1>1. TotalOf(field) = up[N]
  BY DEF TotalOf
<1>2. up = CHOOSE g : g = [i \in 0..LEVELS[level] |->
                             IF i = 0 THEN 0 ELSE g[i - 1] + client[i][field]]
  OBVIOUS
<1>3. \A g : [i \in 0..LEVELS[level] |-> IF i = 0 THEN 0 ELSE g[i - 1] + client[i][field]]
             = [i \in 0..N |-> IF i = 0 THEN 0 ELSE g[i - 1] + f[i]]
  <2>1. \A i \in 0..N : i # 0 => f[i] = client[i][field]
    OBVIOUS
  <2> QED
    BY <2>1
<1> HIDE DEF up
<1>4. up = CHOOSE g : g = [i \in 0..N |-> IF i = 0 THEN 0 ELSE g[i - 1] + f[i]]
  BY <1>2, <1>3
<1> QED
  BY <1>1, <1>4, RunningSum

(* Every step of the closed-loop bench keeps its invariant.                  *)
LEMMA ClosedLoopStep == ClosedLoopInv /\ [ClosedLoopNext]_closedLoopVars => ClosedLoopInv'
<1> SUFFICES ASSUME ClosedLoopInv, [ClosedLoopNext]_closedLoopVars PROVE ClosedLoopInv'
  OBVIOUS
<1>0. LoopType /\ LoopInv /\ OvershootIsBounded
  BY DEF ClosedLoopInv
<1>o. ASSUME UNCHANGED levels PROVE OvershootIsBounded'
  BY <1>0, <1>o DEF OvershootIsBounded
<1>1. CASE WarmupFails \/ WarmupOk \/ Straggle
  <2>1. LoopType'
    BY <1>0, <1>1 DEF WarmupFails, WarmupOk, Straggle, LoopType, Clients
  <2>2. LoopInv'
    BY <1>0, <1>1 DEF WarmupFails, WarmupOk, Straggle, LoopInv, Clients
  <2> QED
    BY <1>1, <1>o, <2>1, <2>2 DEF WarmupFails, WarmupOk, Straggle, ClosedLoopInv
<1>2. CASE SkipLevel
  <2> DEFINE r == [n |-> LEVELS[level], completed |-> 0, late |-> 0, aborted |-> TRUE]
  <2>1. r \in Reports /\ r.late <= r.n
    BY <1>0, LevelSizes DEF LoopType, Reports
  <2>2. levels' = Append(levels, r) /\ bench' = "done"
        /\ UNCHANGED <<level, client, stop, aborted>>
    BY <1>2 DEF SkipLevel
  <2> HIDE DEF r
  <2>3. levels' \in Seq(Reports) /\ OvershootIsBounded'
    BY <1>0, <2>1, <2>2 DEF LoopType, OvershootIsBounded
  <2>4. LoopType' /\ LoopInv'
    BY <1>0, <2>2, <2>3 DEF LoopType, LoopInv, Clients
  <2> QED
    BY <2>3, <2>4 DEF ClosedLoopInv
<1>3. CASE StartLevel
  <2>1. client' \in [Clients' -> ClientStates] /\ \A i \in DOMAIN client' : client'[i].late = 0
    BY <1>3 DEF StartLevel, Clients, NewClient, ClientStates
  <2>2. LoopType'
    BY <1>0, <1>3, <2>1 DEF StartLevel, LoopType
  <2>3. LoopInv'
    BY <2>1 DEF LoopInv
  <2> QED
    BY <1>3, <1>o, <2>2, <2>3 DEF StartLevel, ClosedLoopInv
<1>4. ASSUME NEW i \in DOMAIN client, ClientStep(i)
      PROVE  ClosedLoopInv'
  <2>1. client \in [Clients -> ClientStates] /\ i \in Clients /\ client[i] \in ClientStates
    BY <1>0 DEF LoopType
  <2>2. UNCHANGED <<bench, level, stop, aborted, levels>>
    BY <1>4 DEF ClientStep, Connect, ConnectFails, SendQuery, QueryReturns, QueryFails, LeaveLoop
  <2>3. \E c \in ClientStates :
          /\ client' = [client EXCEPT ![i] = c]
          /\ c.late = 0 \/ (c.late = 1 /\ stop /\ c.at \in {"loop", "exited"})
    <3> USE DEF At, ClientStates
    <3>0. client[i].late = 0 \/ (client[i].late = 1 /\ stop /\ client[i].at \in {"loop", "exited"})
      BY <1>0 DEF LoopInv
    <3>1. CASE Connect(i)
      <4> DEFINE c == [client[i] EXCEPT !.at = "ready"]
      <4>1. c \in ClientStates /\ c.late = 0
        BY <2>1, <3>0, <3>1 DEF Connect
      <4>2. client' = [client EXCEPT ![i] = c]
        BY <3>1 DEF Connect
      <4> QED
        BY <4>1, <4>2
    <3>2. CASE ConnectFails(i)
      <4> DEFINE c == [client[i] EXCEPT !.at = "ready_to_exit", !.err = 1]
      <4>1. c \in ClientStates /\ c.late = 0
        BY <2>1, <3>0, <3>2 DEF ConnectFails
      <4>2. client' = [client EXCEPT ![i] = c]
        BY <3>2 DEF ConnectFails
      <4> QED
        BY <4>1, <4>2
    <3>3. CASE SendQuery(i)
      <4> DEFINE c == [client[i] EXCEPT !.at = "query", !.sent = @ + 1]
      <4>1. c \in ClientStates /\ c.late = 0
        BY <2>1, <3>0, <3>3 DEF SendQuery
      <4>2. client' = [client EXCEPT ![i] = c]
        BY <3>3 DEF SendQuery
      <4> QED
        BY <4>1, <4>2
    <3>4. CASE QueryReturns(i)
      <4> DEFINE late == IF stop THEN client[i].late + 1 ELSE client[i].late
                 c == [client[i] EXCEPT !.at = "loop", !.lat = @ + 1, !.late = late]
      <4>1. client[i].late = 0
        BY <3>0, <3>4 DEF QueryReturns
      <4>2. late = 0 \/ (late = 1 /\ stop)
        BY <4>1
      <4>3. client' = [client EXCEPT ![i] = c]
        BY <3>4 DEF QueryReturns
      <4> HIDE DEF late
      <4>4. c \in ClientStates /\ c.late = late /\ c.at = "loop"
        <5>1. client[i].lat + 1 \in Nat /\ late \in Nat
          BY <2>1, <4>2
        <5>2. \A v \in ClientStates, l \in Nat, n \in Nat :
                [v EXCEPT !.at = "loop", !.lat = l, !.late = n] \in ClientStates
          OBVIOUS
        <5>3. c \in ClientStates
          BY <2>1, <5>1, <5>2
        <5> QED
          BY <2>1, <5>3
      <4> QED
        BY <4>2, <4>3, <4>4
    <3>5. CASE QueryFails(i)
      <4> DEFINE at == IF stop THEN "exited" ELSE "loop"
                 c == [client[i] EXCEPT !.at = at, !.err = @ + 1]
      <4>1. client[i].late = 0 /\ at \in {"exited", "loop"}
        BY <3>0, <3>5 DEF QueryFails
      <4>2. client' = [client EXCEPT ![i] = c]
        BY <3>5 DEF QueryFails
      <4> HIDE DEF at
      <4>3. c \in ClientStates /\ c.late = 0
        <5>1. client[i].err + 1 \in Nat
          BY <2>1
        <5>2. \A v \in ClientStates, a \in {"exited", "loop"}, e \in Nat :
                [v EXCEPT !.at = a, !.err = e] \in ClientStates
          OBVIOUS
        <5>3. c \in ClientStates
          BY <2>1, <4>1, <5>1, <5>2
        <5> QED
          BY <2>1, <4>1, <5>3
      <4> QED
        BY <4>2, <4>3
    <3>6. CASE LeaveLoop(i)
      <4> DEFINE c == [client[i] EXCEPT !.at = "exited"]
      <4>1. c \in ClientStates /\ c.late = client[i].late /\ c.at = "exited"
        BY <2>1
      <4>2. client' = [client EXCEPT ![i] = c]
        BY <3>6 DEF LeaveLoop
      <4> HIDE DEF c
      <4> QED
        BY <3>0, <4>1, <4>2
    <3> QED
      BY <1>4, <3>1, <3>2, <3>3, <3>4, <3>5, <3>6 DEF ClientStep
  <2>4. client' \in [Clients' -> ClientStates]
    BY <2>1, <2>2, <2>3 DEF Clients
  <2>5. LoopType'
    BY <1>0, <2>2, <2>4 DEF LoopType
  <2>6. LoopInv'
    BY <1>0, <2>1, <2>2, <2>3, <2>4 DEF LoopInv
  <2> QED
    BY <1>o, <2>2, <2>5, <2>6 DEF ClosedLoopInv
<1>5. CASE PassBarrier
  <2>1. client \in [Clients -> ClientStates]
    BY <1>0, <1>5 DEF PassBarrier, LoopInv
  <2>2. /\ client' = [i \in Clients |->
              [client[i] EXCEPT !.at = IF @ = "ready" THEN "loop" ELSE "exited"]]
        /\ bench' = "window" /\ UNCHANGED <<level, stop, aborted, levels, Clients>>
    BY <1>5 DEF PassBarrier, Clients
  <2>3. ASSUME NEW i \in Clients
        PROVE  /\ client'[i] \in ClientStates /\ client'[i].late = client[i].late
               /\ client'[i].at \in {"loop", "exited"}
    <3> DEFINE at == IF client[i].at = "ready" THEN "loop" ELSE "exited"
    <3>1. at \in {"loop", "exited"} /\ client'[i] = [client[i] EXCEPT !.at = at]
      BY <2>2
    <3> HIDE DEF at
    <3> QED
      BY <2>1, <3>1 DEF ClientStates
  <2>4. client' \in [Clients' -> ClientStates]
    BY <2>2, <2>3
  <2>5. LoopType'
    BY <1>0, <2>2, <2>4 DEF LoopType
  <2>6. LoopInv'
    BY <1>0, <2>1, <2>2, <2>3, <2>4 DEF LoopInv
  <2> QED
    BY <1>o, <2>2, <2>5, <2>6 DEF ClosedLoopInv
<1>6. ASSUME NEW short \in BOOLEAN, EndWindow(short)
      PROVE  ClosedLoopInv'
  <2>1. LoopType'
    BY <1>0, <1>6 DEF EndWindow, LoopType, Clients
  <2>2. LoopInv'
    BY <1>0, <1>6 DEF EndWindow, LoopInv, Clients
  <2> QED
    BY <1>6, <1>o, <2>1, <2>2 DEF EndWindow, ClosedLoopInv
<1>7. CASE SetStop
  <2>1. LoopType'
    BY <1>0, <1>7 DEF SetStop, LoopType, Clients
  <2>2. LoopInv'
    BY <1>0, <1>7 DEF SetStop, LoopInv, Clients
  <2> QED
    BY <1>7, <1>o, <2>1, <2>2 DEF SetStop, ClosedLoopInv
<1>8. CASE ReportLevel
  <2> DEFINE N == LEVELS[level]
             r == [n |-> N, completed |-> TotalOf("lat"), late |-> TotalOf("late"),
                   aborted |-> aborted]
  <2>1. client \in [1..N -> ClientStates] /\ N \in Nat
    BY <1>0, <1>8, LevelSizes DEF ReportLevel, LoopInv, LoopType, Clients
  <2>2. TotalOf("lat") \in Nat
    <3> DEFINE f == [i \in 1..N |-> client[i]["lat"]]
    <3>1. f \in [1..N -> Nat]
      BY <2>1 DEF ClientStates
    <3> QED
      BY <2>1, <3>1, TotalIs
  <2>3. TotalOf("late") \in Nat /\ TotalOf("late") <= N
    <3> DEFINE f == [i \in 1..N |-> client[i]["late"]]
    <3>1. f \in [1..N -> Nat]
      BY <2>1 DEF ClientStates
    <3>2. \A i \in 1..N : f[i] <= 1
      BY <1>0, <2>1 DEF LoopInv
    <3> HIDE DEF N
    <3>3. N = LEVELS[level]
      BY DEF N
    <3> QED
      BY <2>1, <3>1, <3>2, <3>3, TotalIs
  <2>4. r \in Reports /\ r.late <= r.n
    BY <1>0, <2>1, <2>2, <2>3 DEF LoopType, Reports
  <2>5. /\ levels' = Append(levels, r) /\ client' = <<>> /\ UNCHANGED <<stop, aborted>>
        /\ bench' \in {"done", "level"}
        /\ level' = IF aborted \/ level = Len(LEVELS) THEN level ELSE level + 1
    BY <1>8 DEF ReportLevel
  <2> HIDE DEF r
  <2>6. levels' \in Seq(Reports) /\ OvershootIsBounded'
    BY <1>0, <2>4, <2>5 DEF LoopType, OvershootIsBounded
  <2>7. level' \in DOMAIN LEVELS
    BY <1>0, <2>5, LevelSizes DEF LoopType
  <2>8. LoopType' /\ LoopInv'
    BY <1>0, <2>5, <2>6, <2>7 DEF LoopType, LoopInv
  <2> QED
    BY <2>6, <2>8 DEF ClosedLoopInv
<1>9. CASE UNCHANGED closedLoopVars
  <2>1. LoopType' /\ LoopInv'
    BY <1>0, <1>9 DEF closedLoopVars, LoopType, LoopInv, Clients
  <2> QED
    BY <1>9, <1>o, <2>1 DEF closedLoopVars, ClosedLoopInv
<1> QED
  BY <1>1, <1>2, <1>3, <1>4, <1>5, <1>6, <1>7, <1>8, <1>9 DEF ClosedLoopNext

(* Whatever the levels of the sweep and wherever the clients are when stop is *)
(* set, queries that hang included, a level counts at most one completion    *)
(* per client after it in its qps.                                           *)
THEOREM OvershootBounded == ClosedLoopInit /\ [][ClosedLoopNext]_closedLoopVars => []OvershootIsBounded
<1>1. ClosedLoopInv => OvershootIsBounded
  BY DEF ClosedLoopInv
<1> QED
  BY <1>1, ClosedLoopStart, ClosedLoopStep, PTL
-----------------------------------------------------------------------------
(* The survivors among the first events of the corpus are at most those      *)
(* among all, and grow with each event that survives.                        *)
LEMMA SurvivorsStep ==
  ASSUME NEW n \in Nat, n <= corpus_size
  PROVE  /\ SurvivorsIn(n) \in Nat
         /\ SurvivorsIn(n) <= expected_survivors
         /\ n < corpus_size =>
              SurvivorsIn(n + 1) = SurvivorsIn(n) + (IF Survives[n + 1] THEN 1 ELSE 0)
<1> DEFINE Kept(m) == {i \in 1..m : Survives[i]}
<1>0. corpus_size \in Nat
  BY IngestAssumption DEF corpus_size
<1>1. \A m \in Nat : IsFiniteSet(Kept(m)) /\ Cardinality(Kept(m)) \in Nat
  <2> TAKE m \in Nat
  <2>1. IsFiniteSet(1..m)
    BY FS_Interval
  <2> QED
    BY <2>1, FS_Subset, FS_CardinalityType
<1>2. Kept(n) \subseteq Kept(corpus_size)
  BY <1>0
<1>3. ASSUME Survives[n + 1]
      PROVE  Cardinality(Kept(n + 1)) = Cardinality(Kept(n)) + 1
  <2>1. Kept(n + 1) = Kept(n) \cup {n + 1} /\ n + 1 \notin Kept(n)
    BY <1>3
  <2> HIDE DEF Kept
  <2> QED
    BY <1>1, <2>1, FS_AddElement
<1>4. ASSUME ~Survives[n + 1]
      PROVE  Kept(n + 1) = Kept(n)
  BY <1>4
<1>5. Cardinality(Kept(n)) <= Cardinality(Kept(corpus_size))
  BY <1>0, <1>1, <1>2, FS_Subset
<1>6. \A m : SurvivorsIn(m) = Cardinality(Kept(m))
  BY DEF SurvivorsIn
<1> HIDE DEF Kept
<1>7. Survives[n + 1] => SurvivorsIn(n + 1) = SurvivorsIn(n) + 1
  BY <1>3, <1>6
<1>8. ~Survives[n + 1] => SurvivorsIn(n + 1) = SurvivorsIn(n)
  BY <1>4, <1>6
<1>9. SurvivorsIn(n) \in Nat
  BY <1>1, <1>6
<1>10. SurvivorsIn(n) <= expected_survivors
  BY <1>5, <1>6 DEF expected_survivors
<1> QED
  BY <1>7, <1>8, <1>9, <1>10

(* What the poll of a trial remembers.                                       *)
Watches == [last_count : Int, stable_polls : Nat, eof_confirms : Nat, drain_stable : Nat,
            completed : BOOLEAN]

(* What a trial that was accepted had read and written.                      *)
Trials == [survivors : Nat, read : Nat, alone : BOOLEAN]

(* The states of the ingest harness.                                         *)
IngestType ==
  /\ ingestRow \in [kind : {"none", "stdin", "daemon"}, mode : {"none", "file", "discard"},
                    warm : Nat]
  /\ trial \in {"idle", "running", "stopping", "row_done"}
  /\ ingestor \in {"absent", "up", "hung", "crashed", "exited"}
  /\ offset \in Nat /\ read \in Nat /\ buffered \in Nat /\ emitted \in Nat
  /\ worked \in BOOLEAN /\ watch \in Watches
  /\ accepted \in Seq(Trials) /\ crash_retries \in Nat

(* A poll that has not started is in its initial state.                      *)
LEMMA WatchStarts == NotWatching \in Watches
<1>1. -1 \in Int
  BY SMT
<1>2. \A n \in Int : [last_count |-> n, stable_polls |-> 0, eof_confirms |-> 0,
                      drain_stable |-> 0, completed |-> FALSE] \in Watches
  BY DEF Watches
<1> QED
  BY <1>1, <1>2 DEF NotWatching

(* Trials belong to a row.                                                   *)
RowInv ==
  /\ ingestRow.kind = "none" => trial = "idle" /\ accepted = <<>>
  /\ ingestRow.kind # "none" => ingestRow.mode # "none"

(* The engine loses nothing it has read: it is in the buffer or in the       *)
(* output.                                                                   *)
EngineInv ==
  /\ read = offset /\ offset <= corpus_size
  /\ buffered + emitted = SurvivorsIn(offset)
  /\ ingestor = "exited" =>
       ingestRow.kind = "stdin" /\ offset = corpus_size /\ buffered = 0

(* The poll says that a trial is completed only when it is, at the end of    *)
(* the corpus or, in file mode, with all the survivors in the output; or     *)
(* when a daemon has died.                                                   *)
WatchInv ==
  /\ watch.eof_confirms > 0 => offset = corpus_size
  /\ trial = "running" => ~watch.completed
  /\ trial = "stopping" /\ watch.completed /\ ingestor = "crashed" =>
       ingestRow.kind = "daemon"
  /\ trial = "stopping" /\ watch.completed /\ ingestor # "crashed" =>
       /\ ingestRow.kind = "stdin" \/ ingestRow.mode = "discard" => offset = corpus_size
       /\ ingestRow.kind = "stdin" \/ ingestRow.mode = "file" =>
            buffered = 0 /\ emitted = expected_survivors

(* What AcceptedMeansFinished says of one trial.                             *)
SoundTrial(t) ==
  IF t.alone
    THEN ingestRow.kind = "daemon" /\ t.survivors <= SurvivorsIn(t.read)
    ELSE /\ ingestRow.kind = "stdin" \/ ingestRow.mode = "discard" => t.read = corpus_size
         /\ ingestRow.kind = "stdin" \/ ingestRow.mode = "file" =>
              t.survivors = expected_survivors

(* The inductive invariant of the ingest harness.                            *)
IngestInv == IngestType /\ RowInv /\ EngineInv /\ WatchInv /\ AcceptedMeansFinished

(* The ingest harness starts in its invariant.                               *)
LEMMA IngestStart == IngestInit => IngestInv
<1> SUFFICES ASSUME IngestInit PROVE IngestInv
  OBVIOUS
<1> USE DEF IngestInit
<1>0. WARMUP \in Nat
  BY IngestAssumption
<1>1. 0 \in 0..corpus_size
  BY IngestAssumption DEF corpus_size
<1>2. SurvivorsIn(0) = 0
  <2>1. {i \in 1..0 : Survives[i]} = {}
    OBVIOUS
  <2> QED
    BY <2>1, FS_EmptySet DEF SurvivorsIn
<1>3. IngestType
  <2>1. accepted \in Seq(Trials)
    OBVIOUS
  <2> QED
    BY <1>0, <1>1, <2>1, WatchStarts DEF IngestType
<1>4. RowInv /\ EngineInv
  BY <1>1, <1>2 DEF RowInv, EngineInv
<1>5. WatchInv
  BY DEF WatchInv, NotWatching
<1>6. AcceptedMeansFinished
  BY DEF AcceptedMeansFinished
<1> QED
  BY <1>3, <1>4, <1>5, <1>6 DEF IngestInv

(* Every step of the ingest harness keeps its invariant, those of an engine  *)
(* that hangs or crashes included.                                           *)
LEMMA IngestStep == IngestInv /\ [IngestNext]_ingestVars => IngestInv'
<1> SUFFICES ASSUME IngestInv, [IngestNext]_ingestVars PROVE IngestInv'
  OBVIOUS
<1>0. IngestType /\ RowInv /\ EngineInv /\ WatchInv /\ AcceptedMeansFinished
  BY DEF IngestInv
<1>s. corpus_size \in Nat /\ expected_survivors \in Nat
  <2>1. Len(Survives) \in Nat
    BY IngestAssumption
  <2> QED
    BY <2>1, SurvivorsStep DEF corpus_size, expected_survivors
<1>k. ASSUME UNCHANGED <<accepted, ingestRow>> PROVE AcceptedMeansFinished'
  BY <1>0, <1>k DEF AcceptedMeansFinished, corpus_size, expected_survivors, SurvivorsIn
<1>1. ASSUME NEW kind \in {"stdin", "daemon"}, NEW mode \in {"file", "discard"},
             StartRow(kind, mode)
      PROVE  IngestInv'
  <2>1. IngestType'
    BY <1>0, <1>1 DEF StartRow, IngestType, engineVars
  <2>2. RowInv' /\ EngineInv' /\ WatchInv'
    BY <1>0, <1>1 DEF StartRow, IngestType, RowInv, EngineInv, WatchInv, engineVars, SurvivorsIn
  <2>3. AcceptedMeansFinished'
    BY <1>0, <1>1 DEF StartRow, RowInv, AcceptedMeansFinished
  <2> QED
    BY <2>1, <2>2, <2>3 DEF IngestInv
<1>2. CASE StartIngest
  <2>1. IngestType'
    BY <1>0, <1>2, WatchStarts DEF StartIngest, IngestType, rowVars
  <2>2. RowInv' /\ WatchInv'
    BY <1>0, <1>2 DEF StartIngest, IngestType, RowInv, WatchInv, rowVars, NotWatching
  <2>3. EngineInv'
    <3>1. SurvivorsIn(0) = 0
      <4>1. {i \in 1..0 : Survives[i]} = {}
        OBVIOUS
      <4> QED
        BY <4>1, FS_EmptySet DEF SurvivorsIn
    <3> QED
      BY <1>2, <1>s, <3>1 DEF StartIngest, EngineInv, corpus_size
  <2> QED
    BY <1>2, <1>k, <2>1, <2>2, <2>3 DEF IngestInv, StartIngest, rowVars
<1>3. CASE Reads
  <2>1. offset \in 0..corpus_size /\ offset + 1 \in 0..corpus_size
    BY <1>0, <1>3, <1>s DEF Reads, IngestType, EngineInv
  <2>2. /\ SurvivorsIn(offset) \in Nat
        /\ SurvivorsIn(offset + 1) = SurvivorsIn(offset) + (IF Survives[offset + 1] THEN 1 ELSE 0)
    BY <1>3, <2>1, SurvivorsStep DEF Reads
  <2>3. IngestType'
    BY <1>0, <1>3, <2>1 DEF Reads, IngestType, rowVars
  <2>4. RowInv' /\ WatchInv'
    BY <1>0, <1>3, <1>s DEF Reads, EngineUp, IngestType, RowInv, WatchInv, rowVars
  <2>5. EngineInv'
    <3>1. CASE Survives[offset + 1]
      BY <1>0, <1>3, <2>1, <2>2, <3>1 DEF Reads, EngineUp, IngestType, EngineInv, rowVars
    <3>2. CASE ~Survives[offset + 1]
      BY <1>0, <1>3, <2>1, <2>2, <3>2 DEF Reads, EngineUp, IngestType, EngineInv, rowVars
    <3> QED
      BY <3>1, <3>2
  <2> QED
    BY <1>3, <1>k, <2>3, <2>4, <2>5 DEF IngestInv, Reads, rowVars
<1>4. CASE Writes
  <2>1. SurvivorsIn(offset)' = SurvivorsIn(offset)
    BY <1>4 DEF Writes, SurvivorsIn
  <2>3. IngestType'
    BY <1>0, <1>4 DEF Writes, IngestType, rowVars
  <2>4. RowInv' /\ WatchInv' /\ EngineInv'
    BY <1>0, <1>4, <2>1 DEF Writes, EngineUp, IngestType, RowInv, WatchInv, EngineInv, rowVars
  <2> QED
    BY <1>4, <1>k, <2>3, <2>4 DEF IngestInv, Writes, rowVars
<1>5. CASE Exits \/ \E how \in {"hung", "crashed"} : Breaks(how)
  <2>1. IngestType'
    BY <1>0, <1>5 DEF Exits, Breaks, IngestType, rowVars
  <2>2. SurvivorsIn(offset)' = SurvivorsIn(offset)
    BY <1>5 DEF Exits, Breaks, SurvivorsIn
  <2>3. RowInv' /\ EngineInv' /\ WatchInv'
    BY <1>0, <1>5, <2>2 DEF Exits, Breaks, EngineUp, IngestType, RowInv, WatchInv, EngineInv, rowVars
  <2> QED
    BY <1>5, <1>k, <2>1, <2>3 DEF IngestInv, Exits, Breaks, rowVars
<1>6. ASSUME StdinEnds \/ PollSeesExit \/ PollGivesUp
      PROVE  IngestInv'
  <2>1. IngestType'
    BY <1>0, <1>6 DEF StdinEnds, PollSeesExit, PollGivesUp, IngestType, Watches, rowVars, engineVars
  <2>2. SurvivorsIn(offset)' = SurvivorsIn(offset)
    BY <1>6 DEF StdinEnds, PollSeesExit, PollGivesUp, SurvivorsIn, engineVars
  <2>3. RowInv' /\ EngineInv'
    BY <1>0, <1>6, <2>2
    DEF StdinEnds, PollSeesExit, PollGivesUp, Polling, RowInv, EngineInv, rowVars, engineVars
  <2>4. WatchInv'
    <3>1. CASE StdinEnds
      <4>1. ingestor = "exited" => buffered + emitted = expected_survivors
        BY <1>0 DEF EngineInv, expected_survivors
      <4> QED
        BY <1>0, <1>s, <3>1, <4>1
        DEF StdinEnds, IngestType, Watches, EngineInv, WatchInv, rowVars, engineVars
    <3>2. CASE PollSeesExit \/ PollGivesUp
      BY <1>0, <3>2
      DEF PollSeesExit, PollGivesUp, Polling, IngestType, Watches, WatchInv, rowVars, engineVars
    <3> QED
      BY <1>6, <3>1, <3>2
  <2> QED
    BY <1>6, <1>k, <2>1, <2>3, <2>4 DEF IngestInv, StdinEnds, PollSeesExit, PollGivesUp, rowVars
<1>7. ASSUME NEW w, Polled(w), Polling, w \in Watches, ingestor # "crashed",
             w.eof_confirms > 0 => offset = corpus_size,
             w.completed /\ ingestRow.mode = "discard" => offset = corpus_size,
             w.completed /\ ingestRow.mode = "file" => buffered = 0 /\ emitted = expected_survivors
      PROVE  IngestInv'
  <2>1. IngestType'
    <3>1. w.completed \in BOOLEAN
      BY <1>7 DEF Watches
    <3>2. trial' \in {"stopping", "running"}
      BY <1>7 DEF Polled
    <3> QED
      BY <1>0, <1>7, <3>2 DEF Polled, IngestType, rowVars
  <2>2. SurvivorsIn(offset)' = SurvivorsIn(offset)
    BY <1>7 DEF Polled, SurvivorsIn
  <2>3. RowInv' /\ EngineInv'
    BY <1>0, <1>7, <2>2 DEF Polled, Polling, RowInv, EngineInv, rowVars
  <2>4. WatchInv'
    BY <1>0, <1>7 DEF Polled, Polling, WatchInv, IngestType, rowVars, corpus_size,
          expected_survivors, SurvivorsIn
  <2> QED
    BY <1>7, <1>k, <2>1, <2>3, <2>4 DEF IngestInv, Polled, rowVars
<1>8. CASE PollFile
  <2> DEFINE n == IF emitted >= expected_survivors /\ emitted = watch.last_count
                    THEN watch.stable_polls + 1 ELSE 0
             w == [watch EXCEPT !.stable_polls = n, !.last_count = emitted,
                                !.completed = n >= 3]
  <2>1. n \in Nat /\ (n >= 3 => emitted >= expected_survivors)
    BY <1>0 DEF IngestType, Watches
  <2>2. buffered + emitted <= expected_survivors
    BY <1>0, <1>s, SurvivorsStep DEF IngestType, EngineInv
  <2> HIDE DEF n
  <2>3. w \in Watches
    <3>1. \A b \in BOOLEAN : [watch EXCEPT !.stable_polls = n, !.last_count = emitted,
                                           !.completed = b] \in Watches
      <4>1. \A v \in Watches, m \in Nat, c \in Int, b \in BOOLEAN :
              [v EXCEPT !.stable_polls = m, !.last_count = c, !.completed = b] \in Watches
        BY DEF Watches
      <4>2. emitted \in Int /\ watch \in Watches
        BY <1>0 DEF IngestType
      <4> QED
        BY <2>1, <4>1, <4>2
    <3>2. (n >= 3) = TRUE \/ (n >= 3) = FALSE
      OBVIOUS
    <3> QED
      BY <3>1, <3>2
  <2>4. w.eof_confirms = watch.eof_confirms /\ w.completed = (n >= 3)
    BY <1>0 DEF IngestType, Watches
  <2>5. n >= 3 => buffered = 0 /\ emitted = expected_survivors
    BY <1>0, <1>s, <2>1, <2>2 DEF IngestType
  <2>6. Polled(w) /\ Polling /\ ingestor # "crashed" /\ ingestRow.mode = "file"
    BY <1>8 DEF PollFile, n
  <2> HIDE DEF w
  <2> QED
    BY <1>0, <1>7, <2>3, <2>4, <2>5, <2>6 DEF WatchInv
<1>9. ASSUME NEW blank \in BOOLEAN, PollOffset(blank)
      PROVE  IngestInv'
  <2> DEFINE n == IF ~blank /\ offset >= corpus_size THEN watch.eof_confirms + 1 ELSE 0
             w == [watch EXCEPT !.eof_confirms = n]
  <2>1. n \in Nat /\ (n > 0 => offset = corpus_size)
    BY <1>0, <1>s DEF IngestType, EngineInv, Watches
  <2>2. Polled(w) /\ Polling /\ ingestor # "crashed"
    BY <1>9 DEF PollOffset
  <2> HIDE DEF n
  <2>3. w \in Watches /\ w.eof_confirms = n /\ w.completed = watch.completed
    BY <1>0, <2>1 DEF IngestType, Watches
  <2>4. ~watch.completed
    BY <1>0, <2>2 DEF Polling, WatchInv
  <2> HIDE DEF w
  <2> QED
    BY <1>7, <2>1, <2>2, <2>3, <2>4
<1>10. ASSUME NEW settled \in BOOLEAN, PollDrain(settled)
       PROVE  IngestInv'
  <2> DEFINE n == IF settled THEN watch.drain_stable + 1 ELSE 0
             w == [watch EXCEPT !.drain_stable = n, !.completed = n >= 2]
  <2>1. n \in Nat
    BY <1>0 DEF IngestType, Watches
  <2>2. Polled(w) /\ Polling /\ ingestor # "crashed" /\ ingestRow.mode = "discard"
    BY <1>10 DEF PollDrain
  <2> HIDE DEF n
  <2>3. w \in Watches /\ w.eof_confirms = watch.eof_confirms
    <3>1. \A b \in BOOLEAN :
            LET u == [watch EXCEPT !.drain_stable = n, !.completed = b]
            IN  u \in Watches /\ u.eof_confirms = watch.eof_confirms
      BY <1>0, <2>1 DEF IngestType, Watches
    <3>2. (n >= 2) = TRUE \/ (n >= 2) = FALSE
      OBVIOUS
    <3> QED
      BY <3>1, <3>2
  <2>4. offset = corpus_size
    BY <1>0, <1>10 DEF PollDrain, WatchInv
  <2> HIDE DEF w
  <2> QED
    BY <1>7, <2>2, <2>3, <2>4
<1>11. CASE EndTrial
  <2>1. IngestInv' = IngestInv'
    OBVIOUS
  <2>2. SurvivorsIn(offset)' = SurvivorsIn(offset)
    BY <1>11 DEF EndTrial, SurvivorsIn
  <2>3. CASE ingestRow.warm > 0
    <3>1. IngestType'
      BY <1>0, <1>11, <2>3 DEF EndTrial, IngestType
    <3>2. RowInv' /\ EngineInv' /\ WatchInv' /\ AcceptedMeansFinished'
      BY <1>0, <1>11, <2>2, <2>3 DEF EndTrial, IngestType, RowInv, EngineInv, WatchInv,
         AcceptedMeansFinished, corpus_size, expected_survivors, SurvivorsIn
    <3> QED
      BY <3>1, <3>2 DEF IngestInv
  <2>4. CASE ~(ingestRow.warm > 0)
    <3>0. /\ UNCHANGED ingestRow /\ ingestor' = "absent" /\ ingestRow.kind # "none"
          /\ trial' \in {"idle", "row_done"}
          /\ UNCHANGED <<offset, read, buffered, emitted, worked, watch>>
      BY <1>0, <1>11, <2>4 DEF EndTrial, RowInv
    <3>1. EngineInv' /\ WatchInv' /\ RowInv'
      BY <1>0, <2>2, <3>0 DEF EngineInv, WatchInv, RowInv
    <3>2. CASE ~watch.completed
      <4>1. UNCHANGED accepted /\ crash_retries' = crash_retries + 1
        BY <1>11, <2>4, <3>2 DEF EndTrial
      <4>2. IngestType'
        BY <1>0, <3>0, <4>1 DEF IngestType
      <4> QED
        BY <1>k, <3>0, <3>1, <4>1, <4>2 DEF IngestInv
    <3>3. CASE watch.completed
      <4>1. PICK flushed \in 0..(IF ingestor = "up" THEN buffered ELSE 0) :
              accepted' = Append(accepted, Result(emitted + flushed))
        BY <1>11, <2>4, <3>3 DEF EndTrial
      <4>2. flushed \in 0..buffered /\ (buffered = 0 => flushed = 0) /\ emitted + flushed \in Nat
        BY <1>0, <4>1 DEF IngestType
      <4> DEFINE r == Result(emitted + flushed)
      <4>3. r \in Trials /\ r.read = offset /\ r.survivors = emitted + flushed
            /\ r.alone = (ingestor = "crashed")
        BY <1>0, <4>2 DEF IngestType, Trials, Result, EngineInv
      <4>4. SoundTrial(r)
        <5>1. CASE ingestor = "crashed"
          <6>1. ingestRow.kind = "daemon" /\ flushed = 0
            BY <1>0, <1>11, <3>3, <4>1, <5>1 DEF EndTrial, WatchInv, IngestType
          <6>2. emitted <= SurvivorsIn(offset)
            BY <1>0 DEF IngestType, EngineInv
          <6>3. r.survivors = emitted
            BY <1>0, <4>3, <6>1 DEF IngestType
          <6> HIDE DEF r
          <6> QED
            BY <4>3, <5>1, <6>1, <6>2, <6>3 DEF SoundTrial
        <5>2. CASE ingestor # "crashed"
          <6>1. /\ ingestRow.kind = "stdin" \/ ingestRow.mode = "discard" =>
                     r.read = corpus_size
                /\ ingestRow.kind = "stdin" \/ ingestRow.mode = "file" =>
                     r.survivors = expected_survivors
            BY <1>0, <1>11, <3>3, <4>2, <4>3, <5>2 DEF EndTrial, WatchInv, IngestType
          <6> HIDE DEF r
          <6> QED
            BY <4>3, <5>2, <6>1 DEF SoundTrial
        <5> QED
          BY <5>1, <5>2
      <4> HIDE DEF r
      <4>5. IngestType'
        <5>1. UNCHANGED crash_retries
          BY <1>11, <2>4, <3>3 DEF EndTrial
        <5>2. accepted' \in Seq(Trials)
          BY <1>0, <4>1, <4>3 DEF IngestType, r
        <5> QED
          BY <1>0, <3>0, <5>1, <5>2 DEF IngestType
      <4>6. AcceptedMeansFinished'
        <5>1. /\ DOMAIN accepted' = 1..(Len(accepted) + 1)
              /\ \A i \in 1..Len(accepted) : accepted'[i] = accepted[i]
              /\ accepted'[Len(accepted) + 1] = r
          BY <1>0, <4>1, <4>3 DEF IngestType, r
        <5>2. DOMAIN accepted = 1..Len(accepted) /\ Len(accepted) \in Nat
          BY <1>0 DEF IngestType
        <5>3. ASSUME NEW i \in 1..Len(accepted) PROVE SoundTrial(accepted[i])
          BY <1>0, <5>2, <5>3 DEF AcceptedMeansFinished, SoundTrial
        <5>4. \A i \in 1..(Len(accepted) + 1) : SoundTrial(accepted'[i])
          <6>1. \A i \in 1..(Len(accepted) + 1) : i \in 1..Len(accepted) \/ i = Len(accepted) + 1
            BY <5>2
          <6> QED
            BY <4>4, <5>1, <5>3, <6>1
        <5> QED
          BY <3>0, <5>1, <5>4
          DEF AcceptedMeansFinished, SoundTrial, corpus_size, expected_survivors, SurvivorsIn
      <4> QED
        BY <3>1, <4>5, <4>6 DEF IngestInv
    <3> QED
      BY <3>2, <3>3
  <2> QED
    BY <2>3, <2>4
<1>12. CASE UNCHANGED ingestVars
  BY <1>0, <1>12 DEF ingestVars, IngestInv, IngestType, RowInv, EngineInv, WatchInv,
     AcceptedMeansFinished, corpus_size, expected_survivors, SurvivorsIn
<1> QED
  BY <1>1, <1>2, <1>3, <1>4, <1>5, <1>6, <1>8, <1>9, <1>10, <1>11, <1>12 DEF IngestNext

(* Whatever the corpus and the numbers of trials, warm-ups and retries, and  *)
(* wherever the engine hangs or crashes: an accepted trial whose engine did  *)
(* not die has read the corpus to its end and written every survivor once, a *)
(* tailing daemon as much of the two as its mode lets the harness see; and   *)
(* one whose engine died is that of a daemon, of which the harness knows no  *)
(* more than that it wrote no survivor twice.                                *)
THEOREM TrialsFinish == IngestInit /\ [][IngestNext]_ingestVars => []AcceptedMeansFinished
<1>1. IngestInv => AcceptedMeansFinished
  BY DEF IngestInv
<1> QED
  BY <1>1, IngestStart, IngestStep, PTL
-----------------------------------------------------------------------------
(* What an engine says in a cell of the matrix.                              *)
MatrixAnswers == {"truth", "less", "error"}

(* The states of the engine matrix.                                          *)
MatrixType ==
  /\ turn \in Nat \ {0} /\ turn <= Len(Servers) + 1
  /\ parquet_engines \in Seq(STRING) /\ started \in Seq(STRING)
  /\ stopped \in Nat /\ stopped <= Len(started)
  /\ results \in Seq([engines -> MatrixAnswers])

(* Why the container of a server may be there: docker did not remove it, it  *)
(* is still to be stopped, or its turn was never over.                       *)
Explained(s) ==
  \/ s \in kept
  \/ \E i \in (stopped + 1)..Len(started) : s = started[i]
  \/ \E i \in turn..Len(Servers) : s = Servers[i]

(* The servers whose turn is over were started or have failed, those that    *)
(* failed have been stopped, and nothing is asked before the last turn.      *)
MatrixInv ==
  /\ matrixPc \in {"construct", "start", "discard"} => results = <<>>
  /\ matrixPc \in {"start", "discard"} => turn <= Len(Servers)
  /\ matrixPc = "discard" => server \in startup_errors
  /\ matrixPc = "matrix" \/ results # <<>> => turn > Len(Servers)
  /\ matrixPc \notin {"closing", "over"} => stopped = 0
  /\ {Servers[i] : i \in 1..(turn - 1)} \subseteq startup_errors \cup ToSet(started)
  /\ startup_errors \cup ToSet(started) \subseteq ToSet(Servers)
  /\ \A s \in containers : Explained(s)

(* The engine matrix starts in its invariant.                                *)
LEMMA MatrixStart == MatrixInit => MatrixType /\ MatrixInv
<1> SUFFICES ASSUME MatrixInit PROVE MatrixType /\ MatrixInv
  OBVIOUS
<1> USE DEF MatrixInit
<1>1. Readers \in Seq(STRING) /\ Len(Servers) \in Nat
  BY MatrixAssumption
<1>2. results \in Seq([engines -> MatrixAnswers])
  OBVIOUS
<1>3. MatrixType
  BY <1>1, <1>2 DEF MatrixType
<1>4. 1..(turn - 1) = {} /\ startup_errors \cup ToSet(started) = {}
  BY DEF ToSet
<1>5. ASSUME NEW s \in containers PROVE Explained(s)
  <2>1. s \in ToSet(Servers)
    OBVIOUS
  <2>2. \E i \in 1..Len(Servers) : s = Servers[i]
    BY <2>1, MatrixAssumption DEF ToSet
  <2> QED
    BY <2>2 DEF Explained
<1> QED
  BY <1>1, <1>3, <1>4, <1>5 DEF MatrixInv

(* Every step of the engine matrix keeps its invariant, those that raise, a  *)
(* docker that removes nothing and the interrupts included.                  *)
LEMMA MatrixStep ==
  MatrixType /\ MatrixInv /\ [MatrixNext]_matrixVars => MatrixType' /\ MatrixInv'
<1> SUFFICES ASSUME MatrixType, MatrixInv, [MatrixNext]_matrixVars
             PROVE  MatrixType' /\ MatrixInv'
  OBVIOUS
<1>a. /\ Len(Servers) \in Nat /\ \A i \in 1..Len(Servers) : Servers[i] \in STRING
      /\ DOMAIN Servers = 1..Len(Servers) /\ Cells \in Nat \ {0}
  BY MatrixAssumption
<1>t. /\ turn \in Nat \ {0} /\ turn <= Len(Servers) + 1 /\ turn - 1 \in Nat
      /\ started \in Seq(STRING) /\ Len(started) \in Nat /\ stopped \in Nat
      /\ DOMAIN started = 1..Len(started) /\ stopped <= Len(started)
  BY <1>a DEF MatrixType
<1>s. matrixPc \in {"start", "discard"} =>
        /\ turn <= Len(Servers) /\ server \in STRING /\ server \in ToSet(Servers)
        /\ Explained(server)
  BY <1>a, <1>t DEF MatrixInv, server, ToSet, Explained
<1>q. ASSUME UNCHANGED <<turn, parquet_engines, started, stopped, results>> PROVE MatrixType'
  BY <1>q DEF MatrixType, engines
<1>e. ASSUME UNCHANGED <<turn, started, stopped, kept>>, NEW s, Explained(s)
      PROVE  Explained(s)'
  BY <1>e DEF Explained
<1>1. CASE Construct
  <2>1. MatrixType'
    BY <1>1, <1>q DEF Construct, startVars
  <2>2. \A s \in containers' : Explained(s)'
    BY <1>1, <1>e DEF Construct, startVars, MatrixInv
  <2>3. MatrixInv'
    BY <1>1, <2>2 DEF Construct, startVars, MatrixInv
  <2> QED
    BY <2>1, <2>3
<1>2. CASE NoImage \/ StartMatrix \/ Interrupt \/ Close \/ MatrixDone
  <2> USE DEF NoImage, StartMatrix, Interrupt, Close, MatrixDone, startVars
  <2>1. MatrixType'
    BY <1>2, <1>q
  <2>2. /\ matrixPc' \in {"matrix", "closing", "over"}
        /\ matrixPc' = "matrix" => matrixPc = "construct" /\ turn > Len(Servers)
        /\ UNCHANGED <<turn, started, stopped, kept, startup_errors, results>>
    BY <1>2
  <2>3. \A s \in containers' : s \in containers \/ (matrixPc = "start" /\ s = server)
    <3>1. containers' \in MayHaveRun => containers' \subseteq containers \cup {server}
      BY DEF MayHaveRun
    <3>2. CASE Interrupt
      <4>1. \/ containers' = containers
            \/ matrixPc = "start" /\ containers' \in MayHaveRun
            \/ containers' = containers \ {server}
        BY <3>2
      <4> QED
        BY <3>1, <4>1
    <3>3. CASE ~Interrupt
      BY <1>2, <3>3
    <3> QED
      BY <3>2, <3>3
  <2>4. \A s \in containers' : Explained(s)'
    BY <1>s, <1>e, <2>2, <2>3 DEF MatrixInv
  <2>5. MatrixInv'
    BY <2>2, <2>4 DEF MatrixInv
  <2> QED
    BY <2>1, <2>5
<1>3. CASE StepOk
  <2>1. MatrixType'
    BY <1>3, <1>q DEF StepOk, startVars
  <2>2. \A s \in containers' : Explained(s)'
    BY <1>3, <1>s, <1>e DEF StepOk, startVars, MatrixInv
  <2>3. MatrixInv'
    BY <1>3, <2>2 DEF StepOk, startVars, MatrixInv
  <2> QED
    BY <2>1, <2>3
<1>4. CASE StepFails
  <2>1. MatrixType'
    BY <1>4, <1>q DEF StepFails
  <2>2. \A s \in containers' : s \in containers \/ s = server
    BY <1>4 DEF StepFails, MayHaveRun
  <2>3. /\ matrixPc = "start" /\ matrixPc' = "discard"
        /\ startup_errors' = startup_errors \cup {server} /\ server' = server
        /\ UNCHANGED <<turn, started, stopped, kept, results>>
    BY <1>4 DEF StepFails, server
  <2>4. \A s \in containers' : Explained(s)'
    BY <1>s, <1>e, <2>2, <2>3 DEF MatrixInv
  <2>5. MatrixInv'
    BY <1>s, <2>3, <2>4 DEF MatrixInv
  <2> QED
    BY <2>1, <2>5
<1>5. CASE Discard \/ Register
  <2>1. /\ matrixPc \in {"start", "discard"} /\ matrixPc' = "construct" /\ turn' = turn + 1
        /\ results = <<>> /\ UNCHANGED <<results, stopped>> /\ stopped = 0
    BY <1>5 DEF Discard, Register, startVars, MatrixInv
  <2>2. /\ parquet_engines' \in Seq(STRING) /\ started' \in Seq(STRING)
        /\ Len(started') >= Len(started)
        /\ \A i \in 1..Len(started) : started'[i] = started[i]
    <3>1. CASE Discard
      BY <1>t, <3>1 DEF Discard, startVars, MatrixType
    <3>2. CASE Register
      <4>1. /\ parquet_engines' = Append(parquet_engines, server)
            /\ started' = Append(started, server)
        BY <3>2 DEF Register
      <4> QED
        BY <1>s, <1>t, <2>1, <4>1 DEF MatrixType
    <3> QED
      BY <1>5, <3>1, <3>2
  <2>3. MatrixType'
    <3>1. results' \in Seq([engines -> MatrixAnswers]')
      BY <2>1
    <3>2. turn' \in Nat \ {0} /\ turn' <= Len(Servers) + 1
      BY <1>a, <1>s, <1>t, <2>1
    <3>3. stopped' \in Nat /\ stopped' <= Len(started')
      BY <1>t, <2>1, <2>2
    <3> QED
      BY <2>2, <3>1, <3>2, <3>3 DEF MatrixType
  <2>4. /\ startup_errors' \cup ToSet(started') = startup_errors \cup ToSet(started) \cup {server}
    <3>1. CASE Discard
      BY <3>1 DEF Discard, startVars, MatrixInv
    <3>2. CASE Register
      <4>1. started' = Append(started, server) /\ startup_errors' = startup_errors
        BY <3>2 DEF Register
      <4>2. /\ Len(started') = Len(started) + 1 /\ started'[Len(started) + 1] = server
            /\ DOMAIN started' = 1..(Len(started) + 1)
        BY <1>s, <1>t, <2>1, <4>1
      <4>3. ToSet(started') = ToSet(started) \cup {server}
        <5>1. \A i \in DOMAIN started' : i \in DOMAIN started \/ i = Len(started) + 1
          BY <1>t, <4>2
        <5>2. \A i \in DOMAIN started : i \in DOMAIN started' /\ started'[i] = started[i]
          BY <1>t, <2>2, <4>2
        <5>3. Len(started) + 1 \in DOMAIN started'
          BY <1>t, <4>2
        <5> QED
          BY <4>2, <5>1, <5>2, <5>3 DEF ToSet
      <4> QED
        BY <4>1, <4>3
    <3> QED
      BY <1>5, <3>1, <3>2
  <2>5. 1..(turn' - 1) = (1..(turn - 1)) \cup {turn}
    BY <1>t, <2>1
  <2>6. {Servers[i] : i \in 1..(turn' - 1)} \subseteq startup_errors' \cup ToSet(started')
    BY <2>4, <2>5 DEF MatrixInv, server
  <2>7. startup_errors' \cup ToSet(started') \subseteq ToSet(Servers)
    BY <1>s, <2>1, <2>4 DEF MatrixInv
  <2>8. ASSUME NEW s \in containers' PROVE Explained(s)'
    <3>1. s \in containers /\ (s = server => Register \/ s \in kept')
      BY <1>5, <2>8 DEF Discard, Register, StopsContainer
    <3>2. Explained(s)
      BY <3>1 DEF MatrixInv
    <3>3. CASE s \in kept
      BY <1>5, <3>3 DEF Discard, Register, StopsContainer, Explained
    <3>4. CASE \E i \in (stopped + 1)..Len(started) : s = started[i]
      <4>1. PICK i \in (stopped + 1)..Len(started) : s = started[i]
        BY <3>4
      <4>2. Len(started') \in Nat
        BY <2>2
      <4>3. i \in (stopped' + 1)..Len(started') /\ s = started'[i]
        BY <1>t, <2>1, <2>2, <4>1, <4>2
      <4> QED
        BY <4>3 DEF Explained
    <3>5. CASE \E i \in turn..Len(Servers) : s = Servers[i]
      <4>1. PICK i \in turn..Len(Servers) : s = Servers[i]
        BY <3>5
      <4>2. CASE i # turn
        <5>1. i \in turn'..Len(Servers)
          BY <1>a, <1>t, <2>1, <4>2
        <5> QED
          BY <4>1, <5>1 DEF Explained
      <4>3. CASE s = server /\ Register
        <5>1. started' = Append(started, server)
          BY <4>3 DEF Register
        <5>2. /\ Len(started') = Len(started) + 1 /\ started'[Len(started) + 1] = server
          BY <1>s, <1>t, <2>1, <5>1
        <5>3. Len(started) + 1 \in (stopped' + 1)..Len(started')
          BY <1>t, <2>1, <5>2
        <5> QED
          BY <4>3, <5>2, <5>3 DEF Explained
      <4>4. CASE s \in kept'
        BY <4>4 DEF Explained
      <4> QED
        BY <3>1, <4>1, <4>2, <4>3, <4>4 DEF server
    <3> QED
      BY <3>2, <3>3, <3>4, <3>5 DEF Explained
  <2>9. MatrixInv'
    BY <2>1, <2>6, <2>7, <2>8 DEF MatrixInv
  <2> QED
    BY <2>3, <2>9
<1>6. CASE Cell
  <2>1. PICK answers \in [engines -> MatrixAnswers] : results' = Append(results, answers)
    BY <1>6 DEF Cell, MatrixAnswers
  <2>2. UNCHANGED <<matrixPc, turn, containers, kept, parquet_engines, started, stopped,
                    startup_errors>>
        /\ matrixPc = "matrix" /\ UNCHANGED engines
    BY <1>6 DEF Cell, engines
  <2>3. results' \in Seq([engines -> MatrixAnswers])
    BY <2>1 DEF MatrixType
  <2>4. MatrixType'
    BY <2>2, <2>3 DEF MatrixType
  <2>5. \A s \in containers' : Explained(s)'
    BY <1>e, <2>2 DEF MatrixInv
  <2>6. MatrixInv'
    BY <2>2, <2>5 DEF MatrixInv
  <2> QED
    BY <2>4, <2>6
<1>7. CASE Stop
  <2>1. /\ matrixPc = "closing" /\ stopped < Len(started) /\ stopped' = stopped + 1
        /\ UNCHANGED <<matrixPc, turn, parquet_engines, started, startup_errors, results>>
    BY <1>7 DEF Stop, startVars
  <2>2. MatrixType'
    <3>1. stopped' \in Nat /\ stopped' <= Len(started')
      BY <1>t, <2>1
    <3> QED
      BY <2>1, <3>1 DEF MatrixType, engines
  <2>3. ASSUME NEW s \in containers' PROVE Explained(s)'
    <3>1. /\ s \in containers /\ kept \subseteq kept'
          /\ s = started[stopped + 1] => s \in kept'
      BY <1>7, <2>3 DEF Stop, StopsContainer
    <3>2. Explained(s)
      BY <3>1 DEF MatrixInv
    <3>3. CASE \E i \in (stopped + 1)..Len(started) : s = started[i]
      <4>1. PICK i \in (stopped + 1)..Len(started) : s = started[i]
        BY <3>3
      <4>2. i = stopped + 1 \/ i \in (stopped' + 1)..Len(started')
        BY <1>t, <2>1, <4>1
      <4> QED
        BY <2>1, <3>1, <4>1, <4>2 DEF Explained
    <3> QED
      BY <2>1, <3>1, <3>2, <3>3 DEF Explained
  <2>4. MatrixInv'
    BY <2>1, <2>3 DEF MatrixInv
  <2> QED
    BY <2>2, <2>4
<1>8. CASE CutTeardown \/ UNCHANGED matrixVars
  <2>1. /\ UNCHANGED <<turn, parquet_engines, started, stopped, kept, startup_errors, results>>
        /\ \A s \in containers' : s \in containers
        /\ UNCHANGED matrixPc \/ matrixPc' = "over"
    BY <1>8 DEF CutTeardown, startVars, matrixVars
  <2>2. MatrixType'
    BY <1>q, <2>1
  <2>3. \A s \in containers' : Explained(s)'
    BY <1>e, <2>1 DEF MatrixInv
  <2>4. MatrixInv'
    BY <2>1, <2>3 DEF MatrixInv, server
  <2> QED
    BY <2>2, <2>4
<1> QED
  BY <1>1, <1>2, <1>3, <1>4, <1>5, <1>6, <1>7, <1>8 DEF MatrixNext

(* The arithmetic of one cell: what the votes say where more engines give the  *)
(* truth than a wrong count.                                                *)
LEMMA MajorityOfCell ==
  ASSUME MatrixType, NEW answers \in [engines -> MatrixAnswers],
         Tally(answers, "less") < Tally(answers, "truth")
  PROVE  /\ consensus(answers) = "truth"
         /\ ~ambiguous(answers)
         /\ unanimous(answers) <=> \A i \in votes(answers) : vote(answers, i) # "less"
<1> DEFINE V == votes(answers)
           T == {i \in V : vote(answers, i) = "truth"}
           L == {i \in V : vote(answers, i) = "less"}
<1>1. V \subseteq Nat /\ IsFiniteSet(V)
  <2>1. Len(parquet_engines) \in Nat /\ DOMAIN parquet_engines = 1..Len(parquet_engines)
    BY DEF MatrixType
  <2>2. V \subseteq 1..Len(parquet_engines)
    BY <2>1 DEF votes
  <2>3. IsFiniteSet(1..Len(parquet_engines))
    BY <2>1, FS_Interval
  <2> HIDE DEF V
  <2>4. V \in SUBSET (1..Len(parquet_engines)) /\ V \subseteq Nat
    BY <2>1, <2>2
  <2>5. IsFiniteSet(V)
    BY <2>3, <2>4, FS_Subset
  <2> QED
    BY <2>4, <2>5
<1>2. V = T \cup L
  <2>1. \A i \in DOMAIN parquet_engines : parquet_engines[i] \in engines
    BY DEF engines, ToSet
  <2>2. \A i \in V : vote(answers, i) \in {"truth", "less"}
    BY <2>1 DEF votes, vote, MatrixAnswers
  <2> QED
    BY <2>2
<1>3. /\ IsFiniteSet(T) /\ IsFiniteSet(L) /\ T \cap L = {}
      /\ Cardinality(T) \in Nat /\ Cardinality(L) \in Nat
  <2>1. T \subseteq V /\ L \subseteq V /\ T \cap L = {}
    OBVIOUS
  <2> HIDE DEF T, L, V
  <2> QED
    BY <1>1, <2>1, FS_Subset, FS_CardinalityType
<1>4. /\ Tally(answers, "truth") = Cardinality(T) /\ Tally(answers, "less") = Cardinality(L)
      /\ \A i \in T : vote(answers, i) = "truth"
      /\ \A i \in L : vote(answers, i) = "less"
  BY DEF Tally
<1>5. Cardinality(V) = Cardinality(T) + Cardinality(L)
  <2> HIDE DEF T, L, V
  <2>1. Cardinality(T \cap L) = 0
    BY <1>3, FS_EmptySet
  <2>2. Cardinality(T \cup L) = Cardinality(T) + Cardinality(L) - Cardinality(T \cap L)
    BY <1>3, FS_Union
  <2> QED
    BY <1>2, <1>3, <2>1, <2>2
<1>6. PICK t \in T : TRUE
  <2> HIDE DEF T, L, V
  <2>1. Cardinality(T) # 0
    BY <1>3, <1>4
  <2> QED
    BY <1>3, <2>1, FS_EmptySet
<1> DEFINE most == {i \in V : \A j \in V :
                      Tally(answers, vote(answers, j)) <= Tally(answers, vote(answers, i))}
<1>7. most # {} /\ most \subseteq T
  <2> HIDE DEF T, L, V
  <2>1. t \in most
    <3>1. ASSUME NEW j \in V
          PROVE  Tally(answers, vote(answers, j)) <= Tally(answers, vote(answers, t))
      <4>1. CASE j \in T
        BY <1>3, <1>4, <4>1
      <4>2. CASE j \in L
        BY <1>3, <1>4, <4>2
      <4> QED
        BY <1>2, <4>1, <4>2
    <3> QED
      BY <1>2, <3>1
  <2>2. ASSUME NEW i \in most PROVE i \notin L
    <3>1. t \in V
      BY <1>2
    <3>2. Tally(answers, vote(answers, t)) <= Tally(answers, vote(answers, i))
      BY <3>1
    <3> QED
      BY <1>3, <1>4, <3>2
  <2> QED
    BY <1>2, <2>1, <2>2
<1>8. consensus(answers) = "truth"
  <2>1. consensus(answers) = IF V = {} THEN "none" ELSE vote(answers, Min(most))
    BY DEF consensus
  <2>2. Min(most) \in T /\ V # {}
    <3>1. most \subseteq Nat
      BY <1>1
    <3> HIDE DEF T, L, V, most
    <3>2. Min(most) \in most
      BY <1>7, <3>1, MinIn
    <3> QED
      BY <1>2, <1>7, <3>2
  <2> HIDE DEF T, L, V, most
  <2> QED
    BY <1>4, <2>1, <2>2
<1>9. ~ambiguous(answers)
  <2>1. ambiguous(answers) => 2 * Tally(answers, "truth") <= Cardinality(V)
    BY <1>8 DEF ambiguous
  <2> HIDE DEF T, L, V
  <2> QED
    BY <1>3, <1>4, <1>5, <2>1
<1>10. unanimous(answers) <=> L = {}
  <2>1. unanimous(answers) <=> \A i, j \in V : vote(answers, i) = vote(answers, j)
    BY DEF unanimous
  <2> HIDE DEF T, L, V
  <2> QED
    BY <1>2, <1>4, <1>6, <2>1
<1> QED
  BY <1>8, <1>9, <1>10

(* With the arithmetic of each cell, the engines found to fail are those     *)
(* that the truth finds.                                                     *)
LEMMA MatrixFinds == MatrixType => MajorityFindsFailers
<1> SUFFICES ASSUME MatrixType,
                    \A i \in DOMAIN results :
                      Tally(results[i], "less") < Tally(results[i], "truth")
             PROVE  /\ failers = {e \in ToSet(parquet_engines) : \E i \in DOMAIN results :
                                    results[i][e] \notin {"error", consensus(results[i])}}
                    /\ catches <=> failers # {}
  BY DEF MajorityFindsFailers
<1>1. ASSUME NEW i \in DOMAIN results
      PROVE  results[i] \in [engines -> MatrixAnswers]
  BY <1>1 DEF MatrixType
<1>2. ASSUME NEW i \in DOMAIN results
      PROVE  /\ consensus(results[i]) = "truth" /\ ~ambiguous(results[i])
             /\ unanimous(results[i]) <=>
                  \A j \in votes(results[i]) : vote(results[i], j) # "less"
  BY <1>1, <1>2, MajorityOfCell
<1>3. \A e \in ToSet(parquet_engines) : e \in engines
  BY DEF engines
<1>4. ASSUME NEW i \in DOMAIN results, NEW e \in ToSet(parquet_engines)
      PROVE  results[i][e] = "less" <=> results[i][e] \notin {"error", consensus(results[i])}
  <2>1. results[i][e] \in MatrixAnswers
    BY <1>1, <1>3
  <2> QED
    BY <1>2, <2>1 DEF MatrixAnswers
<1>5. ~any_amb
  BY <1>2 DEF any_amb
<1>6. any_div <=> failers # {}
  <2>1. ASSUME NEW i \in DOMAIN results, ~unanimous(results[i])
        PROVE  failers # {}
    <3>1. PICK j \in votes(results[i]) : vote(results[i], j) = "less"
      BY <1>2, <2>1
    <3>2. results[i][parquet_engines[j]] = "less" /\ parquet_engines[j] \in ToSet(parquet_engines)
      BY <3>1 DEF votes, vote, ToSet
    <3> QED
      BY <3>2 DEF failers
  <2>2. ASSUME NEW e \in failers
        PROVE  any_div
    <3>1. PICK i \in DOMAIN results : results[i][e] = "less"
      BY <2>2 DEF failers
    <3>2. PICK j \in DOMAIN parquet_engines : parquet_engines[j] = e
      BY <2>2 DEF failers, ToSet
    <3>3. j \in votes(results[i]) /\ vote(results[i], j) = "less"
      BY <3>1, <3>2 DEF votes, vote
    <3> QED
      BY <1>2, <3>3 DEF any_div
  <2> QED
    BY <2>1, <2>2 DEF any_div
<1>7. failers = {e \in ToSet(parquet_engines) : \E i \in DOMAIN results :
                   results[i][e] \notin {"error", consensus(results[i])}}
  BY <1>4 DEF failers
<1> QED
  BY <1>5, <1>6, <1>7 DEF catches

(* For every list of servers, whatever step raises and wherever an interrupt *)
(* comes, the teardown included, a container is left only for a reason: it   *)
(* was not removed when asked, not reached, or of a server whose turn was    *)
(* not over; a reported matrix has every server started or unavailable; and  *)
(* where in each cell the right answers outnumber the wrong ones the         *)
(* comparison without a generator finds exactly the engines the truth finds. *)
THEOREM MatrixHolds == MatrixInit /\ [][MatrixNext]_matrixVars => []Matrix
<1>1. MatrixType /\ MatrixInv => Matrix
  <2> SUFFICES ASSUME MatrixType, MatrixInv PROVE Matrix
    OBVIOUS
  <2>1. \A s \in containers : Explained(s)
    BY DEF MatrixInv
  <2>2. ASSUME MatrixReported PROVE ToSet(Servers) = startup_errors \cup ToSet(started)
    <3>1. results # <<>> /\ Len(Servers) \in Nat /\ DOMAIN Servers = 1..Len(Servers)
      BY <2>2, MatrixAssumption DEF MatrixReported
    <3>2. turn - 1 = Len(Servers)
      BY <3>1 DEF MatrixInv, MatrixType
    <3>3. ToSet(Servers) = {Servers[i] : i \in 1..(turn - 1)}
      BY <3>1, <3>2 DEF ToSet
    <3> QED
      BY <3>3 DEF MatrixInv
  <2>3. TornDown
    BY <2>1, <2>2 DEF Explained, TornDown
  <2> QED
    BY <2>3, MatrixFinds DEF Matrix
<1> QED
  BY <1>1, MatrixStart, MatrixStep, PTL
-----------------------------------------------------------------------------
(* A writer of the contention trial.                                         *)
Row == [at : {"load", "try", "retry"}, ci : Nat \ {0}, attempt : Nat \ {0},
        loaded : Nat, retries : Nat, errors : Nat]

(* The states of the contention trial.                                       *)
ContentionType ==
  /\ engine \in {"none", "ducklake", "iceberg"}
  /\ writer \in [Writers -> Row]
  /\ stored \in [Batches -> Nat]
  /\ version \in Nat /\ lateErrors \in Nat /\ faults \in Nat

(* The updates that the actions make leave a row a row.                      *)
LEMMA RowUpdates ==
  ASSUME NEW r \in Row, NEW n \in Nat
  PROVE  /\ [r EXCEPT !.at = "try", !.loaded = n] \in Row
         /\ [r EXCEPT !.ci = r.ci + 1, !.attempt = 1, !.loaded = n] \in Row
         /\ [r EXCEPT !.retries = r.retries + 1, !.at = "retry"] \in Row
         /\ [r EXCEPT !.at = "try", !.attempt = r.attempt + 1] \in Row
         /\ [r EXCEPT !.at = "try", !.attempt = 1, !.ci = r.ci + 1, !.errors = r.errors + 1]
              \in Row
         /\ [r EXCEPT !.loaded = n] \in Row
<1>1. \A v \in Row, m \in Nat : [v EXCEPT !.at = "try", !.loaded = m] \in Row
  BY DEF Row
<1>2. \A v \in Row, c, a, m \in Nat \ {0} :
        [v EXCEPT !.ci = c, !.attempt = a] \in Row
  BY DEF Row
<1>3. \A v \in Row, m \in Nat : [v EXCEPT !.loaded = m] \in Row
  BY DEF Row
<1>4. \A v \in Row, m \in Nat : [v EXCEPT !.retries = m, !.at = "retry"] \in Row
  BY DEF Row
<1>5. \A v \in Row, a \in Nat \ {0} : [v EXCEPT !.at = "try", !.attempt = a] \in Row
  BY DEF Row
<1>6. \A v \in Row, c \in Nat \ {0}, m \in Nat : [v EXCEPT !.ci = c, !.errors = m] \in Row
  BY DEF Row
<1>7. 1 \in Nat \ {0} /\ r.ci + 1 \in Nat \ {0} /\ r.attempt + 1 \in Nat \ {0} /\ r.retries + 1 \in Nat
      /\ r.errors + 1 \in Nat
  BY DEF Row
<1>8. [r EXCEPT !.ci = r.ci + 1, !.attempt = 1, !.loaded = n] \in Row
  <2> DEFINE v == [r EXCEPT !.ci = r.ci + 1, !.attempt = 1]
  <2>1. v \in Row
    BY <1>2, <1>7, Zenon
  <2>2. [r EXCEPT !.ci = r.ci + 1, !.attempt = 1, !.loaded = n] = [v EXCEPT !.loaded = n]
    BY DEF Row
  <2> QED
    BY <1>3, <2>1, <2>2
<1>9. [r EXCEPT !.at = "try", !.attempt = 1, !.ci = r.ci + 1, !.errors = r.errors + 1] \in Row
  <2> DEFINE v == [r EXCEPT !.at = "try", !.attempt = 1]
  <2>1. v \in Row
    BY <1>5, <1>7, Zenon
  <2>2. [r EXCEPT !.at = "try", !.attempt = 1, !.ci = r.ci + 1, !.errors = r.errors + 1]
          = [v EXCEPT !.ci = r.ci + 1, !.errors = r.errors + 1]
    BY DEF Row
  <2> QED
    BY <1>6, <1>7, <2>1, <2>2
<1> QED
  BY <1>1, <1>3, <1>4, <1>5, <1>7, <1>8, <1>9

\* Only w moves, and its row becomes r.
Moves(w, r) ==
  /\ r \in Row /\ writer' \in [Writers -> Row] /\ writer'[w] = r
  /\ \A v \in Writers \ {w} : writer'[v] = writer[v]

(* A load moves one writer, which then has the current version.              *)
LEMMA LoadMoves ==
  ASSUME ContentionType, NEW w \in Writers, LoadTable(w)
  PROVE  Moves(w, [writer[w] EXCEPT !.at = "try", !.loaded = version])
<1>1. writer[w] \in Row /\ version \in Nat
  BY DEF ContentionType
<1>2. [writer[w] EXCEPT !.at = "try", !.loaded = version] \in Row
  BY <1>1, RowUpdates
<1>3. writer' = [writer EXCEPT ![w] = [writer[w] EXCEPT !.at = "try", !.loaded = version]]
  BY <1>1 DEF LoadTable, ContentionType, Row
<1> QED
  BY <1>2, <1>3 DEF Moves, ContentionType

(* A commit moves one writer on to its next batch, with the version it       *)
(* made.                                                                     *)
LEMMA CommitMoves ==
  ASSUME ContentionType, NEW w \in Writers, Commit(w)
  PROVE  Moves(w, [writer[w] EXCEPT !.ci = writer[w].ci + 1, !.attempt = 1, !.loaded = version + 1])
<1>1. writer[w] \in Row /\ version + 1 \in Nat
  BY DEF ContentionType
<1> DEFINE r == [writer[w] EXCEPT !.ci = writer[w].ci + 1, !.attempt = 1, !.loaded = version + 1]
<1>2. r \in Row
  BY <1>1, RowUpdates
<1>3. writer' = [writer EXCEPT ![w] = r]
  BY <1>1 DEF Commit, ContentionType, Row
<1> QED
  BY <1>2, <1>3 DEF Moves, ContentionType

(* A commit that raises counts one retry of one writer.                      *)
LEMMA RaisesMoves ==
  ASSUME ContentionType, NEW w \in Writers, Raises(w)
  PROVE  Moves(w, [writer[w] EXCEPT !.retries = writer[w].retries + 1, !.at = "retry"])
<1>1. writer[w] \in Row
  BY DEF ContentionType
<1> DEFINE r == [writer[w] EXCEPT !.retries = writer[w].retries + 1, !.at = "retry"]
<1>2. r \in Row
  BY <1>1, RowUpdates
<1>3. writer' = [writer EXCEPT ![w] = r]
  BY <1>1 DEF Raises, ContentionType, Row
<1> QED
  BY <1>2, <1>3 DEF Moves, ContentionType

(* After a retry a writer is to try its batch again or, when it has given    *)
(* it up, the next.                                                          *)
LEMMA NextTryRow ==
  ASSUME NEW r \in Row
  PROVE  /\ NextTry(r) \in Row
         /\ NextTry(r).at = "try" /\ NextTry(r).loaded = r.loaded
         /\ NextTry(r).retries = r.retries
         /\ \/ NextTry(r).ci = r.ci /\ NextTry(r).errors = r.errors
            \/ NextTry(r).ci = r.ci + 1 /\ NextTry(r).errors = r.errors + 1
<1>1. NextTry(r) \in Row
  BY RowUpdates DEF NextTry
<1>2. CASE r.attempt < MaxAttempts
  <2>1. NextTry(r) = [r EXCEPT !.at = "try", !.attempt = r.attempt + 1]
    BY <1>2 DEF NextTry
  <2> QED
    BY <1>1, <2>1 DEF Row
<1>3. CASE ~(r.attempt < MaxAttempts)
  <2>1. NextTry(r) = [r EXCEPT !.at = "try", !.attempt = 1, !.ci = r.ci + 1, !.errors = r.errors + 1]
    BY <1>3 DEF NextTry
  <2> QED
    BY <1>1, <2>1 DEF Row
<1> QED
  BY <1>2, <1>3

(* A retry moves one writer, which has loaded the table or is owed to one    *)
(* more fault.                                                               *)
LEMMA RetryMoves ==
  ASSUME ContentionType, NEW w \in Writers, Retry(w) \/ RetryUnloaded(w)
  PROVE  \E r \in Row :
           /\ Moves(w, r) /\ r.at = "try" /\ r.retries = writer[w].retries
           /\ \/ r.ci = writer[w].ci /\ r.errors = writer[w].errors
              \/ r.ci = writer[w].ci + 1 /\ r.errors = writer[w].errors + 1
           /\ \/ r.loaded = version /\ faults' = faults
              \/ r.loaded = writer[w].loaded /\ faults' = faults + 1
<1>1. writer[w] \in Row /\ version \in Nat
  BY DEF ContentionType
<1> DEFINE t == NextTry(writer[w])
<1>2. /\ t \in Row
      /\ t.at = "try" /\ t.loaded = writer[w].loaded /\ t.retries = writer[w].retries
      /\ \/ t.ci = writer[w].ci /\ t.errors = writer[w].errors
         \/ t.ci = writer[w].ci + 1 /\ t.errors = writer[w].errors + 1
  BY <1>1, NextTryRow
<1>3. CASE Retry(w)
  <2> DEFINE r == [t EXCEPT !.loaded = version]
  <2>1. writer' = [writer EXCEPT ![w] = r] /\ faults' = faults
    BY <1>3 DEF Retry
  <2> HIDE DEF t
  <2>2. r \in Row
    BY <1>1, <1>2, RowUpdates
  <2>3. r.at = t.at /\ r.retries = t.retries /\ r.ci = t.ci /\ r.errors = t.errors
        /\ r.loaded = version
    BY <1>2 DEF Row
  <2> HIDE DEF r
  <2>4. Moves(w, r)
    BY <2>1, <2>2 DEF Moves, ContentionType
  <2> QED
    BY <1>2, <2>1, <2>2, <2>3, <2>4
<1>4. CASE RetryUnloaded(w)
  <2>1. writer' = [writer EXCEPT ![w] = t] /\ faults' = faults + 1
    BY <1>4 DEF RetryUnloaded
  <2> HIDE DEF t
  <2>2. Moves(w, t)
    BY <1>2, <2>1 DEF Moves, ContentionType
  <2> QED
    BY <1>2, <2>1, <2>2
<1> QED
  BY <1>3, <1>4

\* What a retry of w is owed to: each writer has its own commits and faults;
\* w pays for the commits of the others, and owes while its table is stale.
Owing(w) == IF writer[w].at = "try" /\ writer[w].loaded < version THEN 1 ELSE 0

Accounts(own, f) ==
  /\ own \in [Writers -> Nat] /\ f \in [Writers -> Nat]
  /\ SumFunction(own) = version /\ SumFunction(f) = faults
  /\ \A w \in Writers : writer[w].retries + own[w] + Owing(w) <= version + f[w]

\* The batches a writer has been through: late[b] of its attempts took effect
\* and raised, and all but those given up took effect once more.
Ledger(late, given) ==
  /\ late \in [Batches -> Nat] /\ given \in SUBSET Batches
  /\ SumFunction(late) = lateErrors /\ Cardinality(given) = errors
  /\ \A b \in Batches :
       IF b[2] < writer[b[1]].ci /\ b \notin given
         THEN stored[b] = late[b] + 1
         ELSE stored[b] = late[b]
  /\ \A b \in given : b[2] < writer[b[1]].ci

(* The inductive invariant of the contention trial: what was loaded is not   *)
(* newer than the table, and there are accounts and a ledger.                *)
ContentionInv ==
  /\ ContentionType
  /\ \A w \in Writers : /\ writer[w].loaded <= version
                        /\ writer[w].at = "retry" => writer[w].ci <= COMMITS_PER_WRITER
  /\ \E own, f : Accounts(own, f)
  /\ \E late, given : Ledger(late, given)

(* There are finitely many writers and batches.                              *)
LEMMA FiniteBatches == IsFiniteSet(Writers) /\ IsFiniteSet(Batches)
<1>1. IsFiniteSet(Writers) /\ IsFiniteSet(1..COMMITS_PER_WRITER)
  BY ContentionAssumption, FS_Interval
<1> QED
  BY <1>1, FS_Product DEF Batches

(* The errors of the trial change by those of the writer that moves.         *)
LEMMA ErrorsMove ==
  ASSUME ContentionType, NEW w \in Writers, NEW r, Moves(w, r)
  PROVE  /\ errors \in Nat /\ errors' \in Nat
         /\ errors' + writer[w].errors = errors + r.errors
<1> DEFINE f == [v \in Writers |-> writer[v].errors]
           g == [v \in Writers |-> writer'[v].errors]
<1>1. f \in [Writers -> Nat] /\ g \in [Writers -> Nat]
  BY DEF ContentionType, Moves, Row
<1>2. /\ \A v \in Writers \ {w} : f[v] = g[v]
      /\ f[w] = writer[w].errors /\ g[w] = r.errors
  BY DEF Moves
<1>3. errors = SumFunction(f) /\ errors' = SumFunction(g)
  BY DEF errors
<1> HIDE DEF f, g
<1>4. /\ SumFunction(f) \in Nat /\ SumFunction(g) \in Nat
      /\ SumFunction(f) + g[w] = SumFunction(g) + f[w]
  BY <1>1, <1>2, FiniteBatches, SumUpdate
<1>5. f[w] \in Nat /\ g[w] \in Nat
  BY <1>1
<1> QED
  BY <1>2, <1>3, <1>4, <1>5

(* The batch of a writer that is not through is one of the batches.          *)
LEMMA BatchOf ==
  ASSUME NEW w \in Writers, NEW n \in Nat \ {0}, n <= COMMITS_PER_WRITER
  PROVE  <<w, n>> \in Batches
BY ContentionAssumption DEF Batches

(* The contention trial starts in its invariant, with empty accounts and an  *)
(* empty ledger.                                                             *)
LEMMA ContentionStarts ==
  ASSUME ContentionInit
  PROVE  ContentionInv
<1>1. ContentionType
  BY DEF ContentionInit, ContentionType, Row
<1>2. \A w \in Writers : /\ writer[w].loaded <= version
                         /\ writer[w].at = "retry" => writer[w].ci <= COMMITS_PER_WRITER
  BY DEF ContentionInit
<1>3. Accounts([w \in Writers |-> 0], [w \in Writers |-> 0])
  <2>1. Cardinality(Writers) \in Nat
    BY FiniteBatches, FS_CardinalityType
  <2>2. SumFunction([w \in Writers |-> 0]) = Cardinality(Writers) * 0
    BY FiniteBatches, SumConstant
  <2>3. SumFunction([w \in Writers |-> 0]) = 0
    BY <2>1, <2>2
  <2> QED
    BY <2>3 DEF Accounts, Owing, ContentionInit
<1>4. Ledger([b \in Batches |-> 0], {})
  <2>1. Cardinality(Batches) \in Nat /\ Cardinality(Writers) \in Nat
    BY FiniteBatches, FS_CardinalityType
  <2>2. /\ SumFunction([w \in Batches |-> 0]) = Cardinality(Batches) * 0
        /\ SumFunction([w \in Writers |-> 0]) = Cardinality(Writers) * 0
    BY FiniteBatches, SumConstant
  <2>3. SumFunction([w \in Batches |-> 0]) = 0 /\ SumFunction([w \in Writers |-> 0]) = 0
    BY <2>1, <2>2
  <2>4. errors = 0
    <3>1. [w \in Writers |-> writer[w].errors] = [w \in Writers |-> 0]
      BY DEF ContentionInit
    <3> QED
      BY <2>3, <3>1 DEF errors
  <2>5. \A b \in Batches : b[1] \in Writers /\ b[2] \in 1..COMMITS_PER_WRITER
    BY DEF Batches
  <2>6. \A b \in Batches : ~(b[2] < writer[b[1]].ci) /\ stored[b] = 0
    BY <2>5, ContentionAssumption DEF ContentionInit
  <2> QED
    BY <2>3, <2>4, <2>6, FS_EmptySet DEF Ledger, ContentionInit
<1> QED
  BY <1>1, <1>2, <1>3, <1>4 DEF ContentionInv

(* Every step of the trial keeps the types.                                  *)
LEMMA TypeKept ==
  ASSUME ContentionType, [ContentionNext]_contentionVars
  PROVE  ContentionType'
<1>1. ASSUME NEW w \in Writers, Trying(w), Stores(w)
      PROVE  stored' \in [Batches -> Nat] /\ version' \in Nat
  <2>1. writer[w].ci \in Nat \ {0}
    BY DEF ContentionType, Row
  <2>2. <<w, writer[w].ci>> \in Batches
    BY <1>1, <2>1, BatchOf DEF Trying
  <2> QED
    BY <1>1, <2>2 DEF Stores, ContentionType
<1>2. ASSUME NEW e \in {"ducklake", "iceberg"}, StartTrial(e) PROVE ContentionType'
  BY <1>2 DEF StartTrial, ContentionType, Batches
<1>3. ASSUME NEW w \in Writers, LoadTable(w) PROVE ContentionType'
  BY <1>3, LoadMoves DEF Moves, LoadTable, ContentionType, Batches
<1>4. ASSUME NEW w \in Writers, Commit(w) PROVE ContentionType'
  BY <1>1, <1>4, CommitMoves DEF Moves, Commit, ContentionType, Batches
<1>5. ASSUME NEW w \in Writers, Conflict(w) PROVE ContentionType'
  BY <1>5, RaisesMoves DEF Moves, Conflict, ContentionType, Batches
<1>6. ASSUME NEW w \in Writers, Refused(w) PROVE ContentionType'
  <2>1. Raises(w) /\ faults' = faults + 1 /\ UNCHANGED <<engine, stored, version, lateErrors>>
    BY <1>6 DEF Refused
  <2>2. writer' \in [Writers -> Row]
    BY <2>1, RaisesMoves DEF Moves
  <2> QED
    BY <2>1, <2>2 DEF ContentionType, Batches
<1>7. ASSUME NEW w \in Writers, LateError(w) PROVE ContentionType'
  <2>1. /\ Raises(w) /\ Trying(w) /\ Stores(w) /\ engine' = engine
        /\ faults' = faults + 1 /\ lateErrors' = lateErrors + 1
    BY <1>7 DEF LateError
  <2>2. writer' \in [Writers -> Row]
    BY <2>1, RaisesMoves DEF Moves
  <2>3. stored' \in [Batches -> Nat] /\ version' \in Nat
    BY <1>1, <2>1
  <2> QED
    BY <2>1, <2>2, <2>3 DEF ContentionType, Batches
<1>8. ASSUME NEW w \in Writers, Retry(w) \/ RetryUnloaded(w) PROVE ContentionType'
  <2>1. PICK r \in Row : Moves(w, r) /\ (faults' = faults \/ faults' = faults + 1)
    BY <1>8, RetryMoves
  <2> QED
    BY <1>8, <2>1 DEF Moves, Retry, RetryUnloaded, ContentionType, Batches
<1>9. CASE UNCHANGED contentionVars
  BY <1>9 DEF contentionVars, ContentionType, Batches
<1> QED
  BY <1>2, <1>3, <1>4, <1>5, <1>6, <1>7, <1>8, <1>9 DEF ContentionNext

(* No step of the trial gives a writer a version that the table has not      *)
(* reached.                                                                  *)
LEMMA LoadedKept ==
  ASSUME ContentionInv, [ContentionNext]_contentionVars
  PROVE  (\A w \in Writers : /\ writer[w].loaded <= version
                             /\ writer[w].at = "retry" => writer[w].ci <= COMMITS_PER_WRITER)'
<1> DEFINE P(v) == /\ writer[v].loaded <= version
                   /\ writer[v].at = "retry" => writer[v].ci <= COMMITS_PER_WRITER
<1>1. ContentionType /\ \A v \in Writers : P(v)
  BY DEF ContentionInv
<1>2. version \in Nat /\ \A v \in Writers : writer[v] \in Row /\ writer[v].loaded \in Nat
  BY <1>1 DEF ContentionType, Row
<1>3. ASSUME NEW w \in Writers, NEW r, Moves(w, r), version' \in {version, version + 1},
             r.loaded <= version', r.at = "retry" => r.ci <= COMMITS_PER_WRITER
      PROVE  \A v \in Writers : P(v)'
  <2>1. P(w)'
    BY <1>3 DEF Moves
  <2>2. ASSUME NEW v \in Writers \ {w} PROVE P(v)'
    <3>1. writer'[v] = writer[v]
      BY <1>3 DEF Moves
    <3> QED
      BY <1>1, <1>2, <1>3, <3>1
  <2> QED
    BY <2>1, <2>2
<1>4. ASSUME NEW e \in {"ducklake", "iceberg"}, StartTrial(e) PROVE \A v \in Writers : P(v)'
  BY <1>1, <1>4 DEF StartTrial
<1>5. ASSUME NEW w \in Writers, LoadTable(w) PROVE \A v \in Writers : P(v)'
  <2> DEFINE r == [writer[w] EXCEPT !.at = "try", !.loaded = version]
  <2>1. r.loaded = version /\ r.at = "try"
    BY <1>2 DEF Row
  <2>2. Moves(w, r) /\ version' = version
    BY <1>1, <1>5, LoadMoves DEF LoadTable
  <2> HIDE DEF r
  <2> QED
    BY <1>2, <1>3, <2>1, <2>2
<1>6. ASSUME NEW w \in Writers, Commit(w) PROVE \A v \in Writers : P(v)'
  <2> DEFINE r == [writer[w] EXCEPT !.ci = writer[w].ci + 1, !.attempt = 1, !.loaded = version + 1]
  <2>1. r.loaded = version + 1 /\ r.at = "try"
    BY <1>2, <1>6 DEF Row, Commit, Trying
  <2>2. Moves(w, r) /\ version' = version + 1
    BY <1>1, <1>6, CommitMoves DEF Commit, Stores
  <2> HIDE DEF r
  <2> QED
    BY <1>2, <1>3, <2>1, <2>2
<1>7. ASSUME NEW w \in Writers, Conflict(w) \/ Refused(w) \/ LateError(w)
      PROVE  \A v \in Writers : P(v)'
  <2> DEFINE r == [writer[w] EXCEPT !.retries = writer[w].retries + 1, !.at = "retry"]
  <2>1. r.loaded = writer[w].loaded /\ r.ci = writer[w].ci
    BY <1>2 DEF Row
  <2>2. Moves(w, r) /\ version' \in {version, version + 1} /\ writer[w].ci <= COMMITS_PER_WRITER
    BY <1>1, <1>7, RaisesMoves DEF Conflict, Refused, LateError, Stores, Trying
  <2> HIDE DEF r
  <2> QED
    BY <1>1, <1>2, <1>3, <2>1, <2>2
<1>8. ASSUME NEW w \in Writers, Retry(w) \/ RetryUnloaded(w) PROVE \A v \in Writers : P(v)'
  <2>1. PICK r \in Row : Moves(w, r) /\ r.at = "try"
                         /\ (r.loaded = version \/ r.loaded = writer[w].loaded)
    BY <1>1, <1>8, RetryMoves
  <2>2. version' = version
    BY <1>8 DEF Retry, RetryUnloaded
  <2> QED
    BY <1>1, <1>2, <1>3, <2>1, <2>2
<1>9. CASE UNCHANGED contentionVars
  BY <1>1, <1>9 DEF contentionVars
<1> QED
  BY <1>4, <1>5, <1>6, <1>7, <1>8, <1>9 DEF ContentionNext

\* An account after w's row became r, w's commits grew by c and its faults by k.
(* The accounts still hold after a step of one writer if what it did is      *)
(* paid for: a commit is its own, and a fault is charged to it.              *)
LEMMA AccountMoves ==
  ASSUME ContentionInv, NEW own, NEW f, Accounts(own, f),
         NEW w \in Writers, NEW r, Moves(w, r), NEW c \in 0..1, NEW k \in 0..1,
         version' = version + c, faults' = faults + k,
         r.retries + own[w] + c
           + (IF r.at = "try" /\ r.loaded < version + c THEN 1 ELSE 0)
             <= version + c + f[w] + k
  PROVE  (\E o, g : Accounts(o, g))'
<1> DEFINE o == [own EXCEPT ![w] = own[w] + c]
           g == [f EXCEPT ![w] = f[w] + k]
<1>1. /\ own \in [Writers -> Nat] /\ f \in [Writers -> Nat]
      /\ SumFunction(own) = version /\ SumFunction(f) = faults
      /\ \A v \in Writers : writer[v].retries + own[v] + Owing(v) <= version + f[v]
  BY DEF Accounts
<1>2. /\ o \in [Writers -> Nat] /\ g \in [Writers -> Nat]
      /\ o[w] = own[w] + c /\ g[w] = f[w] + k
      /\ \A v \in Writers \ {w} : own[v] = o[v] /\ f[v] = g[v]
  BY <1>1
<1> HIDE DEF o, g
<1>3. version \in Nat /\ faults \in Nat /\ \A v \in Writers : writer[v] \in Row
  BY DEF ContentionInv, ContentionType
<1>4. SumFunction(o) = version'
  <2>1. /\ SumFunction(own) \in Nat /\ SumFunction(o) \in Nat
        /\ SumFunction(own) + o[w] = SumFunction(o) + own[w]
    BY <1>1, <1>2, FiniteBatches, SumUpdate
  <2>2. own[w] \in Nat
    BY <1>1
  <2> QED
    BY <1>1, <1>2, <2>1, <2>2
<1>5. SumFunction(g) = faults'
  <2>1. /\ SumFunction(f) \in Nat /\ SumFunction(g) \in Nat
        /\ SumFunction(f) + g[w] = SumFunction(g) + f[w]
    BY <1>1, <1>2, FiniteBatches, SumUpdate
  <2>2. f[w] \in Nat
    BY <1>1
  <2> QED
    BY <1>1, <1>2, <2>1, <2>2
<1>6. writer'[w].retries + o[w] + Owing(w)' <= version' + g[w]
  <2>1. writer'[w] = r
    BY DEF Moves
  <2>2. own[w] \in Nat /\ f[w] \in Nat /\ r.retries \in Nat
    BY <1>1 DEF Moves, Row
  <2> QED
    BY <1>2, <1>3, <2>1, <2>2 DEF Owing
<1>7. ASSUME NEW v \in Writers \ {w}
      PROVE  writer'[v].retries + o[v] + Owing(v)' <= version' + g[v]
  <2>1. writer'[v] = writer[v] /\ o[v] = own[v] /\ g[v] = f[v]
    BY <1>2 DEF Moves
  <2>2. writer[v].retries + own[v] + Owing(v) <= version + f[v]
    BY <1>1
  <2>3. own[v] \in Nat /\ f[v] \in Nat /\ writer[v].retries \in Nat /\ writer[v].loaded \in Nat
        /\ writer[v].loaded <= version
    BY <1>1, <1>3 DEF ContentionInv, Row
  <2>4. Owing(v) \in 0..1 /\ Owing(v)' <= Owing(v) + c /\ Owing(v)' \in 0..1
    BY <1>3, <2>1, <2>3 DEF Owing
  <2> HIDE DEF Owing
  <2> QED
    BY <1>3, <2>1, <2>2, <2>3, <2>4
<1>8. Accounts(o, g)'
  BY <1>2, <1>4, <1>5, <1>6, <1>7 DEF Accounts
<1> QED
  BY <1>8

(* Every step of the trial keeps the accounts.                               *)
LEMMA AccountsKept ==
  ASSUME ContentionInv, [ContentionNext]_contentionVars
  PROVE  (\E own, f : Accounts(own, f))'
<1>1. ContentionType
  BY DEF ContentionInv
<1>2. PICK own, f : Accounts(own, f)
  BY DEF ContentionInv
<1>3. /\ own \in [Writers -> Nat] /\ f \in [Writers -> Nat]
      /\ \A v \in Writers : writer[v].retries + own[v] + Owing(v) <= version + f[v]
  BY <1>2 DEF Accounts
<1>4. version \in Nat /\ faults \in Nat /\ \A v \in Writers : writer[v] \in Row
  BY <1>1 DEF ContentionType
<1>5. \A v \in Writers : writer[v].retries \in Nat /\ writer[v].loaded \in Nat
                         /\ own[v] \in Nat /\ f[v] \in Nat /\ writer[v].loaded <= version
  BY <1>3, <1>4 DEF Row, ContentionInv
<1>6. ASSUME UNCHANGED <<writer, version, faults>> PROVE (\E o, g : Accounts(o, g))'
  <2>1. Accounts(own, f)'
    BY <1>2, <1>6 DEF Accounts, Owing
  <2> QED
    BY <2>1
<1>7. ASSUME NEW w \in Writers, LoadTable(w) PROVE (\E o, g : Accounts(o, g))'
  <2> DEFINE r == [writer[w] EXCEPT !.at = "try", !.loaded = version]
  <2>1. r.loaded = version /\ r.at = "try" /\ r.retries = writer[w].retries
    BY <1>4 DEF Row
  <2>a. Moves(w, r)
    BY <1>1, <1>7, LoadMoves
  <2>2. version' = version + 0 /\ faults' = faults + 0
    BY <1>4, <1>7 DEF LoadTable
  <2>3. writer[w].retries + own[w] <= version + f[w]
    BY <1>3, <1>4, <1>5 DEF Owing
  <2> HIDE DEF r
  <2>4. r.retries + own[w] + 0 + (IF r.at = "try" /\ r.loaded < version + 0 THEN 1 ELSE 0)
          <= version + 0 + f[w] + 0
    BY <1>4, <1>5, <2>1, <2>3
  <2> QED
    BY <1>2, <2>a, <2>2, <2>4, AccountMoves
<1>8. ASSUME NEW w \in Writers, Commit(w) PROVE (\E o, g : Accounts(o, g))'
  <2> DEFINE r == [writer[w] EXCEPT !.ci = writer[w].ci + 1, !.attempt = 1, !.loaded = version + 1]
  <2>1. r.loaded = version + 1 /\ r.retries = writer[w].retries
    BY <1>4 DEF Row
  <2>a. Moves(w, r)
    BY <1>1, <1>8, CommitMoves
  <2>2. version' = version + 1 /\ faults' = faults + 0
    BY <1>4, <1>8 DEF Commit, Stores
  <2>3. writer[w].retries + own[w] <= version + f[w]
    BY <1>3, <1>4, <1>5 DEF Owing
  <2> HIDE DEF r
  <2>4. r.retries + own[w] + 1 + (IF r.at = "try" /\ r.loaded < version + 1 THEN 1 ELSE 0)
          <= version + 1 + f[w] + 0
    BY <1>4, <1>5, <2>1, <2>3
  <2> QED
    BY <1>2, <2>a, <2>2, <2>4, AccountMoves
<1>9. ASSUME NEW w \in Writers, Conflict(w) \/ Refused(w) \/ LateError(w)
      PROVE  (\E o, g : Accounts(o, g))'
  <2> DEFINE r == [writer[w] EXCEPT !.retries = writer[w].retries + 1, !.at = "retry"]
  <2>1. r.at = "retry" /\ r.retries = writer[w].retries + 1
    BY <1>4 DEF Row
  <2>2. Moves(w, r)
    BY <1>1, <1>9, RaisesMoves DEF Conflict, Refused, LateError
  <2>3. writer[w].retries + own[w] + Owing(w) <= version + f[w]
    BY <1>3
  <2> HIDE DEF r
  <2>4. CASE Conflict(w)
    <3>1. version' = version + 0 /\ faults' = faults + 0 /\ Owing(w) = 1
      BY <1>4, <1>5, <2>4 DEF Conflict, Trying, Current, Owing
    <3>2. r.retries + own[w] + 0 + (IF r.at = "try" /\ r.loaded < version + 0 THEN 1 ELSE 0)
            <= version + 0 + f[w] + 0
      BY <1>4, <1>5, <2>1, <2>3, <3>1
    <3> QED
      BY <1>2, <2>2, <3>1, <3>2, AccountMoves
  <2>5. CASE Refused(w)
    <3>1. version' = version + 0 /\ faults' = faults + 1 /\ Owing(w) \in 0..1
      BY <1>4, <2>5 DEF Refused, Owing
    <3>2. r.retries + own[w] + 0 + (IF r.at = "try" /\ r.loaded < version + 0 THEN 1 ELSE 0)
            <= version + 0 + f[w] + 1
      BY <1>4, <1>5, <2>1, <2>3, <3>1
    <3> QED
      BY <1>2, <2>2, <3>1, <3>2, AccountMoves
  <2>6. CASE LateError(w)
    <3>1. version' = version + 1 /\ faults' = faults + 1 /\ Owing(w) \in 0..1
      BY <1>4, <2>6 DEF LateError, Stores, Owing
    <3>2. r.retries + own[w] + 1 + (IF r.at = "try" /\ r.loaded < version + 1 THEN 1 ELSE 0)
            <= version + 1 + f[w] + 1
      BY <1>4, <1>5, <2>1, <2>3, <3>1
    <3> QED
      BY <1>2, <2>2, <3>1, <3>2, AccountMoves
  <2> QED
    BY <1>9, <2>4, <2>5, <2>6
<1>10. ASSUME NEW w \in Writers, Retry(w) \/ RetryUnloaded(w)
       PROVE  (\E o, g : Accounts(o, g))'
  <2>1. PICK r \in Row :
          /\ Moves(w, r) /\ r.retries = writer[w].retries
          /\ \/ r.loaded = version /\ faults' = faults
             \/ r.loaded = writer[w].loaded /\ faults' = faults + 1
    BY <1>1, <1>10, RetryMoves
  <2>2. version' = version + 0
    BY <1>4, <1>10 DEF Retry, RetryUnloaded
  <2>3. writer[w].retries + own[w] <= version + f[w]
    BY <1>3, <1>4, <1>5 DEF Owing
  <2>4. CASE r.loaded = version /\ faults' = faults
    <3>1. faults' = faults + 0
      BY <1>4, <2>4
    <3>2. r.retries + own[w] + 0 + (IF r.at = "try" /\ r.loaded < version + 0 THEN 1 ELSE 0)
            <= version + 0 + f[w] + 0
      BY <1>4, <1>5, <2>1, <2>3, <2>4
    <3> QED
      BY <1>2, <2>1, <2>2, <3>1, <3>2, AccountMoves
  <2>5. CASE r.loaded = writer[w].loaded /\ faults' = faults + 1
    <3>1. r.retries + own[w] + 0 + (IF r.at = "try" /\ r.loaded < version + 0 THEN 1 ELSE 0)
            <= version + 0 + f[w] + 1
      BY <1>4, <1>5, <2>1, <2>3, <2>5
    <3> QED
      BY <1>2, <2>1, <2>2, <2>5, <3>1, AccountMoves
  <2> QED
    BY <2>1, <2>4, <2>5
<1>11. ASSUME NEW e \in {"ducklake", "iceberg"}, StartTrial(e)
       PROVE  (\E o, g : Accounts(o, g))'
  BY <1>6, <1>11 DEF StartTrial
<1>12. CASE UNCHANGED contentionVars
  BY <1>6, <1>12 DEF contentionVars
<1> QED
  BY <1>7, <1>8, <1>9, <1>10, <1>11, <1>12 DEF ContentionNext

\* The ledger after w's row became r.  Its batch, if it did not move on.
(* A step that neither stores nor leaves a batch keeps the ledger.           *)
LEMMA LedgerStays ==
  ASSUME ContentionInv, NEW late, NEW given, Ledger(late, given),
         NEW w \in Writers, NEW r, Moves(w, r),
         r.ci = writer[w].ci, r.errors = writer[w].errors,
         stored' = stored, lateErrors' = lateErrors
  PROVE  (\E l, g : Ledger(l, g))'
<1>1. ContentionType
  BY DEF ContentionInv
<1>2. errors' = errors
  <2>1. r.errors \in Nat
    BY DEF Moves, Row
  <2> QED
    BY <1>1, <2>1, ErrorsMove
<1>3. \A v \in Writers : writer'[v].ci = writer[v].ci
  BY DEF Moves
<1>4. \A b \in Batches : b[1] \in Writers
  BY DEF Batches
<1>5. Batches' = Batches
  BY DEF Batches
<1>6. Ledger(late, given)'
  BY <1>2, <1>3, <1>4, <1>5 DEF Ledger
<1> QED
  BY <1>6

\* The batch of a commit that took effect is done.
(* A commit enters its batch in the ledger as done.                          *)
LEMMA LedgerCommits ==
  ASSUME ContentionInv, NEW late, NEW given, Ledger(late, given),
         NEW w \in Writers, NEW r, Moves(w, r), writer[w].ci <= COMMITS_PER_WRITER,
         r.ci = writer[w].ci + 1, r.errors = writer[w].errors,
         Stores(w), lateErrors' = lateErrors
  PROVE  (\E l, g : Ledger(l, g))'
<1>1. ContentionType
  BY DEF ContentionInv
<1>2. errors' = errors
  <2>1. r.errors \in Nat
    BY DEF Moves, Row
  <2> QED
    BY <1>1, <2>1, ErrorsMove
<1>3. /\ \A v \in Writers \ {w} : writer'[v].ci = writer[v].ci
      /\ writer'[w].ci = writer[w].ci + 1
  BY DEF Moves
<1>4. \A b \in Batches : b[1] \in Writers /\ b[2] \in Nat /\ b = <<b[1], b[2]>>
  BY ContentionAssumption DEF Batches
<1>5. Batches' = Batches
  BY DEF Batches
<1> DEFINE n == writer[w].ci
           c == <<w, n>>
<1>6. n \in Nat \ {0} /\ c \in Batches
  BY <1>1, BatchOf DEF ContentionType, Row
<1>7. /\ stored'[c] = stored[c] + 1
      /\ \A b \in Batches \ {c} : stored'[b] = stored[b]
  BY <1>1, <1>6 DEF Stores, ContentionType
<1>8. /\ late \in [Batches -> Nat] /\ given \in SUBSET Batches
      /\ SumFunction(late) = lateErrors /\ Cardinality(given) = errors
      /\ \A b \in Batches : stored[b] = IF b[2] < writer[b[1]].ci /\ b \notin given
                                          THEN late[b] + 1 ELSE late[b]
      /\ \A b \in given : b[2] < writer[b[1]].ci
  BY DEF Ledger
<1>9. ASSUME NEW b \in Batches
      PROVE  stored'[b] = IF b[2] < writer'[b[1]].ci /\ b \notin given
                            THEN late[b] + 1 ELSE late[b]
  <2>1. CASE b = c
    <3>1. b[1] = w /\ b[2] = n
      BY <2>1
    <3>2. b[2] < writer'[b[1]].ci /\ ~(b[2] < writer[b[1]].ci)
      BY <1>3, <1>6, <3>1
    <3>3. b \notin given
      BY <1>8, <3>2
    <3> HIDE DEF c, n
    <3> QED
      BY <1>7, <1>8, <2>1, <3>2, <3>3
  <2>2. CASE b # c
    <3>1. stored'[b] = stored[b]
      BY <1>7, <2>2
    <3>2. b[2] < writer'[b[1]].ci <=> b[2] < writer[b[1]].ci
      <4>1. CASE b[1] = w
        <5>1. b[2] # n
          BY <1>4, <2>2, <4>1
        <5> QED
          BY <1>3, <1>4, <1>6, <4>1, <5>1
      <4>2. CASE b[1] # w
        BY <1>3, <1>4, <4>2
      <4> QED
        BY <4>1, <4>2
    <3> HIDE DEF c, n
    <3> QED
      BY <1>8, <3>1, <3>2
  <2> QED
    BY <2>1, <2>2
<1>10. \A b \in given : b[2] < writer'[b[1]].ci
  <2> TAKE b \in given
  <2>1. b[1] \in Writers /\ b[2] \in Nat /\ b[2] < writer[b[1]].ci
    BY <1>4, <1>8
  <2> QED
    BY <1>3, <1>6, <2>1
<1>11. Ledger(late, given)'
  <2> HIDE DEF c, n
  <2>1. \A b \in Batches : IF b[2] < writer'[b[1]].ci /\ b \notin given
                             THEN stored'[b] = late[b] + 1 ELSE stored'[b] = late[b]
    BY <1>9
  <2> QED
    BY <1>2, <1>5, <1>8, <1>10, <2>1 DEF Ledger
<1> QED
  BY <1>11

\* A commit that took effect and raised is one more of the late ones.
(* A commit that took effect although it raised enters its batch as late.    *)
LEMMA LedgerLate ==
  ASSUME ContentionInv, NEW late, NEW given, Ledger(late, given),
         NEW w \in Writers, NEW r, Moves(w, r), writer[w].ci <= COMMITS_PER_WRITER,
         r.ci = writer[w].ci, r.errors = writer[w].errors,
         Stores(w), lateErrors' = lateErrors + 1
  PROVE  (\E l, g : Ledger(l, g))'
<1>1. ContentionType
  BY DEF ContentionInv
<1>2. errors' = errors
  <2>1. r.errors \in Nat
    BY DEF Moves, Row
  <2> QED
    BY <1>1, <2>1, ErrorsMove
<1>3. \A v \in Writers : writer'[v].ci = writer[v].ci
  BY DEF Moves
<1>4. \A b \in Batches : b[1] \in Writers
  BY DEF Batches
<1>5. Batches' = Batches
  BY DEF Batches
<1>a. PICK n : n = writer[w].ci
  OBVIOUS
<1> DEFINE c == <<w, n>>
           l == [late EXCEPT ![c] = late[c] + 1]
<1>6. c \in Batches
  BY <1>1, <1>a, BatchOf DEF ContentionType, Row
<1>7. /\ stored'[c] = stored[c] + 1
      /\ \A b \in Batches \ {c} : stored'[b] = stored[b]
  BY <1>1, <1>6, <1>a DEF Stores, ContentionType
<1>8. c[1] = w /\ c[2] = writer[w].ci
  BY <1>a
<1> HIDE DEF c
<1>9. /\ late \in [Batches -> Nat] /\ given \in SUBSET Batches
      /\ SumFunction(late) = lateErrors /\ Cardinality(given) = errors
      /\ \A b \in Batches : stored[b] = IF b[2] < writer[b[1]].ci /\ b \notin given
                                          THEN late[b] + 1 ELSE late[b]
      /\ \A b \in given : b[2] < writer[b[1]].ci
  BY DEF Ledger
<1>10. /\ l \in [Batches -> Nat] /\ l[c] = late[c] + 1
       /\ \A b \in Batches \ {c} : late[b] = l[b]
  BY <1>6, <1>9
<1> HIDE DEF l
<1>11. SumFunction(l) = lateErrors'
  <2>1. /\ SumFunction(late) \in Nat /\ SumFunction(l) \in Nat
        /\ SumFunction(late) + l[c] = SumFunction(l) + late[c]
    BY <1>6, <1>9, <1>10, FiniteBatches, SumUpdate
  <2>2. late[c] \in Nat
    BY <1>6, <1>9
  <2> QED
    BY <1>9, <1>10, <2>1, <2>2
<1>12. ASSUME NEW b \in Batches
       PROVE  stored'[b] = IF b[2] < writer'[b[1]].ci /\ b \notin given
                             THEN l[b] + 1 ELSE l[b]
  <2>1. CASE b = c
    <3>1. ~(c[2] < writer[c[1]].ci)
      <4>1. writer[w].ci \in Nat
        BY <1>1 DEF ContentionType, Row
      <4> QED
        BY <1>8, <4>1
    <3>2. stored[c] = late[c] /\ writer'[c[1]].ci = writer[c[1]].ci
      BY <1>3, <1>4, <1>6, <1>9, <3>1
    <3> QED
      BY <1>7, <1>10, <2>1, <3>1, <3>2
  <2>2. CASE b # c
    <3>1. stored'[b] = stored[b] /\ l[b] = late[b] /\ writer'[b[1]].ci = writer[b[1]].ci
      BY <1>3, <1>4, <1>7, <1>10, <2>2
    <3> QED
      BY <1>9, <3>1
  <2> QED
    BY <2>1, <2>2
<1>13. \A b \in given : b[2] < writer'[b[1]].ci
  BY <1>3, <1>4, <1>9
<1>14. Ledger(l, given)'
  <2>1. \A b \in Batches : IF b[2] < writer'[b[1]].ci /\ b \notin given
                             THEN stored'[b] = l[b] + 1 ELSE stored'[b] = l[b]
    BY <1>12
  <2> QED
    BY <1>2, <1>5, <1>9, <1>10, <1>11, <1>13, <2>1 DEF Ledger
<1> QED
  BY <1>14

\* A batch that is given up counts one error.
(* A batch left after the last attempt is entered as given up.               *)
LEMMA LedgerGivesUp ==
  ASSUME ContentionInv, NEW late, NEW given, Ledger(late, given),
         NEW w \in Writers, NEW r, Moves(w, r), writer[w].ci <= COMMITS_PER_WRITER,
         r.ci = writer[w].ci + 1, r.errors = writer[w].errors + 1,
         stored' = stored, lateErrors' = lateErrors
  PROVE  (\E l, g : Ledger(l, g))'
<1>1. ContentionType
  BY DEF ContentionInv
<1>a. PICK n : n = writer[w].ci
  OBVIOUS
<1> DEFINE c == <<w, n>>
           g == given \cup {c}
<1>2. n \in Nat \ {0} /\ c \in Batches /\ c[1] = w /\ c[2] = n
  BY <1>1, <1>a, BatchOf DEF ContentionType, Row
<1>3. /\ \A v \in Writers \ {w} : writer'[v].ci = writer[v].ci
      /\ writer'[w].ci = n + 1
  BY <1>a DEF Moves
<1>4. \A b \in Batches : b[1] \in Writers /\ b[2] \in Nat /\ b = <<b[1], b[2]>>
  BY ContentionAssumption DEF Batches
<1>5. Batches' = Batches
  BY DEF Batches
<1>6. /\ late \in [Batches -> Nat] /\ given \in SUBSET Batches
      /\ SumFunction(late) = lateErrors /\ Cardinality(given) = errors
      /\ \A b \in Batches : stored[b] = IF b[2] < writer[b[1]].ci /\ b \notin given
                                          THEN late[b] + 1 ELSE late[b]
      /\ \A b \in given : b[2] < writer[b[1]].ci
  BY DEF Ledger
<1>7. ~(c[2] < writer[c[1]].ci) /\ c \notin given
  BY <1>2, <1>6, <1>a
<1>8. Cardinality(g) = errors'
  <2>1. errors \in Nat /\ errors' = errors + 1
    <3>1. errors \in Nat /\ errors' \in Nat /\ errors' + writer[w].errors = errors + r.errors
      BY <1>1, ErrorsMove
    <3>2. writer[w].errors \in Nat
      BY <1>1 DEF ContentionType, Row
    <3> QED
      BY <3>1, <3>2
  <2>2. IsFiniteSet(given)
    BY <1>6, FiniteBatches, FS_Subset
  <2> HIDE DEF c
  <2>3. Cardinality(g) = Cardinality(given) + 1
    BY <1>7, <2>2, FS_AddElement
  <2> QED
    BY <1>6, <2>1, <2>3
<1>9. ASSUME NEW b \in Batches
      PROVE  stored'[b] = IF b[2] < writer'[b[1]].ci /\ b \notin g
                            THEN late[b] + 1 ELSE late[b]
  <2>1. CASE b = c
    <3>1. stored[c] = late[c] /\ c \in g
      BY <1>2, <1>6, <1>7
    <3> HIDE DEF c, g
    <3> QED
      BY <2>1, <3>1
  <2>2. CASE b # c
    <3>1. b \in g <=> b \in given
      BY <2>2
    <3>2. b[2] < writer'[b[1]].ci <=> b[2] < writer[b[1]].ci
      <4>1. CASE b[1] = w
        <5>1. b[2] # n
          BY <1>4, <2>2, <4>1
        <5> QED
          BY <1>2, <1>3, <1>4, <1>a, <4>1, <5>1
      <4>2. CASE b[1] # w
        BY <1>3, <1>4, <4>2
      <4> QED
        BY <4>1, <4>2
    <3> HIDE DEF c, g
    <3> QED
      BY <1>6, <3>1, <3>2
  <2> QED
    BY <2>1, <2>2
<1>10. \A b \in g : b[2] < writer'[b[1]].ci
  <2> TAKE b \in g
  <2>1. CASE b = c
    <3>1. b[1] = w /\ b[2] = n /\ n < n + 1
      BY <1>2, <2>1
    <3> QED
      BY <1>3, <3>1
  <2>2. CASE b \in given
    <3>1. b[1] \in Writers /\ b[2] \in Nat /\ b[2] < writer[b[1]].ci
      BY <1>4, <1>6, <2>2
    <3> QED
      BY <1>2, <1>3, <1>a, <3>1
  <2> QED
    BY <2>1, <2>2
<1>11. g \in SUBSET Batches
  BY <1>2, <1>6
<1>12. Ledger(late, g)'
  <2> HIDE DEF g
  <2>1. \A b \in Batches : IF b[2] < writer'[b[1]].ci /\ b \notin g
                             THEN stored'[b] = late[b] + 1 ELSE stored'[b] = late[b]
    BY <1>9
  <2> QED
    BY <1>5, <1>6, <1>8, <1>10, <1>11, <2>1 DEF Ledger
<1> QED
  BY <1>12

(* Every step of the trial keeps the ledger.                                 *)
LEMMA LedgerKept ==
  ASSUME ContentionInv, [ContentionNext]_contentionVars
  PROVE  (\E late, given : Ledger(late, given))'
<1>1. ContentionType
  BY DEF ContentionInv
<1>2. PICK late, given : Ledger(late, given)
  BY DEF ContentionInv
<1>3. \A v \in Writers : writer[v] \in Row
  BY <1>1 DEF ContentionType
<1>4. ASSUME UNCHANGED <<writer, stored, lateErrors>> PROVE (\E l, g : Ledger(l, g))'
  <2>1. Ledger(late, given)'
    BY <1>2, <1>4 DEF Ledger, Batches, errors
  <2> QED
    BY <2>1
<1>5. ASSUME NEW w \in Writers, LoadTable(w) PROVE (\E l, g : Ledger(l, g))'
  <2> DEFINE r == [writer[w] EXCEPT !.at = "try", !.loaded = version]
  <2>1. r.ci = writer[w].ci /\ r.errors = writer[w].errors
    BY <1>3 DEF Row
  <2>2. Moves(w, r)
    BY <1>1, <1>5, LoadMoves
  <2>3. stored' = stored /\ lateErrors' = lateErrors
    BY <1>5 DEF LoadTable
  <2> HIDE DEF r
  <2> QED
    BY <1>2, <2>1, <2>2, <2>3, LedgerStays
<1>6. ASSUME NEW w \in Writers, Commit(w) PROVE (\E l, g : Ledger(l, g))'
  <2> DEFINE r == [writer[w] EXCEPT !.ci = writer[w].ci + 1, !.attempt = 1, !.loaded = version + 1]
  <2>1. r.ci = writer[w].ci + 1 /\ r.errors = writer[w].errors
    BY <1>3 DEF Row
  <2>2. Moves(w, r)
    BY <1>1, <1>6, CommitMoves
  <2>3. Stores(w) /\ lateErrors' = lateErrors /\ writer[w].ci <= COMMITS_PER_WRITER
    BY <1>6 DEF Commit, Trying
  <2> HIDE DEF r
  <2> QED
    BY <1>2, <2>1, <2>2, <2>3, LedgerCommits
<1>7. ASSUME NEW w \in Writers, Conflict(w) \/ Refused(w) \/ LateError(w)
      PROVE  (\E l, g : Ledger(l, g))'
  <2> DEFINE r == [writer[w] EXCEPT !.retries = writer[w].retries + 1, !.at = "retry"]
  <2>1. r.ci = writer[w].ci /\ r.errors = writer[w].errors
    BY <1>3 DEF Row
  <2>2. Moves(w, r)
    BY <1>1, <1>7, RaisesMoves DEF Conflict, Refused, LateError
  <2> HIDE DEF r
  <2>3. CASE Conflict(w) \/ Refused(w)
    <3>1. stored' = stored /\ lateErrors' = lateErrors
      BY <2>3 DEF Conflict, Refused
    <3> QED
      BY <1>2, <2>1, <2>2, <3>1, LedgerStays
  <2>4. CASE LateError(w)
    <3>1. Stores(w) /\ lateErrors' = lateErrors + 1 /\ writer[w].ci <= COMMITS_PER_WRITER
      BY <2>4 DEF LateError, Trying
    <3> QED
      BY <1>2, <2>1, <2>2, <3>1, LedgerLate
  <2> QED
    BY <1>7, <2>3, <2>4
<1>8. ASSUME NEW w \in Writers, Retry(w) \/ RetryUnloaded(w) PROVE (\E l, g : Ledger(l, g))'
  <2>1. PICK r \in Row :
          /\ Moves(w, r)
          /\ \/ r.ci = writer[w].ci /\ r.errors = writer[w].errors
             \/ r.ci = writer[w].ci + 1 /\ r.errors = writer[w].errors + 1
    BY <1>1, <1>8, RetryMoves
  <2>2. stored' = stored /\ lateErrors' = lateErrors /\ writer[w].at = "retry"
    BY <1>8 DEF Retry, RetryUnloaded
  <2>3. writer[w].ci <= COMMITS_PER_WRITER
    BY <2>2 DEF ContentionInv
  <2>4. CASE r.ci = writer[w].ci /\ r.errors = writer[w].errors
    BY <1>2, <2>1, <2>2, <2>4, LedgerStays
  <2>5. CASE r.ci = writer[w].ci + 1 /\ r.errors = writer[w].errors + 1
    BY <1>2, <2>1, <2>2, <2>3, <2>5, LedgerGivesUp
  <2> QED
    BY <2>1, <2>4, <2>5
<1>9. ASSUME NEW e \in {"ducklake", "iceberg"}, StartTrial(e) PROVE (\E l, g : Ledger(l, g))'
  BY <1>4, <1>9 DEF StartTrial
<1>10. CASE UNCHANGED contentionVars
  BY <1>4, <1>10 DEF contentionVars
<1> QED
  BY <1>5, <1>6, <1>7, <1>8, <1>9, <1>10 DEF ContentionNext

(* From the accounts: summed over the writers, each commit is charged to     *)
(* all of them but the one that made it.                                     *)
LEMMA RetriesFollow == ContentionInv => RetriesAreContention
<1> SUFFICES ASSUME ContentionInv PROVE RetriesAreContention
  OBVIOUS
<1>1. version \in Nat /\ faults \in Nat /\ \A w \in Writers : writer[w].retries \in Nat
  BY DEF ContentionInv, ContentionType, Row
<1>2. PICK own, f : Accounts(own, f)
  BY DEF ContentionInv
<1>3. /\ own \in [Writers -> Nat] /\ f \in [Writers -> Nat]
      /\ SumFunction(own) = version /\ SumFunction(f) = faults
      /\ \A w \in Writers : writer[w].retries + own[w] + Owing(w) <= version + f[w]
  BY <1>2 DEF Accounts
<1> DEFINE tries == [w \in Writers |-> writer[w].retries]
           all   == [w \in Writers |-> version]
           left  == [w \in Writers |-> tries[w] + own[w]]
           right == [w \in Writers |-> all[w] + f[w]]
           n     == Cardinality(Writers)
<1>4. tries \in [Writers -> Nat] /\ all \in [Writers -> Nat]
  BY <1>1
<1>5. left \in [Writers -> Nat] /\ right \in [Writers -> Nat]
  BY <1>1, <1>3, <1>4
<1>6. \A w \in Writers : left[w] <= right[w]
  <2> TAKE w \in Writers
  <2>1. writer[w].retries \in Nat /\ own[w] \in Nat /\ f[w] \in Nat /\ Owing(w) \in 0..1
    BY <1>1, <1>3 DEF Owing
  <2>2. writer[w].retries + own[w] + Owing(w) <= version + f[w]
    BY <1>3
  <2> HIDE DEF Owing
  <2>3. writer[w].retries + own[w] <= version + f[w]
    BY <1>1, <2>1, <2>2
  <2> QED
    BY <2>3
<1>7. SumFunction(all) = n * version
  BY <1>1, FiniteBatches, SumConstant
<1>8. retries = SumFunction(tries)
  BY DEF retries
<1>9. n \in Nat
  BY FiniteBatches, FS_CardinalityType
<1> HIDE DEF tries, all, n
<1>10. /\ SumFunction(left) = SumFunction(tries) + version
       /\ SumFunction(right) = SumFunction(all) + faults
       /\ SumFunction(tries) \in Nat
  BY <1>3, <1>4, FiniteBatches, SumPlus, SumType
<1> HIDE DEF left, right
<1>11. SumFunction(left) <= SumFunction(right)
  BY <1>5, <1>6, FiniteBatches, SumMono
<1>12. (n - 1) * version = n * version - version /\ n * version \in Nat
  BY <1>1, <1>9
<1>13. retries <= (n - 1) * version + faults
  BY <1>1, <1>7, <1>8, <1>10, <1>11, <1>12
<1> QED
  BY <1>13 DEF RetriesAreContention, n

(* From the ledger: at the end of a trial a batch is lost only if it was     *)
(* given up, and there are as many copies too many as late commits.          *)
LEMMA ReportFollows == ContentionInv => ReportMatchesTable
<1> SUFFICES ASSUME ContentionInv, TrialEnded
             PROVE  /\ Duplicated <= lateErrors
                    /\ Cardinality(Lost) <= errors /\ errors <= Cardinality(Lost) + lateErrors
  BY DEF ReportMatchesTable
<1>1. /\ stored \in [Batches -> Nat] /\ lateErrors \in Nat
      /\ \A w \in Writers : writer[w].ci \in Nat
  BY DEF ContentionInv, ContentionType, Row
<1>2. PICK late, given : Ledger(late, given)
  BY DEF ContentionInv
<1>3. /\ late \in [Batches -> Nat] /\ given \in SUBSET Batches
      /\ SumFunction(late) = lateErrors /\ Cardinality(given) = errors
      /\ \A b \in Batches : stored[b] = IF b[2] < writer[b[1]].ci /\ b \notin given
                                          THEN late[b] + 1 ELSE late[b]
  BY <1>2 DEF Ledger
<1>4. \A b \in Batches : b[2] < writer[b[1]].ci
  BY <1>1, ContentionAssumption DEF TrialEnded, Batches
<1>5. \A b \in Batches : /\ late[b] \in Nat
                         /\ stored[b] = IF b \in given THEN late[b] ELSE late[b] + 1
  BY <1>3, <1>4
<1>6. Duplicated <= lateErrors
  <2> DEFINE dup == [b \in Batches |-> IF stored[b] > 1 THEN stored[b] - 1 ELSE 0]
  <2>1. dup \in [Batches -> Nat]
    BY <1>1
  <2>2. \A b \in Batches : dup[b] <= late[b]
    BY <1>5
  <2>3. Duplicated = SumFunction(dup)
    BY DEF Duplicated
  <2> HIDE DEF dup
  <2> QED
    BY <1>3, <2>1, <2>2, <2>3, FiniteBatches, SumMono
<1> DEFINE paid == {b \in Batches : late[b] > 0}
<1>7. Lost \subseteq given /\ given \subseteq Lost \cup paid
  BY <1>3, <1>5 DEF Lost
<1>8. IsFiniteSet(given) /\ IsFiniteSet(Lost) /\ IsFiniteSet(paid)
  <2>1. Lost \subseteq Batches /\ paid \subseteq Batches
    BY DEF Lost
  <2> QED
    BY <1>3, <2>1, FiniteBatches, FS_Subset
<1>9. Cardinality(paid) <= lateErrors
  BY <1>3, FiniteBatches, SumCounts
<1> HIDE DEF paid
<1>10. Cardinality(Lost) <= Cardinality(given)
  BY <1>7, <1>8, FS_Subset
<1>11. Cardinality(given) <= Cardinality(Lost \cup paid)
  BY <1>7, <1>8, FS_Union, FS_Subset
<1>12. /\ Cardinality(Lost \cup paid)
            = Cardinality(Lost) + Cardinality(paid) - Cardinality(Lost \cap paid)
       /\ Cardinality(Lost \cap paid) \in Nat
  BY <1>8, FS_Union, FS_Intersection, FS_CardinalityType
<1>13. /\ Cardinality(Lost) \in Nat /\ Cardinality(paid) \in Nat /\ Cardinality(given) \in Nat
       /\ Cardinality(Lost \cup paid) \in Nat
  BY <1>8, FS_Union, FS_CardinalityType
<1> QED
  BY <1>1, <1>3, <1>6, <1>9, <1>10, <1>11, <1>12, <1>13

(* For any number of writers, batches and attempts, and whatever the faults  *)
(* of the catalog, at the end of a trial the batches lost and those stored   *)
(* twice are within the errors and the late commits it reports, and at       *)
(* every moment the retries are within the commits of the other writers and  *)
(* the faults.                                                               *)
THEOREM TrialFiguresHold ==
  ContentionInit /\ [][ContentionNext]_contentionVars => []TrialFigures
<1>1. ContentionInit => ContentionInv
  BY ContentionStarts
<1>2. ContentionInv /\ [ContentionNext]_contentionVars => ContentionInv'
  <2> SUFFICES ASSUME ContentionInv, [ContentionNext]_contentionVars PROVE ContentionInv'
    OBVIOUS
  <2>1. ContentionType'
    BY TypeKept DEF ContentionInv
  <2> QED
    BY <2>1, LoadedKept, AccountsKept, LedgerKept DEF ContentionInv
<1>3. ContentionInv => TrialFigures
  BY RetriesFollow, ReportFollows DEF TrialFigures
<1> QED
  BY <1>1, <1>2, <1>3, PTL
=============================================================================
