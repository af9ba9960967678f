------------------------------ MODULE SumProofs ------------------------------
(***************************************************************************)
(* What SumFunction of the community module Functions computes, for every    *)
(* function from a finite set to the integers: the sums over obligations and  *)
(* referrers in the specifications.  The module defines it by a recursion on   *)
(* subsets; each fact is shown for a smallest subset that would not have it.    *)
(* Recursions on a number are treated alike, with SmallestNat. And what          *)
(* FlattenSeq of SequencesExt makes of a sequence of sequences.                   *)
(***************************************************************************)
EXTENDS Functions, SequencesExt, FiniteSetTheorems, SequenceTheorems, NaturalsInduction, TLAPS

\* Some natural numbers have a least one among them.
LEMMA SmallestNat ==
    ASSUME NEW T \in SUBSET Nat, T # {}
    PROVE  \E n \in T : \A m \in T : n <= m
<1> DEFINE R == {mn \in Nat \X Nat : mn[1] < mn[2]}
<1>1. IsWellFoundedOn(R, Nat)
  BY NatLessThanWellFounded, Zenon DEF OpToRel
<1>2. PICK n \in T : \A m \in T : ~ (<<m, n>> \in R)
  <2> HIDE DEF R
  <2> QED
    BY <1>1, WFMin, Zenon
<1>3. ASSUME NEW m \in T PROVE n <= m
  <2>1. m \in Nat /\ n \in Nat /\ <<m, n>> \notin R
    BY <1>2
  <2> QED
    BY <2>1
<1> QED
  BY <1>3

PickOf(s) == CHOOSE x \in s : TRUE

\* sum gives every subset of S the sum of f over it
Sums(sum, f, S) ==
    sum = [s \in SUBSET S |->
             IF s = {} THEN 0 ELSE f[PickOf(s)] + sum[s \ {PickOf(s)}]]

SumTable(f, S) == CHOOSE sum : Sums(sum, f, S)

\* Among some subsets of a finite set there is one that contains no other.
LEMMA SmallestSubset ==
    ASSUME NEW S, IsFiniteSet(S), NEW T \in SUBSET SUBSET S, T # {}
    PROVE  \E x \in T : \A y \in T : y \subseteq x => y = x
<1>1. IsWellFoundedOn(StrictSubsetOrdering(S), SUBSET S)
  BY FS_StrictSubsetOrderingWellFounded, FS_FiniteSubsetsOfFinite
<1>2. PICK x \in T : \A y \in T : ~ (<<y, x>> \in StrictSubsetOrdering(S))
  BY <1>1, WFMin, Zenon
<1>3. ASSUME NEW y \in T, y \subseteq x, y # x PROVE FALSE
  <2>1. <<y, x>> \in (SUBSET S) \X (SUBSET S)
    OBVIOUS
  <2> QED
    BY <1>2, <1>3, <2>1 DEF StrictSubsetOrdering
<1> QED
  BY <1>3

\* What is picked from a set that is not empty is in it.
LEMMA PickIsMember ==
    ASSUME NEW s, s # {}
    PROVE  PickOf(s) \in s
BY DEF PickOf

\* A table of sums at one subset.
LEMMA SumsAt ==
    ASSUME NEW f, NEW S, NEW sum, Sums(sum, f, S)
    PROVE  /\ sum[{}] = 0
           /\ \A s \in SUBSET S :
                 s # {} => sum[s] = f[PickOf(s)] + sum[s \ {PickOf(s)}]
BY DEF Sums

\* Two tables agree where both are defined and their functions do.
LEMMA SumsAgree ==
    ASSUME NEW D, IsFiniteSet(D), NEW S \in SUBSET D, NEW R \in SUBSET D,
           NEW f, NEW g, NEW sf, NEW sg, Sums(sf, f, S), Sums(sg, g, R),
           NEW s \in SUBSET (S \cap R), \A x \in s : f[x] = g[x]
    PROVE  sf[s] = sg[s]
<1> DEFINE T == {t \in SUBSET s : sf[t] # sg[t]}
<1>1. SUFFICES ASSUME T # {} PROVE FALSE
  OBVIOUS
<1>2. IsFiniteSet(s)
  BY FS_Subset
<1>3. PICK t \in T : \A y \in T : y \subseteq t => y = t
  <2>1. T \in SUBSET SUBSET s
    OBVIOUS
  <2> HIDE DEF T
  <2> QED
    BY <1>1, <1>2, <2>1, SmallestSubset
<1>4. t \in SUBSET s /\ t \in SUBSET S /\ t \in SUBSET R /\ sf[t] # sg[t]
  OBVIOUS
<1>5. \A y \in SUBSET s : y \subseteq t /\ y # t => sf[y] = sg[y]
  BY <1>3
<1> HIDE DEF T
<1>6. /\ sf[{}] = 0
      /\ \A v \in SUBSET S : v # {} => sf[v] = f[PickOf(v)] + sf[v \ {PickOf(v)}]
  BY DEF Sums
<1>7. /\ sg[{}] = 0
      /\ \A v \in SUBSET R : v # {} => sg[v] = g[PickOf(v)] + sg[v \ {PickOf(v)}]
  BY SumsAt
<1>8. CASE t = {}
  BY <1>8, <1>4, <1>6, <1>7
<1>9. CASE t # {}
  <2> DEFINE p == PickOf(t)
             u == t \ {p}
  <2>1. p \in t /\ u \subseteq t /\ u # t
    BY <1>9, PickIsMember
  <2> HIDE DEF p
  <2>2. sf[u] = sg[u]
    BY <1>4, <1>5, <2>1
  <2>3. sf[t] = f[p] + sf[u]
    BY <1>9, <1>4, <1>6 DEF p
  <2>4. sg[t] = g[p] + sg[u]
    BY <1>9, <1>4, <1>7 DEF p
  <2> QED
    BY <1>4, <2>1, <2>2, <2>3, <2>4
<1> QED
  BY <1>8, <1>9

\* Every subset of a finite set has a table of sums.
LEMMA SumsExist ==
    ASSUME NEW D, IsFiniteSet(D), NEW f
    PROVE  Sums(SumTable(f, D), f, D)
<1> DEFINE Has(S) == \E sum : Sums(sum, f, S)
           T == {S \in SUBSET D : ~Has(S)}
           At(S) == SumTable(f, S)[S]
<1>0. ASSUME NEW S, Has(S) PROVE Sums(SumTable(f, S), f, S)
  BY <1>0 DEF SumTable
<1>1. ASSUME T # {} PROVE FALSE
  <2>1. PICK S \in T : \A y \in T : y \subseteq S => y = S
    <3>1. T \in SUBSET SUBSET D
      OBVIOUS
    <3> HIDE DEF T
    <3> QED
      BY <1>1, <3>1, SmallestSubset
  <2>2. \A U \in SUBSET S : U # S => Sums(SumTable(f, U), f, U)
    BY <1>0, <2>1
  <2> DEFINE sum == [s \in SUBSET S |->
                      IF s = {} THEN 0 ELSE f[PickOf(s)] + At(s \ {PickOf(s)})]
  <2>3. ASSUME NEW U \in SUBSET S, U # S PROVE sum[U] = At(U)
    <3>1. Sums(SumTable(f, U), f, U)
      BY <2>2, <2>3
    <3>2. CASE U = {}
      <4>1. SumTable(f, U)[{}] = 0
        BY <3>1, SumsAt
      <4> QED
        BY <3>2, <4>1
    <3>3. CASE U # {}
      <4> DEFINE p == PickOf(U)
                 W == U \ {p}
      <4>1. p \in U
        BY <3>3, PickIsMember
      <4>2. W \in SUBSET S /\ W # S /\ W \in SUBSET U
        BY <4>1
      <4>3. Sums(SumTable(f, W), f, W)
        BY <2>2, <4>2
      <4>4. SumTable(f, U)[W] = SumTable(f, W)[W]
        <5>1. U \in SUBSET D /\ W \in SUBSET D /\ W \in SUBSET (U \cap W)
          BY <4>2
        <5> HIDE DEF W
        <5> QED
          BY <3>1, <4>3, <5>1, SumsAgree
      <4>5. At(U) = f[p] + SumTable(f, U)[W]
        BY <3>1, <3>3, SumsAt
      <4>6. sum[U] = f[p] + At(W)
        BY <3>3
      <4> QED
        BY <4>4, <4>5, <4>6
    <3> QED
      BY <3>2, <3>3
  <2>4. ASSUME NEW s \in SUBSET S, s # {}
        PROVE  sum[s] = f[PickOf(s)] + sum[s \ {PickOf(s)}]
    <3> DEFINE U == s \ {PickOf(s)}
    <3>1. U \in SUBSET S /\ U # S
      BY <2>4, PickIsMember
    <3>2. sum[U] = At(U)
      BY <2>3, <3>1
    <3> QED
      BY <2>4, <3>2
  <2>5. Sums(sum, f, S)
    <3>1. sum = [s \in SUBSET S |->
                   IF s = {} THEN 0 ELSE f[PickOf(s)] + sum[s \ {PickOf(s)}]]
      BY <2>4
    <3> QED
      BY <3>1, Zenon DEF Sums
  <2> QED
    BY <2>1, <2>5
<1>2. Has(D)
  BY <1>1
<1> QED
  BY <1>0, <1>2

\* SumFunction reads the table of its function at the function's domain.
LEMMA SumFunctionTable ==
    ASSUME NEW f
    PROVE  SumFunction(f) = SumTable(f, DOMAIN f)[DOMAIN f]
BY DEF SumFunction, SumFunctionOnSet, FoldFunctionOnSet, MapThenFoldSet, SumTable, Sums, PickOf

-----------------------------------------------------------------------------
(* The table of a function to the integers.                                  *)

\* The recursion that the table of a function satisfies.
LEMMA TableFacts ==
    ASSUME NEW D, IsFiniteSet(D), NEW f
    PROVE  LET sum == SumTable(f, D)
           IN /\ SumFunction(f) = SumTable(f, DOMAIN f)[DOMAIN f]
              /\ sum[{}] = 0
              /\ \A s \in SUBSET D :
                    s # {} => sum[s] = f[PickOf(s)] + sum[s \ {PickOf(s)}]
<1>1. Sums(SumTable(f, D), f, D)
  BY SumsExist
<1> QED
  BY <1>1, SumsAt, SumFunctionTable

\* Sums of integers are integers.
LEMMA TableInt ==
    ASSUME NEW D, IsFiniteSet(D), NEW f \in [D -> Int], NEW s \in SUBSET D
    PROVE  SumTable(f, D)[s] \in Int
<1> DEFINE sum == SumTable(f, D)
           T == {t \in SUBSET D : sum[t] \notin Int}
<1>1. SUFFICES ASSUME T # {} PROVE FALSE
  OBVIOUS
<1>2. PICK t \in T : \A y \in T : y \subseteq t => y = t
  <2>1. T \in SUBSET SUBSET D
    OBVIOUS
  <2> HIDE DEF T
  <2> QED
    BY <1>1, <2>1, SmallestSubset
<1>3. /\ sum[{}] = 0
      /\ \A v \in SUBSET D : v # {} => sum[v] = f[PickOf(v)] + sum[v \ {PickOf(v)}]
  BY TableFacts
<1> HIDE DEF sum
<1>4. t # {}
  <2>1. sum[t] \notin Int
    OBVIOUS
  <2>2. sum[{}] = 0
    BY <1>3
  <2> HIDE DEF T
  <2> QED
    BY <2>1, <2>2
<1> DEFINE p == PickOf(t)
           u == t \ {p}
<1>5. p \in t
  BY <1>4, PickIsMember
<1>6. sum[t] = f[p] + sum[u]
  BY <1>3, <1>4
<1> HIDE DEF p
<1>7. u \in SUBSET D /\ u \subseteq t /\ u # t /\ f[p] \in Int
  BY <1>5
<1>8. sum[u] \in Int
  BY <1>2, <1>7
<1> QED
  BY <1>6, <1>7, <1>8

\* An element's share of a sum may be taken out first, whichever it is.
LEMMA TableRemove ==
    ASSUME NEW D, IsFiniteSet(D), NEW f \in [D -> Int], NEW s \in SUBSET D, NEW e \in s
    PROVE  SumTable(f, D)[s] = f[e] + SumTable(f, D)[s \ {e}]
<1> DEFINE sum == SumTable(f, D)
           T == {t \in SUBSET D : \E x \in t : sum[t] # f[x] + sum[t \ {x}]}
<1>1. SUFFICES ASSUME T # {} PROVE FALSE
  OBVIOUS
<1>2. PICK t \in T : \A y \in T : y \subseteq t => y = t
  <2>1. T \in SUBSET SUBSET D
    OBVIOUS
  <2> HIDE DEF T
  <2> QED
    BY <1>1, <2>1, SmallestSubset
<1>3. \A v \in SUBSET D : v # {} => sum[v] = f[PickOf(v)] + sum[v \ {PickOf(v)}]
  BY TableFacts
<1>4. \A v \in SUBSET D : sum[v] \in Int
  BY TableInt
<1> HIDE DEF sum
<1>5. PICK x \in t : sum[t] # f[x] + sum[t \ {x}]
  OBVIOUS
<1>6. \A y \in SUBSET D : y \subseteq t /\ y # t
         => \A z \in y : sum[y] = f[z] + sum[y \ {z}]
  BY <1>2
<1> DEFINE p == PickOf(t)
<1>7. p \in t /\ t \in SUBSET D
  BY PickIsMember
<1>8. sum[t] = f[p] + sum[t \ {p}]
  BY <1>3, <1>7
<1> HIDE DEF p, T
<1>9. p # x
  BY <1>5, <1>8
<1>10. sum[t \ {p}] = f[x] + sum[(t \ {p}) \ {x}]
  <2>1. t \ {p} \in SUBSET D /\ t \ {p} \subseteq t /\ t \ {p} # t /\ x \in t \ {p}
    BY <1>7, <1>9
  <2> QED
    BY <1>6, <2>1
<1>11. sum[t \ {x}] = f[p] + sum[(t \ {x}) \ {p}]
  <2>1. t \ {x} \in SUBSET D /\ t \ {x} \subseteq t /\ t \ {x} # t /\ p \in t \ {x}
    BY <1>7, <1>9
  <2> QED
    BY <1>6, <2>1
<1>12. (t \ {p}) \ {x} = (t \ {x}) \ {p} /\ (t \ {p}) \ {x} \in SUBSET D
  BY <1>7
<1> DEFINE rest == sum[(t \ {p}) \ {x}]
<1>13. f[p] \in Int /\ f[x] \in Int /\ rest \in Int
  BY <1>4, <1>7, <1>12
<1>14. sum[t \ {p}] = f[x] + rest /\ sum[t \ {x}] = f[p] + rest
  BY <1>10, <1>11, <1>12
<1> HIDE DEF rest
<1>15. sum[t] = f[x] + sum[t \ {x}]
  BY <1>8, <1>13, <1>14
<1> QED
  BY <1>5, <1>15

-----------------------------------------------------------------------------
(* What the specifications' proofs use.                                      *)

\* A sum of naturals is a natural no smaller than any of its parts.
LEMMA SumNat ==
    ASSUME NEW D, IsFiniteSet(D), NEW f \in [D -> Nat]
    PROVE  SumFunction(f) \in Nat /\ \A e \in D : f[e] <= SumFunction(f)
<1> DEFINE sum == SumTable(f, D)
           T == {t \in SUBSET D : sum[t] \notin Nat}
<1>1. f \in [D -> Int]
  OBVIOUS
<1>2. \A s \in SUBSET D : \A e \in s : sum[s] = f[e] + sum[s \ {e}]
  BY <1>1, TableRemove
<1>3. sum[{}] = 0 /\ SumFunction(f) = sum[D]
  BY TableFacts
<1> HIDE DEF sum
<1>4. ASSUME T # {} PROVE FALSE
  <2>1. PICK t \in T : \A y \in T : y \subseteq t => y = t
    <3>1. T \in SUBSET SUBSET D
      OBVIOUS
    <3> HIDE DEF T
    <3> QED
      BY <1>4, <3>1, SmallestSubset
  <2>2. PICK e : e \in t
    BY <1>3
  <2>3. t \ {e} \in SUBSET D /\ t \ {e} \subseteq t /\ t \ {e} # t /\ e \in D
    BY <2>2
  <2>4. sum[t \ {e}] \in Nat
    BY <2>1, <2>3
  <2>5. sum[t] = f[e] + sum[t \ {e}]
    BY <1>2, <2>2
  <2> QED
    BY <2>3, <2>4, <2>5
<1>5. \A s \in SUBSET D : sum[s] \in Nat
  BY <1>4
<1>6. ASSUME NEW e \in D PROVE f[e] <= sum[D]
  <2>1. sum[D] = f[e] + sum[D \ {e}] /\ sum[D \ {e}] \in Nat /\ f[e] \in Nat
    BY <1>2, <1>5
  <2> QED
    BY <2>1
<1> QED
  BY <1>3, <1>5, <1>6

\* A sum whose parts are all zero is zero.
LEMMA SumZero ==
    ASSUME NEW D, IsFiniteSet(D), NEW f \in [D -> Nat], \A e \in D : f[e] = 0
    PROVE  SumFunction(f) = 0
<1> DEFINE sum == SumTable(f, D)
           T == {t \in SUBSET D : sum[t] # 0}
<1>1. f \in [D -> Int]
  OBVIOUS
<1>2. \A s \in SUBSET D : \A e \in s : sum[s] = f[e] + sum[s \ {e}]
  BY <1>1, TableRemove
<1>3. sum[{}] = 0 /\ SumFunction(f) = sum[D]
  BY TableFacts
<1> HIDE DEF sum
<1>4. ASSUME T # {} PROVE FALSE
  <2>1. PICK t \in T : \A y \in T : y \subseteq t => y = t
    <3>1. T \in SUBSET SUBSET D
      OBVIOUS
    <3> HIDE DEF T
    <3> QED
      BY <1>4, <3>1, SmallestSubset
  <2>2. PICK e : e \in t
    BY <1>3
  <2>3. t \ {e} \in SUBSET D /\ t \ {e} \subseteq t /\ t \ {e} # t /\ e \in D
    BY <2>2
  <2>4. sum[t \ {e}] = 0
    BY <2>1, <2>3
  <2>5. sum[t] = f[e] + sum[t \ {e}]
    BY <1>2, <2>2
  <2> QED
    BY <2>3, <2>4, <2>5
<1> QED
  BY <1>3, <1>4

\* A sum changes by as much as the one part of it that changes.
LEMMA SumChange ==
    ASSUME NEW D, IsFiniteSet(D), NEW f \in [D -> Nat], NEW g \in [D -> Nat],
           NEW e \in D, \A x \in D \ {e} : g[x] = f[x]
    PROVE  SumFunction(g) = SumFunction(f) - f[e] + g[e]
<1> DEFINE s == D \ {e}
<1>1. f \in [D -> Int] /\ g \in [D -> Int] /\ s \in SUBSET D
  OBVIOUS
<1>2. SumTable(f, D)[D] = f[e] + SumTable(f, D)[s]
  BY <1>1, TableRemove
<1>3. SumTable(g, D)[D] = g[e] + SumTable(g, D)[s]
  BY <1>1, TableRemove
<1>4. SumTable(f, D)[s] = SumTable(g, D)[s]
  <2>1. Sums(SumTable(f, D), f, D) /\ Sums(SumTable(g, D), g, D)
    BY SumsExist
  <2>2. s \in SUBSET (D \cap D) /\ D \in SUBSET D /\ \A x \in s : f[x] = g[x]
    OBVIOUS
  <2> HIDE DEF s
  <2> QED
    BY <2>1, <2>2, SumsAgree
<1>5. SumTable(f, D)[s] \in Int
  BY <1>1, TableInt
<1>6. SumFunction(f) = SumTable(f, D)[D] /\ SumFunction(g) = SumTable(g, D)[D]
  BY TableFacts
<1>7. f[e] \in Int /\ g[e] \in Int
  OBVIOUS
<1> HIDE DEF s
<1> QED
  BY <1>2, <1>3, <1>4, <1>5, <1>6, <1>7

\* A sum exceeds another by no more than the number of the parts that do, when
\* each of them exceeds its counterpart by no more than one.
LEMMA SumExcess ==
    ASSUME NEW D, IsFiniteSet(D), NEW f \in [D -> Nat], NEW g \in [D -> Nat],
           NEW U \in SUBSET D, \A x \in U : f[x] <= g[x] + 1,
           \A x \in D \ U : f[x] <= g[x]
    PROVE  SumFunction(f) <= SumFunction(g) + Cardinality(U)
<1> DEFINE sf == SumTable(f, D)
           sg == SumTable(g, D)
           T == {t \in SUBSET D : ~ (sf[t] <= sg[t] + Cardinality(t \cap U))}
<1>1. f \in [D -> Int] /\ g \in [D -> Int]
  OBVIOUS
<1>2. /\ \A s \in SUBSET D : \A e \in s : sf[s] = f[e] + sf[s \ {e}]
      /\ \A s \in SUBSET D : \A e \in s : sg[s] = g[e] + sg[s \ {e}]
  BY <1>1, TableRemove
<1>3. \A s \in SUBSET D : sf[s] \in Int /\ sg[s] \in Int
  BY <1>1, TableInt
<1>4. /\ sf[{}] = 0 /\ sg[{}] = 0
      /\ SumFunction(f) = sf[D] /\ SumFunction(g) = sg[D]
  BY TableFacts
<1> HIDE DEF sf, sg
<1>5. \A s \in SUBSET D : IsFiniteSet(s \cap U) /\ Cardinality(s \cap U) \in Nat
  BY FS_Subset, FS_Intersection, FS_CardinalityType
<1>6. ASSUME T # {} PROVE FALSE
  <2>1. PICK t \in T : \A y \in T : y \subseteq t => y = t
    <3>1. T \in SUBSET SUBSET D
      OBVIOUS
    <3> HIDE DEF T
    <3> QED
      BY <1>6, <3>1, SmallestSubset
  <2>2. t # {}
    <3>1. SUFFICES ASSUME t = {} PROVE FALSE
      OBVIOUS
    <3>2. t \cap U = {} /\ Cardinality({}) = 0
      BY <3>1, FS_EmptySet
    <3> QED
      BY <1>4, <3>1, <3>2
  <2>3. PICK e : e \in t
    BY <2>2
  <2> DEFINE u == t \ {e}
  <2>4. u \in SUBSET D /\ u \subseteq t /\ u # t /\ e \in D /\ t \in SUBSET D
    BY <2>3
  <2>5. sf[u] <= sg[u] + Cardinality(u \cap U)
    BY <2>1, <2>4
  <2>6. sf[t] = f[e] + sf[u] /\ sg[t] = g[e] + sg[u]
    BY <1>2, <2>3
  <2>7. Cardinality(u \cap U) = IF e \in U THEN Cardinality(t \cap U) - 1
                                ELSE Cardinality(t \cap U)
    <3> DEFINE v == t \cap U
    <3>1. u \cap U = v \ {e}
      OBVIOUS
    <3>2. IsFiniteSet(v) /\ (e \in v <=> e \in U)
      BY <1>5, <2>3
    <3> HIDE DEF v
    <3>3. Cardinality(v \ {e}) = IF e \in v THEN Cardinality(v) - 1 ELSE Cardinality(v)
      BY <3>2, FS_RemoveElement
    <3>4. Cardinality(u \cap U) = IF e \in U THEN Cardinality(v) - 1 ELSE Cardinality(v)
      BY <3>1, <3>2, <3>3
    <3> QED
      BY <3>4 DEF v
  <2>8. Cardinality(t \cap U) \in Nat
    BY <1>5
  <2>9. f[e] \in Nat /\ g[e] \in Nat /\ sf[u] \in Int /\ sg[u] \in Int
    BY <1>3, <2>4
  <2>10. ~ (sf[t] <= sg[t] + Cardinality(t \cap U))
    OBVIOUS
  <2> HIDE DEF u, T
  <2>11. CASE e \in U
    <3>1. f[e] <= g[e] + 1
      BY <2>11
    <3> QED
      BY <2>5, <2>6, <2>7, <2>8, <2>9, <2>10, <2>11, <3>1
  <2>12. CASE e \notin U
    <3>1. f[e] <= g[e]
      BY <2>4, <2>12
    <3> QED
      BY <2>5, <2>6, <2>7, <2>8, <2>9, <2>10, <2>12, <3>1
  <2> QED
    BY <2>11, <2>12
<1>7. sf[D] <= sg[D] + Cardinality(D \cap U)
  BY <1>6
<1>8. D \cap U = U
  OBVIOUS
<1> QED
  BY <1>4, <1>7, <1>8

-----------------------------------------------------------------------------
(* FlattenSeq of the community module SequencesExt.                          *)

\* What FlattenSeq computes one element after the other.
Flattens(f, s, n) == f = [i \in 1 .. n |-> IF i = 1 THEN s[i] ELSE f[i - 1] \o s[i]]

\* That recursion has a solution.
LEMMA FlattensExist ==
    ASSUME NEW s, NEW n \in Nat
    PROVE  \E f : Flattens(f, s, n)
<1> DEFINE T == {k \in Nat : ~ \E f : Flattens(f, s, k)}
<1>1. ASSUME T # {} PROVE FALSE
  <2>1. PICK k \in T : \A m \in T : k <= m
    <3>1. T \in SUBSET Nat
      OBVIOUS
    <3> HIDE DEF T
    <3> QED
      BY <1>1, <3>1, SmallestNat
  <2>2. CASE k = 0
    <3>1. Flattens([i \in 1 .. 0 |-> <<>>], s, 0)
      BY DEF Flattens
    <3> QED
      BY <2>2, <3>1
  <2>3. CASE k # 0
    <3>1. k - 1 \in Nat /\ ~(k <= k - 1)
      BY <2>3
    <3>2. PICK f : Flattens(f, s, k - 1)
      BY <2>1, <3>1
    <3> DEFINE g == [i \in 1 .. k |->
                       IF i = k THEN IF k = 1 THEN s[k] ELSE f[k - 1] \o s[k] ELSE f[i]]
    <3>3. ASSUME NEW i \in 1 .. k
          PROVE  g[i] = IF i = 1 THEN s[i] ELSE g[i - 1] \o s[i]
      <4>1. CASE i # k
        <5>1. i \in 1 .. (k - 1) /\ g[i] = f[i]
          BY <3>1, <4>1
        <5>2. f[i] = IF i = 1 THEN s[i] ELSE f[i - 1] \o s[i]
          BY <3>2, <5>1 DEF Flattens
        <5>3. i # 1 => i - 1 \in 1 .. k /\ i - 1 # k
          BY <3>1
        <5> QED
          BY <5>1, <5>2, <5>3
      <4>2. CASE i = k
        <5>1. i # 1 => i - 1 \in 1 .. k /\ i - 1 # k
          BY <3>1
        <5> QED
          BY <4>2, <5>1
      <4> QED
        BY <4>1, <4>2
    <3>4. Flattens(g, s, k)
      <4> HIDE DEF g
      <4>1. g = [i \in 1 .. k |-> g[i]]
        BY DEF g
      <4> QED
        BY <3>3, <4>1 DEF Flattens
    <3> QED
      BY <3>4
  <2> QED
    BY <2>2, <2>3
<1> QED
  BY <1>1

\* One element after the other, at its start and at each step.
LEMMA FlattenSteps ==
    ASSUME NEW s, NEW A, s \in Seq(A), s # <<>>
    PROVE  \E f : /\ FlattenSeq(s) = f[Len(s)]
                  /\ f[1] = s[1]
                  /\ \A i \in 2 .. Len(s) : f[i] = f[i - 1] \o s[i]
<1> DEFINE f == CHOOSE f : Flattens(f, s, Len(s))
<1>1. Len(s) \in Nat /\ Len(s) # 0
  BY EmptySeq, LenProperties
<1>2. Flattens(f, s, Len(s))
  <2>1. \E g : Flattens(g, s, Len(s))
    BY <1>1, FlattensExist
  <2> QED
    BY <2>1, Zenon
<1>3. FlattenSeq(s) = f[Len(s)]
  BY <1>1 DEF FlattenSeq, Flattens
<1> HIDE DEF f
<1>4. \A i \in 1 .. Len(s) : f[i] = IF i = 1 THEN s[i] ELSE f[i - 1] \o s[i]
  BY <1>2 DEF Flattens
<1>5. f[1] = s[1]
  BY <1>1, <1>4
<1>6. ASSUME NEW i \in 2 .. Len(s) PROVE f[i] = f[i - 1] \o s[i]
  <2>1. i \in 1 .. Len(s) /\ i # 1
    BY <1>1
  <2> QED
    BY <1>4, <2>1
<1> QED
  BY <1>3, <1>5, <1>6, Zenon

\* Flattening sequences over S gives a sequence over S.
LEMMA FlattenType ==
    ASSUME NEW S, NEW s \in Seq(Seq(S))
    PROVE  FlattenSeq(s) \in Seq(S)
<1>1. CASE s = <<>>
  BY <1>1 DEF FlattenSeq
<1>2. CASE s # <<>>
  <2>0. PICK f : /\ FlattenSeq(s) = f[Len(s)]
                 /\ f[1] = s[1]
                 /\ \A i \in 2 .. Len(s) : f[i] = f[i - 1] \o s[i]
    BY <1>2, FlattenSteps
  <2>1. Len(s) \in Nat /\ Len(s) # 0
    BY <1>2, EmptySeq, LenProperties
  <2> DEFINE T == {i \in 1 .. Len(s) : f[i] \notin Seq(S)}
  <2>2. ASSUME T # {} PROVE FALSE
    <3>1. PICK i \in T : \A j \in T : i <= j
      <4>1. T \in SUBSET Nat
        OBVIOUS
      <4> HIDE DEF T
      <4> QED
        BY <2>2, <4>1, SmallestNat
    <3>2. s[i] \in Seq(S)
      OBVIOUS
    <3>3. CASE i = 1
      BY <2>0, <3>2, <3>3
    <3>4. CASE i # 1
      <4>1. i \in 2 .. Len(s) /\ i - 1 \in 1 .. Len(s) /\ ~(i <= i - 1)
        BY <2>1, <3>4
      <4>2. f[i - 1] \in Seq(S) /\ f[i] = f[i - 1] \o s[i]
        BY <2>0, <3>1, <4>1
      <4>3. f[i] \notin Seq(S)
        OBVIOUS
      <4> QED
        BY <3>2, <4>2, <4>3, ConcatProperties
    <3> QED
      BY <3>3, <3>4
  <2>3. Len(s) \in 1 .. Len(s)
    BY <2>1
  <2> QED
    BY <2>0, <2>2, <2>3
<1> QED
  BY <1>1, <1>2

\* Leaving elements out of a sequence gives a sequence of the others.
LEMMA SublistType ==
    ASSUME NEW A, NEW s \in Seq(A), NEW B, NEW t, t = [i \in DOMAIN s |-> t[i]],
           \A i \in DOMAIN s : t[i] = <<>> \/ (t[i] = <<s[i]>> /\ s[i] \in B)
    PROVE  FlattenSeq(t) \in Seq(A \cap B)
<1>1. DOMAIN s = 1 .. Len(s) /\ Len(s) \in Nat
  BY LenProperties
<1>2. ASSUME NEW i \in 1 .. Len(s) PROVE t[i] \in Seq(A \cap B)
  <2>1. s[i] \in A
    BY <1>1, ElementOfSeq
  <2>2. CASE t[i] = <<>>
    <3>1. <<>> \in Seq(A \cap B)
      OBVIOUS
    <3> QED
      BY <2>2, <3>1
  <2>3. CASE t[i] = <<s[i]>> /\ s[i] \in B
    <3>1. \A x \in A \cap B : <<x>> \in Seq(A \cap B)
      OBVIOUS
    <3> QED
      BY <2>1, <2>3, <3>1
  <2> QED
    BY <1>1, <2>2, <2>3
<1>3. t \in Seq(Seq(A \cap B))
  BY <1>1, <1>2, IsASeq
<1> QED
  BY <1>3, FlattenType

\* One sequence, and two of them, flattened.
LEMMA FlattenFew ==
    ASSUME NEW S, NEW x \in Seq(S), NEW y \in Seq(S)
    PROVE  FlattenSeq(<<x>>) = x /\ FlattenSeq(<<x, y>>) = x \o y
<1>1. FlattenSeq(<<x>>) = x
  <2> DEFINE s == <<x>>
  <2>1. s \in Seq(Seq(S)) /\ s # <<>> /\ Len(s) = 1 /\ s[1] = x
    OBVIOUS
  <2> HIDE DEF s
  <2>2. FlattenSeq(s) = x
    BY <2>1, FlattenSteps
  <2> QED
    BY <2>2 DEF s
<1>2. FlattenSeq(<<x, y>>) = x \o y
  <2> DEFINE s == <<x, y>>
  <2>1. s \in Seq(Seq(S)) /\ s # <<>> /\ Len(s) = 2 /\ s[1] = x /\ s[2] = y
    OBVIOUS
  <2> HIDE DEF s
  <2>2. PICK f : /\ FlattenSeq(s) = f[Len(s)]
                 /\ f[1] = s[1]
                 /\ \A i \in 2 .. Len(s) : f[i] = f[i - 1] \o s[i]
    BY <2>1, FlattenSteps
  <2>3. 2 \in 2 .. Len(s) /\ 2 - 1 = 1
    BY <2>1
  <2>4. f[2] = f[1] \o s[2]
    BY <2>2, <2>3
  <2>5. FlattenSeq(s) = x \o y
    BY <2>1, <2>2, <2>4
  <2> QED
    BY <2>5 DEF s
<1> QED
  BY <1>1, <1>2

=============================================================================
