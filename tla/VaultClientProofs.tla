------------------------- MODULE VaultClientProofs -------------------------
(***************************************************************************)
(* Proofs about VaultClient, for any chains to start from, reserves, amounts,  *)
(* allocations, farms and bounds: the lookup table of a vault follows its        *)
(* administrator and its reserves as long as no transaction is refused or lost.   *)
(*                                                                                *)
(* An instruction is soft if it leaves the administrators and the table the        *)
(* vault points at as they are and brings no new reserve: then it takes nothing     *)
(* away that the table must hold. All operations but five build soft                 *)
(* instructions. Those five - to allocate, to name the next administrator, to          *)
(* accept, to synchronise without a table and to create - put the table right           *)
(* in one transaction or in two; until the last has landed, the invariant (OnCourse)      *)
(* says where the plan leads from any chain that time and others can bring about.          *)
(*                                                                                          *)
(* What a plan was worked out from may be a state that was read long before. Known           *)
(* is what that state still tells of the vault. An instruction that the former                 *)
(* administrator signed is refused, and one that lands was signed by an administrator            *)
(* for whom the table, too, is the one that was read, unless there was none then.                 *)
(***************************************************************************)
EXTENDS VaultClient, SumProofs

-----------------------------------------------------------------------------
(* Sequences of instructions and of transactions *)

IsSeq(s) == s \in Seq({s[i] : i \in DOMAIN s})

\* A sequence over any set is one over its own elements.
LEMMA OverItsOwn ==
    ASSUME NEW A, NEW s \in Seq(A)
    PROVE  /\ IsSeq(s) /\ Len(s) \in Nat /\ DOMAIN s = 1 .. Len(s)
           /\ \A i \in DOMAIN s : s[i] \in A
<1>1. Len(s) \in Nat /\ DOMAIN s = 1 .. Len(s) /\ \A i \in 1 .. Len(s) : s[i] \in A
  BY LenProperties, ElementOfSeq
<1>2. s = [i \in 1 .. Len(s) |-> s[i]]
  OBVIOUS
<1> DEFINE B == {s[i] : i \in DOMAIN s}
<1>3. s \in [1 .. Len(s) -> B]
  BY <1>1, <1>2
<1>4. s \in Seq(B)
  BY <1>1, <1>3 DEF Seq
<1> QED
  BY <1>1, <1>4 DEF IsSeq

\* A function on 1 .. n is one of n elements.
LEMMA TableSeq ==
    ASSUME NEW n \in Nat, NEW s, s = [i \in 1 .. n |-> s[i]]
    PROVE  IsSeq(s) /\ Len(s) = n /\ DOMAIN s = 1 .. n
<1> DEFINE B == {s[i] : i \in 1 .. n}
<1>1. DOMAIN s = 1 .. n
  OBVIOUS
<1>2. s \in [1 .. n -> B]
  OBVIOUS
<1>3. s \in Seq(B)
  BY <1>2 DEF Seq
<1>4. Len(s) = n
  BY <1>1, <1>3, LenProperties
<1> QED
  BY <1>1, <1>3, <1>4, OverItsOwn

\* Two of them, one after the other.
LEMMA Joined ==
    ASSUME NEW x, NEW y, IsSeq(x), IsSeq(y)
    PROVE  /\ IsSeq(x \o y) /\ Len(x \o y) = Len(x) + Len(y)
           /\ DOMAIN (x \o y) = 1 .. (Len(x) + Len(y))
           /\ Len(x) \in Nat /\ Len(y) \in Nat
           /\ \A i \in 1 .. Len(x) : (x \o y)[i] = x[i]
           /\ \A i \in 1 .. Len(y) : (x \o y)[Len(x) + i] = y[i]
<1> DEFINE A == {x[i] : i \in DOMAIN x} \cup {y[i] : i \in DOMAIN y}
<1>1. x \in Seq(A) /\ y \in Seq(A)
  <2>1. /\ Len(x) \in Nat /\ DOMAIN x = 1 .. Len(x) /\ \A i \in DOMAIN x : x[i] \in A
        /\ Len(y) \in Nat /\ DOMAIN y = 1 .. Len(y) /\ \A i \in DOMAIN y : y[i] \in A
    BY OverItsOwn DEF IsSeq
  <2>2. x = [i \in 1 .. Len(x) |-> x[i]] /\ y = [i \in 1 .. Len(y) |-> y[i]]
    BY DEF IsSeq
  <2>3. x \in [1 .. Len(x) -> A] /\ y \in [1 .. Len(y) -> A]
    <3> HIDE DEF A
    <3> QED
      BY <2>1, <2>2
  <2> QED
    BY <2>1, <2>3 DEF Seq
<1> HIDE DEF A
<1>2. x \o y \in Seq(A) /\ Len(x \o y) = Len(x) + Len(y) /\ Len(x) \in Nat /\ Len(y) \in Nat
  BY <1>1, ConcatProperties, LenProperties
<1>3. /\ \A i \in 1 .. Len(x) : (x \o y)[i] = x[i]
      /\ \A i \in 1 .. Len(y) : (x \o y)[Len(x) + i] = y[i]
  BY <1>1, <1>2
<1>4. IsSeq(x \o y) /\ DOMAIN (x \o y) = 1 .. (Len(x) + Len(y))
  BY <1>2, OverItsOwn
<1> QED
  BY <1>2, <1>3, <1>4

\* Flattening a sequence of sequences over A.
LEMMA Flattened ==
    ASSUME NEW A, NEW n \in Nat, NEW t, t = [i \in 1 .. n |-> t[i]],
           \A i \in 1 .. n : t[i] \in Seq(A)
    PROVE  FlattenSeq(t) \in Seq(A)
<1>1. t \in [1 .. n -> Seq(A)]
  OBVIOUS
<1>2. t \in Seq(Seq(A))
  BY <1>1 DEF Seq
<1> QED
  BY <1>2, FlattenType

\* Without gives elements of the sequence it is given.
LEMMA WithoutElements ==
    ASSUME NEW A, NEW s \in Seq(A), NEW S
    PROVE  Without(s, S) \in Seq(A)
<1> DEFINE t == [i \in DOMAIN s |-> IF s[i] \in S THEN <<>> ELSE <<s[i]>>]
<1>1. Len(s) \in Nat /\ DOMAIN s = 1 .. Len(s) /\ \A i \in DOMAIN s : s[i] \in A
  BY LenProperties, ElementOfSeq
<1>2. t = [i \in 1 .. Len(s) |-> t[i]]
  BY <1>1
<1>3. ASSUME NEW i \in 1 .. Len(s) PROVE t[i] \in Seq(A)
  <2>1. s[i] \in A /\ t[i] = IF s[i] \in S THEN <<>> ELSE <<s[i]>>
    BY <1>1
  <2> HIDE DEF t
  <2>2. <<>> \in Seq(A) /\ <<s[i]>> \in Seq(A)
    BY <2>1
  <2> QED
    BY <2>1, <2>2
<1>4. Without(s, S) = FlattenSeq(t)
  BY DEF Without
<1> HIDE DEF t
<1> QED
  BY <1>1, <1>2, <1>3, <1>4, Flattened

\* And so does Kept.
LEMMA KeptElements ==
    ASSUME NEW A, NEW s \in Seq(A), NEW S
    PROVE  Kept(s, S) \in Seq(A)
<1> DEFINE t == [i \in DOMAIN s |-> IF s[i] \in S THEN <<s[i]>> ELSE <<>>]
<1>1. Len(s) \in Nat /\ DOMAIN s = 1 .. Len(s) /\ \A i \in DOMAIN s : s[i] \in A
  BY LenProperties, ElementOfSeq
<1>2. t = [i \in 1 .. Len(s) |-> t[i]]
  BY <1>1
<1>3. ASSUME NEW i \in 1 .. Len(s) PROVE t[i] \in Seq(A)
  <2>1. s[i] \in A /\ t[i] = IF s[i] \in S THEN <<s[i]>> ELSE <<>>
    BY <1>1
  <2> HIDE DEF t
  <2>2. <<>> \in Seq(A) /\ <<s[i]>> \in Seq(A)
    BY <2>1
  <2> QED
    BY <2>1, <2>2
<1>4. Kept(s, S) = FlattenSeq(t)
  BY DEF Kept
<1> HIDE DEF t
<1> QED
  BY <1>1, <1>2, <1>3, <1>4, Flattened

\* Without leaves a sequence alone that has nothing to leave out.
LEMMA WithoutNone ==
    ASSUME NEW A, NEW s \in Seq(A), NEW S, \A i \in DOMAIN s : s[i] \notin S
    PROVE  Without(s, S) = s
<1> DEFINE t == [i \in DOMAIN s |-> <<s[i]>>]
<1>1. Len(s) \in Nat /\ DOMAIN s = 1 .. Len(s) /\ \A i \in DOMAIN s : s[i] \in A
  BY LenProperties, ElementOfSeq
<1>2. Without(s, S) = FlattenSeq(t)
  BY DEF Without
<1>3. \A i \in 1 .. Len(s) : t[i] = <<s[i]>>
  BY <1>1
<1>4. t \in Seq(Seq(A)) /\ Len(t) = Len(s)
  <2>1. ASSUME NEW i \in 1 .. Len(s) PROVE t[i] \in Seq(A)
    BY <1>1, <1>3
  <2>2. t = [i \in 1 .. Len(s) |-> t[i]]
    BY <1>1
  <2> HIDE DEF t
  <2>3. t \in [1 .. Len(s) -> Seq(A)]
    BY <2>1, <2>2
  <2>4. t \in Seq(Seq(A))
    BY <1>1, <2>3 DEF Seq
  <2> QED
    BY <1>1, <2>2, <2>4, LenProperties
<1> HIDE DEF t
<1>5. CASE Len(s) = 0
  <2>1. s = <<>> /\ t = <<>>
    BY <1>4, <1>5, EmptySeq
  <2> QED
    BY <1>2, <2>1 DEF FlattenSeq
<1>6. CASE Len(s) # 0
  <2>1. t # <<>>
    BY <1>4, <1>6, EmptySeq
  <2>2. PICK f : /\ FlattenSeq(t) = f[Len(t)]
                 /\ f[1] = t[1]
                 /\ \A i \in 2 .. Len(t) : f[i] = f[i - 1] \o t[i]
    BY <1>4, <2>1, FlattenSteps
  <2> DEFINE Same(i) == /\ f[i] \in Seq(A) /\ Len(f[i]) = i
                        /\ \A j \in 1 .. i : f[i][j] = s[j]
             T == {i \in Nat : i \in 1 .. Len(s) /\ ~Same(i)}
  <2>3. ASSUME T # {} PROVE FALSE
    <3>1. PICK i \in T : \A m \in T : i <= m
      <4>1. T \in SUBSET Nat
        OBVIOUS
      <4> HIDE DEF T
      <4> QED
        BY <2>3, <4>1, SmallestNat
    <3>2. i \in 1 .. Len(s) /\ ~Same(i) /\ s[i] \in A
      BY <1>1
    <3>3. CASE i = 1
      <4> DEFINE e == s[1]
      <4>1. f[1] = <<e>> /\ e \in A
        BY <1>3, <2>2, <3>2, <3>3
      <4>2. ~Same(1)
        BY <3>2, <3>3
      <4> HIDE DEF e
      <4>3. <<e>> \in Seq(A) /\ Len(<<e>>) = 1 /\ <<e>>[1] = e
        BY <4>1
      <4>4. \A j \in 1 .. 1 : f[1][j] = s[j]
        BY <4>1, <4>3 DEF e
      <4> QED
        BY <4>1, <4>2, <4>3, <4>4
    <3>4. CASE i # 1
      <4>1. i - 1 \in 1 .. Len(s) /\ i \in 2 .. Len(t) /\ i - 1 \in Nat /\ ~(i <= i - 1)
        BY <1>1, <1>4, <3>2, <3>4
      <4>2. Same(i - 1)
        BY <3>1, <4>1
      <4>3. f[i] = f[i - 1] \o <<s[i]>>
        BY <1>3, <2>2, <3>2, <4>1
      <4> DEFINE u == f[i - 1]
                 e == s[i]
      <4>4. u \in Seq(A) /\ Len(u) = i - 1 /\ \A j \in 1 .. i - 1 : u[j] = s[j]
        BY <4>2
      <4>5. f[i] = u \o <<e>> /\ e \in A
        BY <3>2, <4>3
      <4> HIDE DEF u, e
      <4>6. /\ u \o <<e>> \in Seq(A) /\ Len(u \o <<e>>) = i
            /\ \A j \in 1 .. i - 1 : (u \o <<e>>)[j] = u[j]
            /\ (u \o <<e>>)[i] = e
        BY <3>2, <4>4, <4>5
      <4>7. \A j \in 1 .. i : f[i][j] = s[j]
        BY <3>2, <4>4, <4>5, <4>6 DEF e
      <4> QED
        BY <3>2, <4>5, <4>6, <4>7
    <3> QED
      BY <3>3, <3>4
  <2>4. Same(Len(s))
    <3>1. Len(s) \in Nat /\ Len(s) \in 1 .. Len(s)
      BY <1>1, <1>6
    <3> QED
      BY <2>3, <3>1
  <2>5. f[Len(s)] = s
    <3>1. /\ f[Len(s)] \in Seq(A) /\ Len(f[Len(s)]) = Len(s)
          /\ \A j \in 1 .. Len(s) : f[Len(s)][j] = s[j]
      BY <2>4
    <3> QED
      BY <3>1, SeqEqual
  <2> QED
    BY <1>2, <1>4, <2>2, <2>5
<1> QED
  BY <1>5, <1>6

-----------------------------------------------------------------------------
(* The extensions of a lookup table *)

Shrinks(f, s, N) == f = [n \in 0 .. N |-> IF n = 0 THEN s ELSE WithoutOne(f[n - 1])]

\* One key after the other can be taken out.
LEMMA ShrinksExist ==
    ASSUME NEW s, NEW N \in Nat
    PROVE  \E f : Shrinks(f, s, N)
<1> DEFINE T == {k \in Nat : ~ \E f : Shrinks(f, s, k)}
<1>1. ASSUME T # {} PROVE FALSE
  <2>1. PICK k \in T : \A m \in T : k <= m
    <3>1. T \in SUBSET Nat
      OBVIOUS
    <3> HIDE DEF T
    <3> QED
      BY <1>1, <3>1, SmallestNat
  <2>2. CASE k = 0
    <3>1. Shrinks([n \in 0 .. 0 |-> s], s, 0)
      BY DEF Shrinks
    <3> QED
      BY <2>2, <3>1
  <2>3. CASE k # 0
    <3>1. k - 1 \in Nat /\ ~(k <= k - 1)
      BY <2>3
    <3>2. PICK f : Shrinks(f, s, k - 1)
      BY <2>1, <3>1
    <3> DEFINE g == [n \in 0 .. k |-> IF n = k THEN WithoutOne(f[k - 1]) ELSE f[n]]
    <3>3. ASSUME NEW n \in 0 .. k
          PROVE  g[n] = IF n = 0 THEN s ELSE WithoutOne(g[n - 1])
      <4>1. n # 0 => n - 1 \in 0 .. k /\ n - 1 # k
        BY <3>1
      <4>2. CASE n # k
        <5>1. n \in 0 .. (k - 1) /\ g[n] = f[n]
          BY <3>1, <4>2
        <5>2. f[n] = IF n = 0 THEN s ELSE WithoutOne(f[n - 1])
          BY <3>2, <5>1 DEF Shrinks
        <5> QED
          BY <4>1, <5>1, <5>2
      <4>3. CASE n = k
        BY <2>3, <4>1, <4>3
      <4> QED
        BY <4>2, <4>3
    <3>4. Shrinks(g, s, k)
      <4>1. g = [n \in 0 .. k |-> g[n]]
        OBVIOUS
      <4> HIDE DEF g
      <4> QED
        BY <3>3, <4>1 DEF Shrinks
    <3> QED
      BY <3>4
  <2> QED
    BY <2>2, <2>3
<1> QED
  BY <1>1

\* And every one of the sets is part of the first.
LEMMA ShrinksWithin ==
    ASSUME NEW f, NEW s, NEW N \in Nat, Shrinks(f, s, N), NEW n \in 0 .. N
    PROVE  f[n] \subseteq s
<1> DEFINE T == {k \in Nat : k \in 0 .. N /\ ~(f[k] \subseteq s)}
<1>1. ASSUME T # {} PROVE FALSE
  <2>1. PICK k \in T : \A m \in T : k <= m
    <3>1. T \in SUBSET Nat
      OBVIOUS
    <3> HIDE DEF T
    <3> QED
      BY <1>1, <3>1, SmallestNat
  <2>2. k \in 0 .. N /\ ~(f[k] \subseteq s)
    OBVIOUS
  <2>3. f[k] = IF k = 0 THEN s ELSE WithoutOne(f[k - 1])
    BY <2>2 DEF Shrinks
  <2>4. k # 0 => k - 1 \in Nat /\ k - 1 \in 0 .. N /\ ~(k <= k - 1)
    BY <2>2
  <2>5. k # 0 => f[k - 1] \subseteq s
    BY <2>1, <2>4
  <2> QED
    BY <2>2, <2>3, <2>5 DEF WithoutOne
<1> QED
  BY <1>1

\* The number of chunks for a keys: a number, and not 0 if there is a key.
LEMMA ChunkCount ==
    ASSUME NEW a \in Nat
    PROVE  /\ (a + ChunkSize - 1) \div ChunkSize \in Nat
           /\ a # 0 => (a + ChunkSize - 1) \div ChunkSize # 0
           /\ \A j \in Nat : j < (a + ChunkSize - 1) \div ChunkSize => j * ChunkSize \in 0 .. a
<1>1. ChunkSize \in Nat /\ ChunkSize > 0
  BY AllocationsAssumption
<1> DEFINE C == ChunkSize
           q == (a + C - 1) \div C
<1>2. q \in Int
  BY <1>1
<1>3. C * q <= a + C - 1 /\ a + C - 1 < C * (q + 1)
  BY <1>1
<1> HIDE DEF C, q
<1>4. q \in Nat /\ (a # 0 => q # 0)
  BY <1>1, <1>2, <1>3, SMTT(30) DEF C
<1>5. ASSUME NEW j \in Nat, j < q PROVE j * C \in 0 .. a
  <2>1. C \in Nat /\ C > 0
    BY <1>1 DEF C
  <2>2. j <= q - 1 /\ C * (q - 1) = C * q - C
    BY <1>2, <1>5, <2>1, SMTT(30)
  <2>3. j * C <= C * (q - 1) /\ j * C \in Nat
    BY <1>2, <1>5, <2>1, <2>2, SMTT(30)
  <2>4. C * q \in Int
    BY <1>2, <2>1
  <2> QED
    BY <1>3, <2>1, <2>2, <2>3, <2>4
<1> QED
  BY <1>4, <1>5 DEF C, q

\* What insertIntoLookupTableIxs returns: extensions of that table by that payer, which
\* between them bring every key that is not there yet.
Extensions(x, payer, lut, keys, present) ==
    /\ IsSeq(x)
    /\ \A i \in DOMAIN x : /\ x[i] = extendTable(payer, lut, x[i].keys)
                           /\ IsFiniteSet(x[i].keys)
    /\ \A k \in keys \ present : \E i \in DOMAIN x : k \in x[i].keys

\* That is what it returns.
LEMMA Inserts ==
    ASSUME NEW payer, NEW lut, NEW keys, IsFiniteSet(keys), NEW present
    PROVE  Extensions(insertIntoLookupTableIxs(payer, lut, keys, present), payer, lut, keys, present)
<1> DEFINE todo == keys \ present
           chunks == (Cardinality(todo) + ChunkSize - 1) \div ChunkSize
           rest == CHOOSE f : Shrinks(f, todo, Cardinality(todo))
           Left(i) == IF i = 0 THEN todo ELSE IF i = chunks THEN {} ELSE rest[i * ChunkSize]
           x == insertIntoLookupTableIxs(payer, lut, keys, present)
<1>1. IsFiniteSet(todo) /\ Cardinality(todo) \in Nat /\ (todo # {} => Cardinality(todo) # 0)
  <2>1. IsFiniteSet(todo)
    BY FS_Difference
  <2> HIDE DEF todo
  <2> QED
    BY <2>1, FS_CardinalityType, FS_EmptySet
<1>2. chunks \in Nat /\ (todo # {} => chunks # 0)
  <2> HIDE DEF todo
  <2> QED
    BY <1>1, ChunkCount
<1>3. x = [i \in 1 .. chunks |-> extendTable(payer, lut, Left(i - 1) \ Left(i))]
  BY DEF insertIntoLookupTableIxs, Shrinks
<1>4. ASSUME NEW i \in 1 .. chunks PROVE i - 1 \in Nat /\ Left(i - 1) \subseteq todo
  <2>1. chunks \in Nat /\ i - 1 \in Nat /\ i - 1 < chunks
    BY <1>2
  <2>2. \E f : Shrinks(f, todo, Cardinality(todo))
    BY <1>1, ShrinksExist
  <2>3. Shrinks(rest, todo, Cardinality(todo))
    BY <2>2, Zenon
  <2>4. (i - 1) * ChunkSize \in 0 .. Cardinality(todo)
    BY <1>1, <2>1, ChunkCount
  <2>5. rest[(i - 1) * ChunkSize] \subseteq todo
    <3> HIDE DEF rest, todo
    <3> QED
      BY <1>1, <2>3, <2>4, ShrinksWithin
  <2> QED
    BY <2>1, <2>5
<1>5. Left(0) = todo /\ (chunks # 0 => Left(chunks) = {})
  OBVIOUS
<1> HIDE DEF x, Left
<1>6. IsSeq(x) /\ DOMAIN x = 1 .. chunks
  <2>1. x = [i \in 1 .. chunks |-> x[i]]
    BY <1>3
  <2> HIDE DEF chunks
  <2> QED
    BY <1>2, <2>1, TableSeq
<1>7. ASSUME NEW i \in DOMAIN x
      PROVE  x[i] = extendTable(payer, lut, x[i].keys) /\ IsFiniteSet(x[i].keys)
  <2>1. i \in 1 .. chunks /\ x[i] = extendTable(payer, lut, Left(i - 1) \ Left(i))
    BY <1>3, <1>6, <1>7
  <2>2. x[i].keys = Left(i - 1) \ Left(i)
    BY <2>1 DEF extendTable
  <2>3. IsFiniteSet(Left(i - 1) \ Left(i))
    <3>1. Left(i - 1) \ Left(i) \subseteq todo
      BY <1>4, <2>1
    <3> HIDE DEF todo
    <3> QED
      BY <1>1, <3>1, FS_Subset
  <2> QED
    BY <2>1, <2>2, <2>3
<1>8. ASSUME NEW k \in keys \ present PROVE \E i \in DOMAIN x : k \in x[i].keys
  <2> HIDE DEF chunks
  <2> DEFINE T == {i \in Nat : i \in 0 .. chunks /\ k \notin Left(i)}
  <2>1. chunks \in Nat /\ chunks # 0
    BY <1>2, <1>8
  <2>2. chunks \in T
    BY <1>5, <2>1
  <2>3. PICK i \in T : \A m \in T : i <= m
    <3>1. T \in SUBSET Nat
      OBVIOUS
    <3> HIDE DEF T
    <3> QED
      BY <2>2, <3>1, SmallestNat
  <2>4. i \in 0 .. chunks /\ k \notin Left(i)
    OBVIOUS
  <2>5. i # 0
    BY <1>5, <1>8, <2>4
  <2>6. i - 1 \in Nat /\ i - 1 \in 0 .. chunks /\ ~(i <= i - 1)
    BY <2>1, <2>4, <2>5
  <2>7. k \in Left(i - 1)
    BY <2>3, <2>6
  <2>8. i \in 1 .. chunks
    BY <2>1, <2>4, <2>5
  <2>9. x[i].keys = Left(i - 1) \ Left(i)
    <3>1. x[i] = extendTable(payer, lut, Left(i - 1) \ Left(i))
      BY <1>3, <2>8
    <3> QED
      BY <3>1 DEF extendTable
  <2> QED
    BY <1>6, <2>4, <2>7, <2>8, <2>9
<1> QED
  BY <1>6, <1>7, <1>8 DEF Extensions, x

-----------------------------------------------------------------------------
(* Chains, and what one instruction makes of them *)

\* The slots of an allocation, and the same ones with other weights or amounts.
Slotted(a) == /\ \E n \in Nat : a = [i \in 1 .. n |-> a[i]]
              /\ \A i \in DOMAIN a : "reserve" \in DOMAIN a[i]
SameSlots(a, b) == /\ Slotted(b) /\ DOMAIN b = DOMAIN a
                   /\ \A i \in DOMAIN a : b[i].reserve = a[i].reserve
SameMarkets(m, n) == /\ Reserves \subseteq DOMAIN n
                     /\ \A r \in Reserves : "market" \in DOMAIN n[r] /\ n[r].market = m[r].market

VaultShape(V) ==
    /\ VaultFields \subseteq DOMAIN V
    /\ Slotted(V.alloc)
    /\ ReserveSet(V) \subseteq Reserves
TablesShape(t) ==
    /\ NoTable \notin DOMAIN t
    /\ \A k \in DOMAIN t : {"authority", "keys"} \subseteq DOMAIN t[k] /\ IsFiniteSet(t[k].keys)
Shape(c) ==
    /\ ChainFields \subseteq DOMAIN c
    /\ VaultShape(c.vault)
    /\ Reserves \subseteq DOMAIN c.market
    /\ \A r \in Reserves : "market" \in DOMAIN c.market[r] /\ c.market[r].market # "owner"
    /\ TablesShape(c.tables)

\* Nothing that the lookup table depends on is another.
Mild(c, d) ==
    /\ Shape(d)
    /\ d.tables = c.tables
    /\ d.vault.admin = c.vault.admin /\ d.vault.lut = c.vault.lut
    /\ d.vault.pending = c.vault.pending
    /\ ReserveSet(d.vault) = ReserveSet(c.vault)
    /\ \A r \in Reserves : d.market[r].market = c.market[r].market

\* The same slots hold the same reserves.
LEMMA SameReserves ==
    ASSUME NEW V, NEW W, SameSlots(V.alloc, W.alloc)
    PROVE  ReserveSet(W) = ReserveSet(V)
BY DEF SameSlots, ReserveSet

\* A chain whose vault keeps its administrators, its table and its slots.
LEMMA MildBy ==
    ASSUME NEW c, NEW d, Shape(c), ChainFields \subseteq DOMAIN d, d.tables = c.tables,
           VaultFields \subseteq DOMAIN d.vault, d.vault.admin = c.vault.admin,
           d.vault.lut = c.vault.lut, d.vault.pending = c.vault.pending,
           SameSlots(c.vault.alloc, d.vault.alloc), SameMarkets(c.market, d.market)
    PROVE  Mild(c, d)
<1>1. ReserveSet(d.vault) = ReserveSet(c.vault)
  BY SameReserves
<1>2. VaultShape(d.vault)
  BY <1>1 DEF VaultShape, SameSlots, Shape
<1> QED
  BY <1>1, <1>2 DEF Mild, Shape, SameMarkets

\* A chain keeps what it has.
LEMMA MildSelf ==
    ASSUME NEW c, Shape(c)
    PROVE  Mild(c, c)
BY DEF Mild

\* And so it does over two steps.
LEMMA MildThen ==
    ASSUME NEW c, NEW d, NEW e, Mild(c, d), Mild(d, e)
    PROVE  Mild(c, e)
BY DEF Mild

\* The slots and the markets of a chain are its own.
LEMMA OwnSlots ==
    ASSUME NEW c, Shape(c)
    PROVE  SameSlots(c.vault.alloc, c.vault.alloc) /\ SameMarkets(c.market, c.market)
BY DEF Shape, VaultShape, SameSlots, SameMarkets

\* Other amounts in a slot.
LEMMA SlotAmount ==
    ASSUME NEW a, Slotted(a), NEW i, NEW x, NEW b, b = [a EXCEPT ![i].ctokens = x]
    PROVE  SameSlots(a, b)
<1>1. PICK n \in Nat : a = [j \in 1 .. n |-> a[j]]
  BY DEF Slotted
<1>2. DOMAIN a = 1 .. n
  BY <1>1
<1>3. b = [j \in DOMAIN a |-> IF j = i THEN [a[j] EXCEPT !.ctokens = x] ELSE a[j]]
  OBVIOUS
<1>4. ASSUME NEW j \in DOMAIN a
      PROVE  "reserve" \in DOMAIN b[j] /\ b[j].reserve = a[j].reserve
  <2>1. "reserve" \in DOMAIN a[j]
    BY DEF Slotted
  <2> QED
    BY <1>3, <2>1
<1>5. DOMAIN b = DOMAIN a
  BY <1>3
<1>6. b = [j \in 1 .. n |-> b[j]]
  BY <1>2, <1>3
<1> QED
  BY <1>4, <1>5, <1>6 DEF SameSlots, Slotted

\* Other amounts in a reserve.
LEMMA ReserveAmounts ==
    ASSUME NEW m, Reserves \subseteq DOMAIN m, \A r \in Reserves : "market" \in DOMAIN m[r],
           NEW r, NEW x, NEW y, NEW n, n = [m EXCEPT ![r].available = x, ![r].mintSupply = y]
    PROVE  SameMarkets(m, n)
BY DEF SameMarkets

\* Tokens that come back from a reserve, or go to one, move amounts only.
LEMMA MildDisinvest ==
    ASSUME NEW c, Shape(c), NEW r, NEW tokens
    PROVE  Mild(c, Disinvest(c, r, tokens))
<1> DEFINE rate == getCollateralExchangeRate(c.market[r])
           i == SlotOf(c.vault, r)
           ctokens == Min({c.vault.alloc[i].ctokens, Ceil(Times(Dec(tokens), rate))})
           liquidity == Min({Floor(Over(Dec(ctokens), rate)), Floor(c.market[r].available)})
           d == Disinvest(c, r, tokens)
<1>1. d = [c EXCEPT !.vault.available = @ + liquidity, !.vault.alloc[i].ctokens = @ - ctokens,
                    !.market[r].available = Minus(@, Dec(liquidity)), !.market[r].mintSupply = @ - ctokens]
  BY DEF Disinvest
<1> HIDE DEF rate, i, ctokens, liquidity, d
<1>2. /\ ChainFields \subseteq DOMAIN c /\ VaultFields \subseteq DOMAIN c.vault
      /\ Reserves \subseteq DOMAIN c.market /\ Slotted(c.vault.alloc)
      /\ \A s \in Reserves : "market" \in DOMAIN c.market[s]
  BY DEF Shape, VaultShape
<1>3. /\ d.vault = [c.vault EXCEPT !.available = @ + liquidity, !.alloc[i].ctokens = @ - ctokens]
      /\ d.market = [c.market EXCEPT ![r].available = Minus(@, Dec(liquidity)), ![r].mintSupply = @ - ctokens]
      /\ d.tables = c.tables /\ DOMAIN d = DOMAIN c
  BY <1>1, <1>2 DEF ChainFields
<1> DEFINE x == c.vault.alloc[i].ctokens - ctokens
           y == Minus(c.market[r].available, Dec(liquidity))
           z == c.market[r].mintSupply - ctokens
<1>4. /\ d.vault.alloc = [c.vault.alloc EXCEPT ![i].ctokens = x] /\ DOMAIN d.vault = DOMAIN c.vault
      /\ d.vault.admin = c.vault.admin /\ d.vault.lut = c.vault.lut
      /\ d.vault.pending = c.vault.pending
  BY <1>2, <1>3 DEF VaultFields
<1>5. d.market = [c.market EXCEPT ![r].available = y, ![r].mintSupply = z]
  BY <1>3
<1> HIDE DEF x, y, z
<1>6. SameSlots(c.vault.alloc, d.vault.alloc)
  BY <1>2, <1>4, SlotAmount
<1>7. SameMarkets(c.market, d.market)
  BY <1>2, <1>5, ReserveAmounts
<1>8. Mild(c, d)
  BY <1>2, <1>3, <1>4, <1>6, <1>7, MildBy
<1> QED
  BY <1>8 DEF d

\* The other way round.
LEMMA MildInvest ==
    ASSUME NEW c, Shape(c), NEW r, NEW tokens
    PROVE  Mild(c, Invest(c, r, tokens))
<1> DEFINE rate == getCollateralExchangeRate(c.market[r])
           minted == Floor(Times(Dec(tokens), rate))
           i == SlotOf(c.vault, r)
           d == Invest(c, r, tokens)
<1>1. d = [c EXCEPT !.vault.available = @ - tokens, !.vault.alloc[i].ctokens = @ + minted,
                    !.market[r].available = Plus(@, Dec(tokens)), !.market[r].mintSupply = @ + minted]
  BY DEF Invest
<1> HIDE DEF rate, minted, i, d
<1>2. /\ ChainFields \subseteq DOMAIN c /\ VaultFields \subseteq DOMAIN c.vault
      /\ Reserves \subseteq DOMAIN c.market /\ Slotted(c.vault.alloc)
      /\ \A s \in Reserves : "market" \in DOMAIN c.market[s]
  BY DEF Shape, VaultShape
<1>3. /\ d.vault = [c.vault EXCEPT !.available = @ - tokens, !.alloc[i].ctokens = @ + minted]
      /\ d.market = [c.market EXCEPT ![r].available = Plus(@, Dec(tokens)), ![r].mintSupply = @ + minted]
      /\ d.tables = c.tables /\ DOMAIN d = DOMAIN c
  BY <1>1, <1>2 DEF ChainFields
<1> DEFINE x == c.vault.alloc[i].ctokens + minted
           y == Plus(c.market[r].available, Dec(tokens))
           z == c.market[r].mintSupply + minted
<1>4. /\ d.vault.alloc = [c.vault.alloc EXCEPT ![i].ctokens = x] /\ DOMAIN d.vault = DOMAIN c.vault
      /\ d.vault.admin = c.vault.admin /\ d.vault.lut = c.vault.lut
      /\ d.vault.pending = c.vault.pending
  BY <1>2, <1>3 DEF VaultFields
<1>5. d.market = [c.market EXCEPT ![r].available = y, ![r].mintSupply = z]
  BY <1>3
<1> HIDE DEF x, y, z
<1>6. SameSlots(c.vault.alloc, d.vault.alloc)
  BY <1>2, <1>4, SlotAmount
<1>7. SameMarkets(c.market, d.market)
  BY <1>2, <1>5, ReserveAmounts
<1>8. Mild(c, d)
  BY <1>2, <1>3, <1>4, <1>6, <1>7, MildBy
<1> QED
  BY <1>8 DEF d

\* A chain whose vault differs in an amount, a fee or the farm only.
LEMMA MildVault ==
    ASSUME NEW c, NEW d, Shape(c), DOMAIN d = DOMAIN c, d.tables = c.tables, d.market = c.market,
           DOMAIN d.vault = DOMAIN c.vault, d.vault.admin = c.vault.admin,
           d.vault.lut = c.vault.lut, d.vault.pending = c.vault.pending, d.vault.alloc = c.vault.alloc
    PROVE  Mild(c, d)
<1>1. SameSlots(c.vault.alloc, d.vault.alloc) /\ SameMarkets(c.market, d.market)
  BY OwnSlots
<1>2. ChainFields \subseteq DOMAIN d /\ VaultFields \subseteq DOMAIN d.vault
  BY DEF Shape, VaultShape
<1> QED
  BY <1>1, <1>2, MildBy

\* A refresh leaves a reserve in its market.
LEMMA RefreshedMarket ==
    ASSUME NEW R, "market" \in DOMAIN R, NEW slot
    PROVE  "market" \in DOMAIN RefreshReserve(R, slot) /\ RefreshReserve(R, slot).market = R.market
<1> DEFINE With(i) == [R EXCEPT !.borrowed = i.newDebt, !.protocolFees = i.newAccProtocolFees,
                                !.pendingFees = i.pendingReferralFees, !.lastSlot = slot]
           i == compoundInterest([R EXCEPT !.recentSlotDurationMs = 1000 \div SLOTS_PER_SECOND],
                                 SlotsElapsed(R, slot), 0)
<1>1. RefreshReserve(R, slot) = IF SlotsElapsed(R, slot) = 0 THEN R ELSE With(i)
  BY ZenonT(30) DEF RefreshReserve
<1> HIDE DEF i
<1>2. "market" \in DOMAIN With(i) /\ With(i).market = R.market
  OBVIOUS
<1> HIDE DEF With
<1> QED
  BY <1>1, <1>2

\* The charge of the fees refreshes the reserves and changes the amounts due.
LEMMA MildCharged ==
    ASSUME NEW c, Shape(c)
    PROVE  Mild(c, Charged(c))
<1> DEFINE m == [r \in Reserves |-> IF r \in ReserveSet(c.vault) THEN RefreshReserve(c.market[r], c.slot)
                                    ELSE c.market[r]]
           d == ChargedOn(c, m)
<1>1. SameMarkets(c.market, m)
  <2>1. ASSUME NEW r \in Reserves PROVE "market" \in DOMAIN m[r] /\ m[r].market = c.market[r].market
    <3>1. "market" \in DOMAIN c.market[r]
      BY DEF Shape
    <3>2. m[r] = c.market[r] \/ m[r] = RefreshReserve(c.market[r], c.slot)
      OBVIOUS
    <3> HIDE DEF m
    <3> QED
      BY <3>1, <3>2, RefreshedMarket
  <2>2. Reserves \subseteq DOMAIN m
    OBVIOUS
  <2> HIDE DEF m
  <2> QED
    BY <2>1, <2>2 DEF SameMarkets
<1> HIDE DEF m
<1> DEFINE mgmt == Times(c.vault.prevAum, Ratio((Seconds(c) - c.vault.lastCharge) * c.vault.mgmtBps,
                                             SECONDS_PER_YEAR * 10000))
           earned == positiveOrZero(Minus(Minus(Net(c.vault, m), c.vault.prevAum), mgmt))
           fee == Plus(mgmt, Times(earned, BpsToDec(c.vault.perfBps)))
           x == Plus(c.vault.fees, fee)
           y == Seconds(c)
<1>2. d = [c EXCEPT !.market = m, !.vault.fees = Plus(@, fee), !.vault.lastCharge = y]
  BY DEF ChargedOn
<1> HIDE DEF d, fee, y
<1>3. /\ ChainFields \subseteq DOMAIN c /\ VaultFields \subseteq DOMAIN c.vault
  BY DEF Shape, VaultShape
<1>4. /\ d.vault = [c.vault EXCEPT !.fees = x, !.lastCharge = y] /\ d.market = m
      /\ d.tables = c.tables /\ DOMAIN d = DOMAIN c
  BY <1>2, <1>3 DEF ChainFields
<1> HIDE DEF x
<1>5. /\ DOMAIN d.vault = DOMAIN c.vault /\ d.vault.alloc = c.vault.alloc
      /\ d.vault.admin = c.vault.admin /\ d.vault.lut = c.vault.lut
      /\ d.vault.pending = c.vault.pending
  BY <1>3, <1>4 DEF VaultFields
<1>6. Mild(c, d)
  BY <1>1, <1>3, <1>4, <1>5, OwnSlots, MildBy
<1>7. d = Charged(c)
  BY DEF d, m, Charged
<1> QED
  BY <1>6, <1>7

\* What the next charge is worked out from is an amount too.
LEMMA MildSettled ==
    ASSUME NEW c, Shape(c)
    PROVE  Mild(c, Settled(c))
<1> DEFINE net == Net(c.vault, c.market)
           d == Settled(c)
<1>1. d = [c EXCEPT !.vault.prevAum = net]
  BY DEF Settled
<1> HIDE DEF d, net
<1>2. ChainFields \subseteq DOMAIN c /\ VaultFields \subseteq DOMAIN c.vault
  BY DEF Shape, VaultShape
<1>3. /\ d.vault = [c.vault EXCEPT !.prevAum = net]
      /\ d.market = c.market /\ d.tables = c.tables /\ DOMAIN d = DOMAIN c
  BY <1>1, <1>2 DEF ChainFields
<1>4. /\ DOMAIN d.vault = DOMAIN c.vault /\ d.vault.alloc = c.vault.alloc
      /\ d.vault.admin = c.vault.admin /\ d.vault.lut = c.vault.lut
      /\ d.vault.pending = c.vault.pending
  BY <1>2, <1>3 DEF VaultFields
<1>5. Mild(c, d)
  BY <1>3, <1>4, MildVault
<1> QED
  BY <1>5 DEF d

\* Shares that are burnt for tokens.
LEMMA MildPaid ==
    ASSUME NEW c, Shape(c), NEW b, NEW owner, NEW asked, NEW due
    PROVE  Mild(c, Paid(b, c, owner, asked, due))
<1> DEFINE paid == Min({due, c.vault.available})
           burnt == IF paid = due THEN asked
                    ELSE Min({asked, Ceil(Over(Times(Dec(paid), Dec(b.vault.issued)), Net(b.vault, b.market)))})
           d == Paid(b, c, owner, asked, due)
<1>1. d = [c EXCEPT !.vault.available = @ - paid, !.vault.issued = @ - burnt,
                    !.shares[owner] = @ - burnt, !.token[owner] = @ + paid]
  BY DEF Paid
<1> HIDE DEF d, paid, burnt
<1>2. ChainFields \subseteq DOMAIN c /\ VaultFields \subseteq DOMAIN c.vault
  BY DEF Shape, VaultShape
<1>3. /\ d.vault = [c.vault EXCEPT !.available = @ - paid, !.issued = @ - burnt]
      /\ d.market = c.market /\ d.tables = c.tables /\ DOMAIN d = DOMAIN c
  BY <1>1, <1>2 DEF ChainFields
<1>4. /\ DOMAIN d.vault = DOMAIN c.vault /\ d.vault.alloc = c.vault.alloc
      /\ d.vault.admin = c.vault.admin /\ d.vault.lut = c.vault.lut
      /\ d.vault.pending = c.vault.pending
  BY <1>2, <1>3 DEF VaultFields
<1>5. Mild(c, d)
  BY <1>3, <1>4, MildVault
<1> QED
  BY <1>5 DEF d

\* Fees that are paid out.
LEMMA MildFeesPaid ==
    ASSUME NEW c, Shape(c), NEW signer, NEW due
    PROVE  Mild(c, FeesPaid(c, signer, due))
<1> DEFINE paid == Min({due, c.vault.available})
           d == FeesPaid(c, signer, due)
<1>1. d = [c EXCEPT !.vault.available = @ - paid, !.vault.fees = Minus(@, Dec(paid)),
                    !.token[signer] = @ + paid]
  BY DEF FeesPaid
<1> HIDE DEF d, paid
<1>2. ChainFields \subseteq DOMAIN c /\ VaultFields \subseteq DOMAIN c.vault
  BY DEF Shape, VaultShape
<1>3. /\ d.vault = [c.vault EXCEPT !.available = @ - paid, !.fees = Minus(@, Dec(paid))]
      /\ d.market = c.market /\ d.tables = c.tables /\ DOMAIN d = DOMAIN c
  BY <1>1, <1>2 DEF ChainFields
<1>4. /\ DOMAIN d.vault = DOMAIN c.vault /\ d.vault.alloc = c.vault.alloc
      /\ d.vault.admin = c.vault.admin /\ d.vault.lut = c.vault.lut
      /\ d.vault.pending = c.vault.pending
  BY <1>2, <1>3 DEF VaultFields
<1>5. Mild(c, d)
  BY <1>3, <1>4, MildVault
<1> QED
  BY <1>5 DEF d

\* Tokens for new shares.
LEMMA MildDeposit ==
    ASSUME NEW c, Shape(c), NEW i
    PROVE  Mild(c, ApplyDeposit(c, i))
<1> DEFINE minted == IF c.vault.issued = 0 THEN i.amount
                     ELSE Floor(Over(Times(Dec(i.amount), Dec(c.vault.issued)), Net(c.vault, c.market)))
           n == i.amount
           o == i.signer
           d == ApplyDeposit(c, i)
<1>1. d = [c EXCEPT !.vault.available = @ + n, !.vault.issued = @ + minted,
                    !.token[o] = @ - n, !.shares[o] = @ + minted]
  BY DEF ApplyDeposit
<1> HIDE DEF d, minted, n, o
<1>2. ChainFields \subseteq DOMAIN c /\ VaultFields \subseteq DOMAIN c.vault
  BY DEF Shape, VaultShape
<1>3. /\ d.vault = [c.vault EXCEPT !.available = @ + n, !.issued = @ + minted]
      /\ d.market = c.market /\ d.tables = c.tables /\ DOMAIN d = DOMAIN c
  BY <1>1, <1>2 DEF ChainFields
<1>4. /\ DOMAIN d.vault = DOMAIN c.vault /\ d.vault.alloc = c.vault.alloc
      /\ d.vault.admin = c.vault.admin /\ d.vault.lut = c.vault.lut
      /\ d.vault.pending = c.vault.pending
  BY <1>2, <1>3 DEF VaultFields
<1>5. Mild(c, d)
  BY <1>3, <1>4, MildVault
<1> QED
  BY <1>5 DEF d

VaultIxs == {"deposit", "withdraw", "withdrawFromAvailable", "invest", "withdrawPendingFees",
             "giveUpPendingFees"}
OwnerIxs == {"wrapSol", "createFarmUser", "stake", "unstake", "withdrawUnstaked"}

\* The instructions that leave the administrators, the table and, but for reserves that
\* go, the allocation as they are.
Soft(i) ==
    \/ i.ix \in VaultIxs \cup OwnerIxs \cup {"removeAllocation"}
    \/ i.ix = "updateVaultConfig" /\ i.field \in {"farm", "perfBps", "mgmtBps"}
    \/ i.ix = "extendLookupTable" /\ IsFiniteSet(i.keys)
    \/ i.ix = "createLookupTable" /\ i.table # NoTable

\* What a payment lacks is taken from a reserve.
LEMMA MildAvailable ==
    ASSUME NEW c, Shape(c), NEW r, NEW due
    PROVE  Mild(c, WithAvailable(c, r, due))
BY MildSelf, MildDisinvest DEF WithAvailable

\* A withdrawal moves amounts only.
LEMMA MildPayOut ==
    ASSUME NEW c, Shape(c), NEW owner, NEW shares, NEW r
    PROVE  Mild(c, PayOut(c, owner, shares, r))
<1> DEFINE asked == Min({shares, c.shares[owner]})
           due == Floor(Worth(c, asked))
           d == WithAvailable(c, r, due)
<1>1. PayOut(c, owner, shares, r) = Paid(c, d, owner, asked, due)
  BY DEF PayOut, PaidDue
<1> HIDE DEF asked, due
<1>2. Mild(c, d)
  BY MildAvailable
<1> HIDE DEF d
<1>3. Mild(d, Paid(c, d, owner, asked, due))
  <2>1. Shape(d)
    BY <1>2 DEF Mild
  <2> QED
    BY <2>1, MildPaid
<1> QED
  BY <1>1, <1>2, <1>3, MildThen

\* So does the payment of the fees.
LEMMA MildFees ==
    ASSUME NEW c, Shape(c), NEW i
    PROVE  Mild(c, ApplyFees(c, i))
<1> DEFINE due == Floor(c.vault.fees)
           d == WithAvailable(c, i.reserve, due)
           signer == i.signer
<1>1. ApplyFees(c, i) = FeesPaid(d, signer, due)
  BY DEF ApplyFees
<1>2. Mild(c, d)
  BY MildAvailable
<1> HIDE DEF due, d, signer
<1>3. Mild(d, FeesPaid(d, signer, due))
  <2>1. Shape(d)
    BY <1>2 DEF Mild
  <2> QED
    BY <2>1, MildFeesPaid
<1> QED
  BY <1>1, <1>2, <1>3, MildThen

\* A reserve that is brought towards its target, from either side.
LEMMA MildTowards ==
    ASSUME NEW c, Shape(c), NEW r, NEW held, NEW target
    PROVE  Mild(c, Towards(c, r, held, target))
BY MildSelf, MildDisinvest, MildInvest DEF Towards

\* Fees that are given up.
LEMMA MildGivenUp ==
    ASSUME NEW c, Shape(c), NEW x
    PROVE  Mild(c, [c EXCEPT !.vault.fees = x])
<1> DEFINE d == [c EXCEPT !.vault.fees = x]
<1>1. ChainFields \subseteq DOMAIN c /\ VaultFields \subseteq DOMAIN c.vault
  BY DEF Shape, VaultShape
<1>2. /\ d.vault = [c.vault EXCEPT !.fees = x]
      /\ d.market = c.market /\ d.tables = c.tables /\ DOMAIN d = DOMAIN c
  BY <1>1 DEF ChainFields
<1> HIDE DEF d
<1>3. /\ DOMAIN d.vault = DOMAIN c.vault /\ d.vault.alloc = c.vault.alloc
      /\ d.vault.admin = c.vault.admin /\ d.vault.lut = c.vault.lut
      /\ d.vault.pending = c.vault.pending
  BY <1>1, <1>2 DEF VaultFields
<1>4. Mild(c, d)
  BY <1>2, <1>3, MildVault
<1> QED
  BY <1>4 DEF d

\* A field of the vault that is neither the administrator's, the next one's nor the table.
LEMMA MildConfig ==
    ASSUME NEW c, Shape(c), NEW f \in {"farm", "perfBps", "mgmtBps"}, NEW x
    PROVE  Mild(c, [c EXCEPT !.vault[f] = x])
<1> DEFINE d == [c EXCEPT !.vault[f] = x]
<1>1. ChainFields \subseteq DOMAIN c /\ VaultFields \subseteq DOMAIN c.vault
  BY DEF Shape, VaultShape
<1>2. /\ d.vault = [c.vault EXCEPT ![f] = x]
      /\ d.market = c.market /\ d.tables = c.tables /\ DOMAIN d = DOMAIN c
  BY <1>1 DEF ChainFields
<1> HIDE DEF d
<1>3. /\ DOMAIN d.vault = DOMAIN c.vault /\ d.vault.alloc = c.vault.alloc
      /\ d.vault.admin = c.vault.admin /\ d.vault.lut = c.vault.lut
      /\ d.vault.pending = c.vault.pending
  BY <1>1, <1>2 DEF VaultFields
<1>4. Mild(c, d)
  BY <1>2, <1>3, MildVault
<1> QED
  BY <1>4 DEF d

\* Every instruction of the vault program that is not about the administrators, the
\* table or the allocation, with the charge before it.
LEMMA MildStep ==
    ASSUME NEW c, Shape(c), NEW i,
           \/ i.ix \in VaultIxs
           \/ i.ix = "updateVaultConfig" /\ i.field \in {"farm", "perfBps", "mgmtBps"}
    PROVE  Mild(c, VaultStep(c, i))
<1>1. CASE i.ix = "deposit"
  BY <1>1, MildDeposit DEF VaultStep
<1>2. CASE i.ix = "withdraw"
  BY <1>2, MildPayOut DEF VaultStep
<1>3. CASE i.ix = "withdrawFromAvailable"
  BY <1>3, MildPayOut DEF VaultStep
<1>4. CASE i.ix = "invest"
  BY <1>4, MildTowards DEF VaultStep, ApplyInvest
<1>5. CASE i.ix = "withdrawPendingFees"
  BY <1>5, MildFees DEF VaultStep
<1>6. CASE i.ix = "giveUpPendingFees"
  <2>1. VaultStep(c, i) = [c EXCEPT !.vault.fees = Minus(@, Least2(@, Dec(i.amount)))]
    BY <1>6 DEF VaultStep
  <2> DEFINE x == Minus(c.vault.fees, Least2(c.vault.fees, Dec(i.amount)))
  <2>2. VaultStep(c, i) = [c EXCEPT !.vault.fees = x]
    BY <2>1
  <2> HIDE DEF x
  <2> QED
    BY <2>2, MildGivenUp
<1>7. CASE i.ix = "updateVaultConfig"
  <2>1. VaultStep(c, i) = [c EXCEPT !.vault[i.field] = i.value]
    BY <1>7 DEF VaultStep
  <2>2. i.field \in {"farm", "perfBps", "mgmtBps"}
    BY <1>7 DEF VaultIxs
  <2> QED
    BY <2>1, <2>2, MildConfig
<1> QED
  BY <1>1, <1>2, <1>3, <1>4, <1>5, <1>6, <1>7 DEF VaultIxs

\* The same instructions, settled.
LEMMA MildApplied ==
    ASSUME NEW c, Shape(c), NEW i,
           \/ i.ix \in VaultIxs
           \/ i.ix = "updateVaultConfig" /\ i.field \in {"farm", "perfBps", "mgmtBps"}
    PROVE  Mild(c, Apply(c, i))
<1> DEFINE d == Charged(c)
           e == VaultStep(d, i)
<1>1. Apply(c, i) = Settled(e)
  <2>1. CASE i.ix \in VaultIxs
    BY <2>1 DEF Apply, VaultIxs
  <2>2. CASE i.ix = "updateVaultConfig"
    BY <2>2 DEF Apply
  <2> QED
    BY <2>1, <2>2
<1>2. Mild(c, d)
  BY MildCharged
<1> HIDE DEF d
<1>3. Mild(d, e)
  <2>1. Shape(d)
    BY <1>2 DEF Mild
  <2> QED
    BY <2>1, MildStep
<1> HIDE DEF e
<1>4. Mild(e, Settled(e))
  <2>1. Shape(e)
    BY <1>3 DEF Mild
  <2> QED
    BY <2>1, MildSettled
<1>5. Mild(c, Settled(e))
  BY <1>2, <1>3, <1>4, MildThen
<1> QED
  BY <1>1, <1>5

\* Instructions on what an owner has: SOL, tokens, shares and stakes.
LEMMA MildOwner ==
    ASSUME NEW c, Shape(c), NEW i, i.ix \in OwnerIxs
    PROVE  Mild(c, Apply(c, i))
<1> DEFINE d == Apply(c, i)
<1>0. ChainFields \subseteq DOMAIN c
  BY DEF Shape
<1>1. DOMAIN d = DOMAIN c /\ d.vault = c.vault /\ d.market = c.market /\ d.tables = c.tables
  <2>1. CASE i.ix = "wrapSol"
    <3> DEFINE o == i.signer
               n == i.amount
    <3>1. d = [c EXCEPT !.sol[o] = @ - n, !.token[o] = @ + n]
      BY <2>1 DEF Apply
    <3> HIDE DEF d, o, n
    <3> QED
      BY <1>0, <3>1 DEF ChainFields
  <2>2. CASE i.ix = "createFarmUser"
    <3> DEFINE o == i.signer
    <3>1. d = [c EXCEPT !.stakers = @ \cup {o}]
      BY <2>2 DEF Apply
    <3> HIDE DEF d, o
    <3> QED
      BY <1>0, <3>1 DEF ChainFields
  <2>3. CASE i.ix = "stake"
    <3> DEFINE o == i.signer
               n == Min({i.amount, c.shares[o]})
    <3>1. d = [c EXCEPT !.shares[o] = @ - n, !.staked[o] = @ + n]
      BY <2>3 DEF Apply
    <3> HIDE DEF d, o, n
    <3> QED
      BY <1>0, <3>1 DEF ChainFields
  <2>4. CASE i.ix = "unstake"
    <3> DEFINE o == i.signer
               n == Min({i.amount, c.staked[o]})
    <3>1. d = [c EXCEPT !.staked[o] = @ - n, !.unstaked[o] = @ + n]
      BY <2>4 DEF Apply
    <3> HIDE DEF d, o, n
    <3> QED
      BY <1>0, <3>1 DEF ChainFields
  <2>5. CASE i.ix = "withdrawUnstaked"
    <3> DEFINE o == i.signer
    <3>1. d = [c EXCEPT !.shares[o] = @ + c.unstaked[o], !.unstaked[o] = 0]
      BY <2>5 DEF Apply
    <3> HIDE DEF d, o
    <3> QED
      BY <1>0, <3>1 DEF ChainFields
  <2> QED
    BY <2>1, <2>2, <2>3, <2>4, <2>5 DEF OwnerIxs
<1> HIDE DEF d
<1>2. Mild(c, d)
  BY <1>1, MildVault
<1> QED
  BY <1>2 DEF d

\* What no instruction takes back: a chain whose tables hold what they held, whose
\* reserves are in their markets, and whose allocation has no new reserve. And one with
\* the same administrators and the same table as well.
TablesGrow(s, t) ==
    /\ DOMAIN s \subseteq DOMAIN t
    /\ \A k \in DOMAIN s : t[k].authority = s[k].authority /\ s[k].keys \subseteq t[k].keys
Kin(c, d) ==
    /\ Shape(d)
    /\ ReserveSet(d.vault) \subseteq ReserveSet(c.vault)
    /\ \A r \in Reserves : d.market[r].market = c.market[r].market
    /\ TablesGrow(c.tables, d.tables)
Grows(c, d) ==
    /\ Kin(c, d)
    /\ d.vault.admin = c.vault.admin /\ d.vault.lut = c.vault.lut
    /\ d.vault.pending = c.vault.pending

\* Nothing is taken back over two steps either.
LEMMA KinThen ==
    ASSUME NEW c, NEW d, NEW e
    PROVE  /\ Kin(c, d) /\ Kin(d, e) => Kin(c, e)
           /\ Grows(c, d) /\ Grows(d, e) => Grows(c, e)
BY DEF Grows, Kin, TablesGrow

\* A chain is one that nothing was taken back from.
LEMMA GrowsSelf ==
    ASSUME NEW c, Shape(c)
    PROVE  Grows(c, c)
BY DEF Grows, Kin, TablesGrow

\* Where only amounts move, nothing is taken back.
LEMMA MildGrows ==
    ASSUME NEW c, NEW d, Mild(c, d)
    PROVE  Grows(c, d)
BY DEF Grows, Kin, TablesGrow, Mild

\* Another allocation, all of it in reserves that there are.
LEMMA OtherSlots ==
    ASSUME NEW c, Shape(c), NEW a, Slotted(a), NEW V, V = [c.vault EXCEPT !.alloc = a],
           NEW d, d = [c EXCEPT !.vault = V], ReserveSet(V) \subseteq Reserves
    PROVE  /\ Shape(d) /\ d.tables = c.tables /\ d.market = c.market /\ d.vault = V
           /\ d.vault.admin = c.vault.admin /\ d.vault.lut = c.vault.lut
           /\ d.vault.pending = c.vault.pending
<1>1. ChainFields \subseteq DOMAIN c /\ VaultFields \subseteq DOMAIN c.vault
  BY DEF Shape, VaultShape
<1>2. /\ DOMAIN V = DOMAIN c.vault /\ V.admin = c.vault.admin /\ V.lut = c.vault.lut
      /\ V.pending = c.vault.pending /\ V.alloc = a
  BY <1>1 DEF VaultFields
<1>3. /\ DOMAIN d = DOMAIN c /\ d.vault = V /\ d.market = c.market /\ d.tables = c.tables
  BY <1>1 DEF ChainFields
<1>4. VaultShape(V)
  BY <1>1, <1>2 DEF VaultShape
<1> QED
  BY <1>2, <1>3, <1>4 DEF Shape

\* A reserve that goes leaves a hole.
LEMMA RemoveStep ==
    ASSUME NEW c, Shape(c), NEW i, i.ix = "removeAllocation"
    PROVE  Grows(c, Apply(c, i))
<1> DEFINE j == SlotOf(c.vault, i.reserve)
           e == [reserve |-> NullKey, weight |-> 0, cap |-> 0, ctokens |-> 0]
           a == [c.vault.alloc EXCEPT ![j] = e]
           V == [c.vault EXCEPT !.alloc = a]
           d == [c EXCEPT !.vault = V]
<1>1. Apply(c, i) = [c EXCEPT !.vault.alloc[j] = e]
  BY DEF Apply
<1>2. Apply(c, i) = d
  BY <1>1
<1> HIDE DEF j
<1>3. e.reserve = NullKey /\ "reserve" \in DOMAIN e
  OBVIOUS
<1> HIDE DEF e
<1>4. Slotted(a) /\ DOMAIN a = DOMAIN c.vault.alloc
  <2>1. PICK n \in Nat : c.vault.alloc = [k \in 1 .. n |-> c.vault.alloc[k]]
    BY DEF Shape, VaultShape, Slotted
  <2>2. DOMAIN a = DOMAIN c.vault.alloc /\ DOMAIN a = 1 .. n
    BY <2>1
  <2>3. a = [k \in 1 .. n |-> a[k]]
    BY <2>2
  <2>4. \A k \in DOMAIN a : a[k] = e \/ a[k] = c.vault.alloc[k]
    OBVIOUS
  <2>5. \A k \in DOMAIN a : "reserve" \in DOMAIN a[k]
    BY <1>3, <2>2, <2>4 DEF Shape, VaultShape, Slotted
  <2> HIDE DEF a
  <2> QED
    BY <2>2, <2>3, <2>5 DEF Slotted
<1>5. ReserveSet(V) \subseteq ReserveSet(c.vault)
  <2>1. V.alloc = a
    BY DEF Shape, VaultShape, VaultFields
  <2>2. \A k \in DOMAIN a : a[k] = e \/ a[k] = c.vault.alloc[k]
    OBVIOUS
  <2> HIDE DEF a, V
  <2> QED
    BY <1>3, <1>4, <2>1, <2>2 DEF ReserveSet
<1>6. ReserveSet(V) \subseteq Reserves
  BY <1>5 DEF Shape, VaultShape
<1> HIDE DEF a
<1>7. /\ Shape(d) /\ d.tables = c.tables /\ d.market = c.market /\ d.vault = V
      /\ d.vault.admin = c.vault.admin /\ d.vault.lut = c.vault.lut
      /\ d.vault.pending = c.vault.pending
  BY <1>4, <1>6, OtherSlots
<1> HIDE DEF d, V
<1>8. Grows(c, d)
  BY <1>5, <1>7 DEF Grows, Kin, TablesGrow
<1> QED
  BY <1>2, <1>8

\* Other tables.
LEMMA OtherTables ==
    ASSUME NEW c, Shape(c), NEW t, TablesShape(t), TablesGrow(c.tables, t),
           NEW d, d = [c EXCEPT !.tables = t]
    PROVE  Grows(c, d) /\ d.tables = t
<1>1. ChainFields \subseteq DOMAIN c
  BY DEF Shape
<1>2. /\ DOMAIN d = DOMAIN c /\ d.vault = c.vault /\ d.market = c.market /\ d.tables = t
  BY <1>1 DEF ChainFields
<1>3. Shape(d)
  BY <1>2 DEF Shape
<1> QED
  BY <1>2, <1>3 DEF Grows, Kin

\* An extension adds its keys to its table.
LEMMA ExtendStep ==
    ASSUME NEW c, Shape(c), NEW i, i.ix = "extendLookupTable", IsFiniteSet(i.keys), Allowed(c, i)
    PROVE  /\ Grows(c, Apply(c, i))
           /\ i.table \in DOMAIN Apply(c, i).tables /\ i.keys \subseteq Apply(c, i).tables[i.table].keys
<1> DEFINE k == i.table
           n == i.keys
           t == [c.tables EXCEPT ![k].keys = @ \cup n]
           d == [c EXCEPT !.tables = t]
<1>1. k \in DOMAIN c.tables
  BY DEF Allowed
<1>2. Apply(c, i) = d
  <2>1. Apply(c, i) = [c EXCEPT !.tables[k].keys = @ \cup n]
    BY DEF Apply
  <2> QED
    BY <2>1
<1>3. IsFiniteSet(c.tables[k].keys \cup n)
  <2>1. IsFiniteSet(c.tables[k].keys)
    BY <1>1 DEF Shape, TablesShape
  <2> QED
    BY <2>1, FS_Union
<1> HIDE DEF k, n
<1>4. /\ DOMAIN t = DOMAIN c.tables
      /\ \A x \in DOMAIN c.tables :
            /\ {"authority", "keys"} \subseteq DOMAIN c.tables[x] /\ IsFiniteSet(c.tables[x].keys)
            /\ t[x] = IF x = k THEN [c.tables[k] EXCEPT !.keys = @ \cup n] ELSE c.tables[x]
  BY DEF Shape, TablesShape
<1> HIDE DEF t
<1>5. \A x \in DOMAIN c.tables :
         /\ DOMAIN t[x] = DOMAIN c.tables[x] /\ t[x].authority = c.tables[x].authority
         /\ t[x].keys = IF x = k THEN c.tables[k].keys \cup n ELSE c.tables[x].keys
  BY <1>4
<1>6. TablesShape(t) /\ TablesGrow(c.tables, t)
  <2>1. NoTable \notin DOMAIN c.tables
    BY DEF Shape, TablesShape
  <2> QED
    BY <1>3, <1>4, <1>5, <2>1 DEF TablesShape, TablesGrow
<1>7. Grows(c, d) /\ d.tables = t
  BY <1>6, OtherTables
<1> HIDE DEF d
<1>8. k \in DOMAIN d.tables /\ n \subseteq d.tables[k].keys
  BY <1>1, <1>4, <1>5, <1>7
<1> QED
  BY <1>2, <1>7, <1>8 DEF k, n

\* A table is made: it is the signer's.
LEMMA CreateStep ==
    ASSUME NEW c, Shape(c), NEW i, i.ix = "createLookupTable", i.table # NoTable, Allowed(c, i)
    PROVE  /\ Grows(c, Apply(c, i))
           /\ i.table \in DOMAIN Apply(c, i).tables
           /\ Apply(c, i).tables[i.table].authority = i.signer
<1> DEFINE k == i.table
           o == i.signer
           e == [authority |-> o, keys |-> {}]
           t == [x \in DOMAIN c.tables \cup {k} |-> IF x = k THEN e ELSE c.tables[x]]
           d == [c EXCEPT !.tables = t]
<1>1. k \notin DOMAIN c.tables
  BY DEF Allowed
<1>2. Apply(c, i) = d
  BY DEF Apply
<1> HIDE DEF o
<1>3. /\ e.authority = o /\ e.keys = {} /\ {"authority", "keys"} \subseteq DOMAIN e
      /\ IsFiniteSet(e.keys)
  BY FS_EmptySet
<1> HIDE DEF e
<1>4. /\ DOMAIN t = DOMAIN c.tables \cup {k}
      /\ \A x \in DOMAIN t : t[x] = IF x = k THEN e ELSE c.tables[x]
  OBVIOUS
<1>5. k # NoTable
  OBVIOUS
<1> HIDE DEF k, t
<1>6. TablesShape(t) /\ TablesGrow(c.tables, t)
  BY <1>1, <1>3, <1>4, <1>5 DEF Shape, TablesShape, TablesGrow
<1>7. Grows(c, d) /\ d.tables = t
  BY <1>6, OtherTables
<1> HIDE DEF d
<1>8. k \in DOMAIN d.tables /\ d.tables[k].authority = o
  BY <1>3, <1>4, <1>7
<1> QED
  BY <1>2, <1>7, <1>8 DEF k, o

\* The table of an extension has its keys, and one that was created its authority.
Shows(d, i) ==
    /\ i.ix = "extendLookupTable" =>
          i.table \in DOMAIN d.tables /\ i.keys \subseteq d.tables[i.table].keys
    /\ i.ix = "createLookupTable" =>
          i.table \in DOMAIN d.tables /\ d.tables[i.table].authority = i.signer

\* And goes on to.
LEMMA StillShows ==
    ASSUME NEW c, NEW d, Kin(c, d), NEW i, Shows(c, i)
    PROVE  Shows(d, i)
BY DEF Shows, Kin, TablesGrow

\* An instruction of those that are soft, where it is allowed.
LEMMA SoftStep ==
    ASSUME NEW c, Shape(c), NEW i, Soft(i), Allowed(c, i)
    PROVE  Grows(c, Apply(c, i)) /\ Shows(Apply(c, i), i)
<1>1. CASE \/ i.ix \in VaultIxs
           \/ i.ix = "updateVaultConfig" /\ i.field \in {"farm", "perfBps", "mgmtBps"}
  <2>1. Mild(c, Apply(c, i))
    BY <1>1, MildApplied
  <2>2. i.ix # "extendLookupTable" /\ i.ix # "createLookupTable"
    BY <1>1 DEF VaultIxs
  <2> QED
    BY <2>1, <2>2, MildGrows DEF Shows
<1>2. CASE i.ix \in OwnerIxs
  <2>1. Mild(c, Apply(c, i))
    BY <1>2, MildOwner
  <2>2. i.ix # "extendLookupTable" /\ i.ix # "createLookupTable"
    BY <1>2 DEF OwnerIxs
  <2> QED
    BY <2>1, <2>2, MildGrows DEF Shows
<1>3. CASE i.ix = "removeAllocation"
  <2>1. i.ix # "extendLookupTable" /\ i.ix # "createLookupTable"
    BY <1>3
  <2> QED
    BY <1>3, <2>1, RemoveStep DEF Shows
<1>4. CASE i.ix = "extendLookupTable"
  <2>1. i.ix # "createLookupTable" /\ IsFiniteSet(i.keys)
    BY <1>4 DEF Soft, VaultIxs, OwnerIxs
  <2> QED
    BY <1>4, <2>1, ExtendStep DEF Shows
<1>5. CASE i.ix = "createLookupTable"
  <2>1. i.ix # "extendLookupTable" /\ i.table # NoTable
    BY <1>5 DEF Soft, VaultIxs, OwnerIxs
  <2> QED
    BY <1>5, <2>1, CreateStep DEF Shows
<1> QED
  BY <1>1, <1>2, <1>3, <1>4, <1>5 DEF Soft

\* Other administrators or another table.
LEMMA OtherVault ==
    ASSUME NEW c, Shape(c), NEW V, VaultFields \subseteq DOMAIN V, V.alloc = c.vault.alloc,
           NEW d, DOMAIN d = DOMAIN c, d.vault = V, d.tables = c.tables, d.market = c.market
    PROVE  Kin(c, d)
<1>1. ReserveSet(V) = ReserveSet(c.vault)
  BY DEF ReserveSet
<1>2. VaultShape(V)
  BY <1>1 DEF VaultShape, Shape
<1> QED
  BY <1>1, <1>2 DEF Kin, Shape, TablesGrow

\* The table or the next administrator is set, by the administrator.
LEMMA ConfigStep ==
    ASSUME NEW c, Shape(c), NEW i, i.ix = "updateVaultConfig", i.field \in {"lut", "pending"},
           Allowed(c, i)
    PROVE  /\ i.signer = c.vault.admin
           /\ Kin(c, Apply(c, i)) /\ Apply(c, i).vault.admin = c.vault.admin
           /\ i.field = "lut" => /\ Apply(c, i).vault.lut = i.value
                                 /\ Apply(c, i).vault.pending = c.vault.pending
           /\ i.field = "pending" => /\ Apply(c, i).vault.pending = i.value
                                     /\ Apply(c, i).vault.lut = c.vault.lut
<1> DEFINE d == Charged(c)
           f == i.field
           x == i.value
           e == [d EXCEPT !.vault[f] = x]
<1>1. i.signer = c.vault.admin
  BY DEF Allowed, AdminOnly
<1>2. Apply(c, i) = Settled(e)
  <2>1. Apply(c, i) = Settled(VaultStep(d, i))
    BY DEF Apply
  <2> HIDE DEF d
  <2>2. VaultStep(d, i) = e
    BY DEF VaultStep
  <2> HIDE DEF e
  <2> QED
    BY <2>1, <2>2
<1>3. Grows(c, d) /\ Shape(d)
  BY MildCharged, MildGrows DEF Mild
<1> HIDE DEF d, x
<1>4. /\ Kin(d, e) /\ e.vault.admin = d.vault.admin
      /\ f = "lut" => e.vault.lut = x /\ e.vault.pending = d.vault.pending
      /\ f = "pending" => e.vault.pending = x /\ e.vault.lut = d.vault.lut
  <2>1. ChainFields \subseteq DOMAIN d /\ VaultFields \subseteq DOMAIN d.vault
    BY <1>3 DEF Shape, VaultShape
  <2>2. /\ e.vault = [d.vault EXCEPT ![f] = x]
        /\ e.market = d.market /\ e.tables = d.tables /\ DOMAIN e = DOMAIN d
    BY <2>1 DEF ChainFields
  <2>3. f \in {"lut", "pending"}
    OBVIOUS
  <2> HIDE DEF e, f
  <2>4. /\ DOMAIN e.vault = DOMAIN d.vault /\ e.vault.alloc = d.vault.alloc
        /\ e.vault.admin = d.vault.admin
        /\ f = "lut" => e.vault.lut = x /\ e.vault.pending = d.vault.pending
        /\ f = "pending" => e.vault.pending = x /\ e.vault.lut = d.vault.lut
    BY <2>1, <2>2, <2>3 DEF VaultFields
  <2>5. Kin(d, e)
    BY <1>3, <2>1, <2>2, <2>4, OtherVault
  <2> QED
    BY <2>4, <2>5
<1> HIDE DEF e
<1>5. Grows(e, Settled(e))
  <2>1. Shape(e)
    BY <1>4 DEF Kin
  <2> QED
    BY <2>1, MildSettled, MildGrows
<1>6. Kin(c, Settled(e))
  <2>1. Kin(c, d) /\ Kin(e, Settled(e))
    BY <1>3, <1>5 DEF Grows
  <2> QED
    BY <1>4, <2>1, KinThen
<1>7. /\ Settled(e).vault.admin = e.vault.admin /\ Settled(e).vault.lut = e.vault.lut
      /\ Settled(e).vault.pending = e.vault.pending
      /\ d.vault.admin = c.vault.admin /\ d.vault.lut = c.vault.lut
      /\ d.vault.pending = c.vault.pending
  BY <1>3, <1>5 DEF Grows
<1> QED
  BY <1>1, <1>2, <1>4, <1>6, <1>7 DEF f, x

\* The next administrator accepts.
LEMMA AdminStep ==
    ASSUME NEW c, Shape(c), NEW i, i.ix = "updateAdmin", Allowed(c, i)
    PROVE  /\ i.signer = c.vault.pending /\ i.signer # NullKey
           /\ Kin(c, Apply(c, i)) /\ Apply(c, i).vault.admin = i.signer
           /\ Apply(c, i).vault.lut = c.vault.lut /\ Apply(c, i).vault.pending = NullKey
<1> DEFINE d == Apply(c, i)
           o == i.signer
<1>1. o = c.vault.pending /\ o # NullKey
  BY DEF Allowed
<1>2. d = [c EXCEPT !.vault.admin = o, !.vault.pending = NullKey]
  BY DEF Apply
<1>3. ChainFields \subseteq DOMAIN c /\ VaultFields \subseteq DOMAIN c.vault
  BY DEF Shape, VaultShape
<1> HIDE DEF d, o
<1>4. /\ d.vault = [c.vault EXCEPT !.admin = o, !.pending = NullKey]
      /\ d.market = c.market /\ d.tables = c.tables /\ DOMAIN d = DOMAIN c
  BY <1>2, <1>3 DEF ChainFields
<1>5. /\ DOMAIN d.vault = DOMAIN c.vault /\ d.vault.alloc = c.vault.alloc
      /\ d.vault.admin = o /\ d.vault.pending = NullKey /\ d.vault.lut = c.vault.lut
  BY <1>3, <1>4 DEF VaultFields
<1>6. Kin(c, d)
  BY <1>3, <1>4, <1>5, OtherVault
<1> QED
  BY <1>1, <1>5, <1>6 DEF d, o

\* A reserve is given a weight, in its slot or in a free one.
LEMMA AllocStep ==
    ASSUME NEW c, Shape(c), NEW i, i.ix = "updateReserveAllocation", i.reserve \in Reserves,
           Allowed(c, i)
    PROVE  /\ i.signer = c.vault.admin
           /\ Shape(Apply(c, i)) /\ Apply(c, i).tables = c.tables /\ Apply(c, i).market = c.market
           /\ Apply(c, i).vault.admin = c.vault.admin /\ Apply(c, i).vault.lut = c.vault.lut
           /\ Apply(c, i).vault.pending = c.vault.pending
           /\ ReserveSet(Apply(c, i).vault) \subseteq ReserveSet(c.vault) \cup {i.reserve}
<1> DEFINE j == IF i.reserve \in ReserveSet(c.vault) THEN SlotOf(c.vault, i.reserve) ELSE FreeSlot(c.vault)
           r == i.reserve
           w == i.weight
           cap == i.cap
           e == [c.vault.alloc[j] EXCEPT !.reserve = r, !.weight = w, !.cap = cap]
           a == [c.vault.alloc EXCEPT ![j] = e]
           V == [c.vault EXCEPT !.alloc = a]
           d == [c EXCEPT !.vault = V]
<1>0. i.signer = c.vault.admin
  BY DEF Allowed, AdminOnly
<1>1. Apply(c, i) = [c EXCEPT !.vault.alloc[j] = [@ EXCEPT !.reserve = r, !.weight = w, !.cap = cap]]
  BY DEF Apply
<1>2. Apply(c, i) = d
  BY <1>1
<1> HIDE DEF j, r, w, cap
<1>3. j \in DOMAIN c.vault.alloc => e.reserve = r /\ "reserve" \in DOMAIN e
  BY DEF Shape, VaultShape, Slotted
<1>4. \A k \in DOMAIN c.vault.alloc : a[k] = IF k = j THEN e ELSE c.vault.alloc[k]
  OBVIOUS
<1>5. Slotted(a) /\ DOMAIN a = DOMAIN c.vault.alloc
  <2>1. PICK n \in Nat : c.vault.alloc = [k \in 1 .. n |-> c.vault.alloc[k]]
    BY DEF Shape, VaultShape, Slotted
  <2>2. DOMAIN a = DOMAIN c.vault.alloc /\ DOMAIN a = 1 .. n
    BY <2>1
  <2>3. a = [k \in 1 .. n |-> a[k]]
    BY <2>2
  <2> HIDE DEF a, e
  <2>4. \A k \in DOMAIN a : "reserve" \in DOMAIN a[k]
    BY <1>3, <1>4, <2>2 DEF Shape, VaultShape, Slotted
  <2> QED
    BY <2>2, <2>3, <2>4 DEF Slotted
<1>6. ReserveSet(V) \subseteq ReserveSet(c.vault) \cup {r}
  <2>1. V.alloc = a
    BY DEF Shape, VaultShape, VaultFields
  <2> HIDE DEF a, V, e
  <2> QED
    BY <1>3, <1>4, <1>5, <2>1 DEF ReserveSet
<1>7. ReserveSet(V) \subseteq Reserves
  <2>1. ReserveSet(c.vault) \subseteq Reserves /\ r \in Reserves
    BY DEF Shape, VaultShape, r
  <2> HIDE DEF V
  <2> QED
    BY <1>6, <2>1
<1> HIDE DEF a
<1>8. /\ Shape(d) /\ d.tables = c.tables /\ d.market = c.market /\ d.vault = V
      /\ d.vault.admin = c.vault.admin /\ d.vault.lut = c.vault.lut
      /\ d.vault.pending = c.vault.pending
  BY <1>5, <1>7, OtherSlots
<1> HIDE DEF d, V
<1> QED
  BY <1>0, <1>2, <1>6, <1>8 DEF r

\* A vault is made: its administrator, no table and no reserves.
LEMMA InitStep ==
    ASSUME NEW c, Shape(c), NEW i, i.ix = "initVault"
    PROVE  /\ Kin(c, Apply(c, i)) /\ Apply(c, i).vault.admin = i.signer
           /\ Apply(c, i).vault.pending = NullKey /\ ReserveSet(Apply(c, i).vault) = {}
<1> DEFINE o == i.signer
           n == VAULT_INITIAL_DEPOSIT
           s == Seconds(c)
           p == Dec(n)
           V == [NoVault EXCEPT !.admin = o, !.available = n, !.issued = n, !.prevAum = p,
                                !.lastCharge = s]
           d == Apply(c, i)
<1>1. d = [c EXCEPT !.vault = V, !.token[o] = @ - n]
  BY DEF Apply
<1> HIDE DEF o, n, s, p, d
<1>2. DOMAIN NoVault = VaultFields /\ NoVault.pending = NullKey /\ ReserveSet(NoVault) = {}
  BY NoVaultAssumption
<1>3. /\ DOMAIN V = VaultFields /\ V.admin = o /\ V.pending = NullKey /\ V.alloc = NoVault.alloc
  BY <1>2 DEF VaultFields
<1> HIDE DEF V
<1>4. ReserveSet(V) = {}
  BY <1>2, <1>3 DEF ReserveSet
<1>5. Slotted(V.alloc)
  <2>1. NoVault.alloc \in Seq(AllocSlots)
    BY NoVaultAssumption
  <2>2. /\ Len(NoVault.alloc) \in Nat /\ DOMAIN NoVault.alloc = 1 .. Len(NoVault.alloc)
        /\ \A k \in DOMAIN NoVault.alloc : NoVault.alloc[k] \in AllocSlots
    BY <2>1, OverItsOwn
  <2>3. NoVault.alloc = [k \in 1 .. Len(NoVault.alloc) |-> NoVault.alloc[k]]
    BY <2>1
  <2>4. \A k \in DOMAIN NoVault.alloc : "reserve" \in DOMAIN NoVault.alloc[k]
    BY <2>2 DEF AllocSlots
  <2> QED
    BY <1>3, <2>2, <2>3, <2>4 DEF Slotted
<1>6. VaultShape(V)
  BY <1>3, <1>4, <1>5 DEF VaultShape
<1>7. ChainFields \subseteq DOMAIN c
  BY DEF Shape
<1>8. /\ DOMAIN d = DOMAIN c /\ d.vault = V /\ d.market = c.market /\ d.tables = c.tables
  BY <1>1, <1>7 DEF ChainFields
<1>9. Kin(c, d)
  BY <1>4, <1>6, <1>8 DEF Kin, Shape, TablesGrow
<1> QED
  BY <1>3, <1>4, <1>8, <1>9 DEF d, o

-----------------------------------------------------------------------------
(* Transactions *)

\* What Executed computes one instruction after the other, and the recursion it is.
ThenIx(e0, c, i) == CHOOSE e \in {Then(d, c, i) : d \in {e0}} : TRUE
Runs(f, c, tx, n) ==
    f = [k \in 0 .. n |-> IF k = 0 THEN [ok |-> TRUE, c |-> c] ELSE ThenIx(f[k - 1], c, tx[k])]

\* That recursion has a solution.
LEMMA RunsExist ==
    ASSUME NEW c, NEW tx, NEW n \in Nat
    PROVE  \E f : Runs(f, c, tx, n)
<1> DEFINE T == {k \in Nat : ~ \E f : Runs(f, c, tx, k)}
<1>1. ASSUME T # {} PROVE FALSE
  <2>1. PICK k \in T : \A m \in T : k <= m
    <3>1. T \in SUBSET Nat
      OBVIOUS
    <3> HIDE DEF T
    <3> QED
      BY <1>1, <3>1, SmallestNat
  <2>2. CASE k = 0
    <3>1. Runs([i \in 0 .. 0 |-> [ok |-> TRUE, c |-> c]], c, tx, 0)
      BY DEF Runs
    <3> QED
      BY <2>2, <3>1
  <2>3. CASE k # 0
    <3>1. k - 1 \in Nat /\ ~(k <= k - 1)
      BY <2>3
    <3>2. PICK f : Runs(f, c, tx, k - 1)
      BY <2>1, <3>1
    <3> DEFINE g == [i \in 0 .. k |-> IF i = k THEN ThenIx(f[k - 1], c, tx[k]) ELSE f[i]]
    <3>3. ASSUME NEW i \in 0 .. k
          PROVE  g[i] = IF i = 0 THEN [ok |-> TRUE, c |-> c] ELSE ThenIx(g[i - 1], c, tx[i])
      <4>1. i # 0 => i - 1 \in 0 .. k /\ i - 1 # k
        BY <3>1
      <4>2. CASE i # k
        <5>1. i \in 0 .. (k - 1) /\ g[i] = f[i]
          BY <3>1, <4>2
        <5>2. f[i] = IF i = 0 THEN [ok |-> TRUE, c |-> c] ELSE ThenIx(f[i - 1], c, tx[i])
          BY <3>2, <5>1 DEF Runs
        <5> QED
          BY <4>1, <5>1, <5>2
      <4>3. CASE i = k
        BY <2>3, <4>1, <4>3
      <4> QED
        BY <4>2, <4>3
    <3>4. Runs(g, c, tx, k)
      <4>1. g = [i \in 0 .. k |-> g[i]]
        OBVIOUS
      <4> HIDE DEF g
      <4> QED
        BY <3>3, <4>1 DEF Runs
    <3> QED
      BY <3>4
  <2> QED
    BY <2>2, <2>3
<1> QED
  BY <1>1

\* A transaction is a run of its instructions, each of them after those before it.
LEMMA ExecutedRun ==
    ASSUME NEW c, NEW tx, Len(tx) \in Nat
    PROVE  \E f : /\ f[0] = [ok |-> TRUE, c |-> c]
                  /\ \A k \in 1 .. Len(tx) : f[k] = Then(f[k - 1], c, tx[k])
                  /\ Executed(c, tx) = f[Len(tx)]
<1> DEFINE n == Len(tx)
           f == CHOOSE g : Runs(g, c, tx, n)
<1>1. Runs(f, c, tx, n)
  <2>1. \E g : Runs(g, c, tx, n)
    BY RunsExist
  <2> QED
    BY <2>1, Zenon
<1>2. Executed(c, tx) = f[n]
  BY DEF Executed, Runs, ThenIx
<1> HIDE DEF f
<1>3. f[0] = [ok |-> TRUE, c |-> c]
  BY <1>1 DEF Runs
<1>4. ASSUME NEW k \in 1 .. n PROVE f[k] = Then(f[k - 1], c, tx[k])
  <2>0. f[k] = ThenIx(f[k - 1], c, tx[k])
    <3>1. k \in 0 .. n /\ k # 0
      OBVIOUS
    <3> HIDE DEF n
    <3> QED
      BY <1>1, <3>1 DEF Runs
  <2>1. f[k] = CHOOSE e \in {Then(d, c, tx[k]) : d \in {f[k - 1]}} : TRUE
    BY <2>0 DEF ThenIx
  <2>2. \A x : (CHOOSE e \in {Then(d, c, tx[k]) : d \in {x}} : TRUE) = Then(x, c, tx[k])
    <3>1. ASSUME NEW x, NEW y PROVE (CHOOSE e \in {y} : TRUE) = y
      OBVIOUS
    <3>2. \A x : {Then(d, c, tx[k]) : d \in {x}} = {Then(x, c, tx[k])}
      OBVIOUS
    <3> QED
      BY <3>1, <3>2
  <2> QED
    BY <2>1, <2>2
<1> QED
  BY <1>2, <1>3, <1>4

\* The chains between the instructions of a transaction that lands.
Path(g, c, tx, d) ==
    /\ g[0] = c /\ g[Len(tx)] = d
    /\ \A k \in 1 .. Len(tx) : Allowed(g[k - 1], tx[k]) /\ g[k] = Apply(g[k - 1], tx[k])
Leads(c, tx, d) == \E g : Path(g, c, tx, d)

\* A transaction that is not refused leads from the chain before it to the one after.
LEMMA LandsOn ==
    ASSUME NEW c, NEW tx, IsSeq(tx), Executed(c, tx).ok
    PROVE  Leads(c, tx, Executed(c, tx).c)
<1> DEFINE n == Len(tx)
<1>1. n \in Nat
  BY LenProperties DEF IsSeq
<1>2. PICK f : /\ f[0] = [ok |-> TRUE, c |-> c]
               /\ \A k \in 1 .. n : f[k] = Then(f[k - 1], c, tx[k])
               /\ Executed(c, tx) = f[n]
  BY <1>1, ExecutedRun
<1> HIDE DEF n
<1>3. ASSUME NEW k \in 1 .. n, f[k].ok
      PROVE  f[k - 1].ok /\ Allowed(f[k - 1].c, tx[k]) /\ f[k].c = Apply(f[k - 1].c, tx[k])
  <2> DEFINE e == f[k - 1]
             x == f[k]
             y == Apply(e.c, tx[k])
  <2>1. x = Then(e, c, tx[k]) /\ x.ok
    BY <1>2, <1>3
  <2> HIDE DEF e, x, y
  <2>2. CASE e.ok /\ Allowed(e.c, tx[k])
    <3>1. x = [ok |-> TRUE, c |-> y]
      BY <2>1, <2>2 DEF Then, y
    <3>2. x.c = y
      BY <3>1
    <3> QED
      BY <2>2, <3>2 DEF e, x, y
  <2>3. CASE ~(e.ok /\ Allowed(e.c, tx[k]))
    <3>1. x = [ok |-> FALSE, c |-> c]
      BY <2>1, <2>3 DEF Then
    <3>2. ~x.ok
      BY <3>1
    <3> QED
      BY <2>1, <3>2
  <2> QED
    BY <2>2, <2>3
<1>4. \A k \in 0 .. n : f[k].ok
  <2> DEFINE T == {j \in Nat : j \in 0 .. n /\ ~f[n - j].ok}
  <2>1. ASSUME T # {} PROVE FALSE
    <3>1. PICK j \in T : \A m \in T : j <= m
      <4>1. T \in SUBSET Nat
        OBVIOUS
      <4> HIDE DEF T
      <4> QED
        BY <2>1, <4>1, SmallestNat
    <3>2. j \in 0 .. n /\ ~f[n - j].ok
      OBVIOUS
    <3>3. j # 0
      BY <1>1, <1>2, <3>2
    <3>4. /\ j - 1 \in Nat /\ j - 1 \in 0 .. n /\ ~(j <= j - 1)
          /\ n - (j - 1) \in 1 .. n /\ (n - (j - 1)) - 1 = n - j
      BY <1>1, <3>2, <3>3
    <3>5. f[n - (j - 1)].ok
      BY <3>1, <3>4
    <3> QED
      BY <1>3, <3>2, <3>4, <3>5
  <2>2. ASSUME NEW k \in 0 .. n PROVE f[k].ok
    <3>1. n - k \in Nat /\ n - k \in 0 .. n /\ n - (n - k) = k
      BY <1>1
    <3> QED
      BY <2>1, <3>1
  <2> QED
    BY <2>2
<1> DEFINE g == [k \in 0 .. n |-> f[k].c]
<1>5. g[0] = c /\ g[n] = Executed(c, tx).c
  BY <1>1, <1>2
<1>6. ASSUME NEW k \in 1 .. n
      PROVE  Allowed(g[k - 1], tx[k]) /\ g[k] = Apply(g[k - 1], tx[k])
  <2>1. k \in 0 .. n /\ k - 1 \in 0 .. n
    BY <1>1
  <2>2. g[k] = f[k].c /\ g[k - 1] = f[k - 1].c
    BY <2>1
  <2> HIDE DEF g
  <2> QED
    BY <1>3, <1>4, <2>1, <2>2
<1> HIDE DEF g
<1>7. Path(g, c, tx, Executed(c, tx).c)
  BY <1>5, <1>6 DEF Path, n
<1> QED
  BY <1>7 DEF Leads

\* One instruction; two transactions in one; and a number of soft instructions.
LEMMA LeadsOne ==
    ASSUME NEW c, NEW i, NEW d, Leads(c, <<i>>, d)
    PROVE  Allowed(c, i) /\ d = Apply(c, i)
<1> DEFINE tx == <<i>>
<1>1. PICK g : Path(g, c, tx, d)
  BY DEF Leads
<1>2. Len(tx) = 1 /\ tx[1] = i
  OBVIOUS
<1> HIDE DEF tx
<1> QED
  BY <1>1, <1>2 DEF Path

\* One sequence of instructions after another.
LEMMA LeadsJoined ==
    ASSUME NEW c, NEW x, NEW y, NEW d, IsSeq(x), IsSeq(y), Leads(c, x \o y, d)
    PROVE  \E e : Leads(c, x, e) /\ Leads(e, y, d)
<1> DEFINE tx == x \o y
           n == Len(x)
           m == Len(y)
<1>1. /\ Len(tx) = n + m /\ n \in Nat /\ m \in Nat
      /\ \A k \in 1 .. n : tx[k] = x[k]
      /\ \A k \in 1 .. m : tx[n + k] = y[k]
  BY Joined
<1>2. PICK g : Path(g, c, tx, d)
  BY DEF Leads
<1> HIDE DEF tx
<1>3. Path(g, c, x, g[n])
  BY <1>1, <1>2 DEF Path
<1> DEFINE h == [k \in 0 .. m |-> g[n + k]]
<1>4. h[0] = g[n] /\ h[m] = d
  BY <1>1, <1>2 DEF Path
<1>5. ASSUME NEW k \in 1 .. m
      PROVE  Allowed(h[k - 1], y[k]) /\ h[k] = Apply(h[k - 1], y[k])
  <2>1. k \in 0 .. m /\ k - 1 \in 0 .. m /\ n + k \in 1 .. n + m /\ (n + k) - 1 = n + (k - 1)
    BY <1>1
  <2>2. h[k] = g[n + k] /\ h[k - 1] = g[n + (k - 1)]
    BY <2>1
  <2>3. Allowed(g[(n + k) - 1], tx[n + k]) /\ g[n + k] = Apply(g[(n + k) - 1], tx[n + k])
    BY <1>1, <1>2, <2>1 DEF Path
  <2>4. tx[n + k] = y[k]
    BY <1>1
  <2> HIDE DEF h
  <2> QED
    BY <2>1, <2>2, <2>3, <2>4
<1> HIDE DEF h
<1>6. Path(h, g[n], y, d)
  BY <1>4, <1>5 DEF Path
<1> QED
  BY <1>3, <1>6 DEF Leads

\* Soft instructions, one after the other.
Softs(x) == IsSeq(x) /\ \A k \in DOMAIN x : Soft(x[k])

\* They take nothing back, and each has its effect on the tables.
LEMMA LeadsSoft ==
    ASSUME NEW c, Shape(c), NEW x, Softs(x), NEW d, Leads(c, x, d)
    PROVE  Grows(c, d) /\ \A k \in DOMAIN x : Shows(d, x[k])
<1> DEFINE n == Len(x)
<1>1. n \in Nat /\ DOMAIN x = 1 .. n
  BY LenProperties DEF Softs, IsSeq
<1>2. PICK g : Path(g, c, x, d)
  BY DEF Leads
<1>3. /\ g[0] = c /\ g[n] = d
      /\ \A k \in 1 .. n : Allowed(g[k - 1], x[k]) /\ g[k] = Apply(g[k - 1], x[k])
  BY <1>2 DEF Path
<1>4. \A k \in 1 .. n : Soft(x[k])
  BY <1>1 DEF Softs
<1> HIDE DEF n
<1> DEFINE P(k) == Grows(c, g[k]) /\ \A j \in 1 .. k : Shows(g[k], x[j])
           T == {k \in Nat : k \in 0 .. n /\ ~P(k)}
<1>5. ASSUME T # {} PROVE FALSE
  <2>1. PICK k \in T : \A m \in T : k <= m
    <3>1. T \in SUBSET Nat
      OBVIOUS
    <3> HIDE DEF T
    <3> QED
      BY <1>5, <3>1, SmallestNat
  <2>2. k \in 0 .. n /\ ~P(k)
    OBVIOUS
  <2>3. k # 0
    BY <1>3, <2>2, GrowsSelf
  <2>4. k - 1 \in Nat /\ k - 1 \in 0 .. n /\ ~(k <= k - 1) /\ k \in 1 .. n
    BY <1>1, <2>2, <2>3
  <2>5. P(k - 1)
    BY <2>1, <2>4
  <2> DEFINE a == g[k - 1]
             b == g[k]
  <2>6. Grows(c, a) /\ \A j \in 1 .. k - 1 : Shows(a, x[j])
    BY <2>5
  <2>7. Soft(x[k]) /\ Allowed(a, x[k]) /\ b = Apply(a, x[k])
    BY <1>3, <1>4, <2>4
  <2> HIDE DEF a, b
  <2>8. Grows(a, b) /\ Shows(b, x[k])
    <3>1. Shape(a)
      BY <2>6 DEF Grows, Kin
    <3> QED
      BY <2>7, <3>1, SoftStep
  <2>9. Grows(c, b)
    BY <2>6, <2>8, KinThen
  <2>10. ASSUME NEW j \in 1 .. k PROVE Shows(b, x[j])
    <3>1. CASE j = k
      BY <2>8, <3>1
    <3>2. CASE j # k
      <4>1. j \in 1 .. k - 1
        BY <2>4, <3>2
      <4>2. Shows(a, x[j]) /\ Kin(a, b)
        BY <2>6, <2>8, <4>1 DEF Grows
      <4> QED
        BY <4>2, StillShows
    <3> QED
      BY <3>1, <3>2
  <2>11. P(k)
    BY <2>9, <2>10 DEF b
  <2> QED
    BY <2>2, <2>11
<1>6. P(n)
  <2>1. n \in 0 .. n
    BY <1>1
  <2> QED
    BY <1>1, <1>5, <2>1
<1> QED
  BY <1>1, <1>3, <1>6

-----------------------------------------------------------------------------
(* What the operations build *)

\* No instructions.
LEMMA SoftsNone == Softs(<<>>)
<1>1. <<>> \in Seq({}) /\ DOMAIN <<>> = {}
  OBVIOUS
<1> QED
  BY <1>1, OverItsOwn DEF Softs

\* One soft instruction.
LEMMA SoftsOne ==
    ASSUME NEW i, Soft(i)
    PROVE  Softs(<<i>>)
<1> DEFINE x == <<i>>
<1>1. x \in Seq({i}) /\ DOMAIN x = 1 .. 1 /\ x[1] = i
  OBVIOUS
<1> HIDE DEF x
<1>2. Softs(x)
  BY <1>1, OverItsOwn DEF Softs
<1> QED
  BY <1>2 DEF x

\* Two of them, or as many as there are.
LEMMA SoftsTwo ==
    ASSUME NEW a, NEW b, Soft(a), Soft(b)
    PROVE  Softs(<<a, b>>)
<1> DEFINE u == <<a, b>>
<1>1. u \in Seq({a, b}) /\ DOMAIN u = 1 .. 2 /\ u[1] = a /\ u[2] = b
  OBVIOUS
<1> HIDE DEF u
<1>2. IsSeq(u)
  BY <1>1, OverItsOwn
<1>3. \A k \in DOMAIN u : Soft(u[k])
  BY <1>1
<1>4. Softs(u)
  BY <1>2, <1>3 DEF Softs
<1> QED
  BY <1>4 DEF u

\* Those of two sequences.
LEMMA SoftsJoined ==
    ASSUME NEW x, NEW y, Softs(x), Softs(y)
    PROVE  Softs(x \o y)
<1> DEFINE z == x \o y
<1>1. IsSeq(x) /\ IsSeq(y)
  BY DEF Softs
<1>2. DOMAIN x = 1 .. Len(x) /\ DOMAIN y = 1 .. Len(y) /\ Len(x) \in Nat /\ Len(y) \in Nat
  BY <1>1, LenProperties DEF IsSeq
<1>3. /\ IsSeq(z) /\ DOMAIN z = 1 .. (Len(x) + Len(y))
      /\ \A i \in 1 .. Len(x) : z[i] = x[i]
      /\ \A i \in 1 .. Len(y) : z[Len(x) + i] = y[i]
  BY <1>1, Joined
<1> HIDE DEF z
<1>4. ASSUME NEW k \in DOMAIN z PROVE Soft(z[k])
  <2>1. k \in 1 .. (Len(x) + Len(y))
    BY <1>3
  <2>2. CASE k \in 1 .. Len(x)
    BY <1>2, <1>3, <2>2 DEF Softs
  <2>3. CASE k \notin 1 .. Len(x)
    <3>1. k - Len(x) \in 1 .. Len(y) /\ Len(x) + (k - Len(x)) = k
      BY <1>2, <2>1, <2>3
    <3>2. z[k] = y[k - Len(x)]
      BY <1>3, <3>1
    <3> QED
      BY <1>2, <3>1, <3>2 DEF Softs
  <2> QED
    BY <2>2, <2>3
<1> QED
  BY <1>3, <1>4 DEF Softs, z

\* As many as a function gives.
LEMMA SoftsTable ==
    ASSUME NEW n \in Nat, NEW x, x = [k \in 1 .. n |-> x[k]], \A k \in 1 .. n : Soft(x[k])
    PROVE  Softs(x)
BY TableSeq DEF Softs

\* The extensions of a table are soft.
LEMMA SoftExtensions ==
    ASSUME NEW x, NEW payer, NEW lut, NEW keys, NEW present, Extensions(x, payer, lut, keys, present)
    PROVE  Softs(x)
<1>1. ASSUME NEW i \in DOMAIN x PROVE Soft(x[i])
  <2>1. x[i].ix = "extendLookupTable" /\ IsFiniteSet(x[i].keys)
    BY DEF Extensions, extendTable
  <2> QED
    BY <2>1 DEF Soft
<1> QED
  BY <1>1 DEF Softs, Extensions

\* What an operation returns, whether it throws or not.
Gentle(o) == Softs(o.ixs)

\* The instructions of an operation that does not throw.
LEMMA DoneIxs ==
    ASSUME NEW x
    PROVE  Done(x).ixs = x
BY DEF Done

\* An operation that throws has none; one that returns soft instructions is gentle.
LEMMA GentleResults ==
    /\ \A m : Gentle(Fail(m))
    /\ \A x : Softs(x) => Gentle(Done(x))
    /\ \A x, n : Softs(x) => Gentle(WithInteger(n, x))
<1>1. \A m : Gentle(Fail(m))
  <2>1. ASSUME NEW m PROVE Fail(m).ixs = <<>>
    BY DEF Fail
  <2> QED
    BY <2>1, SoftsNone DEF Gentle
<1>2. \A x : Softs(x) => Gentle(Done(x))
  BY DoneIxs DEF Gentle
<1>3. ASSUME NEW x, NEW n, Softs(x) PROVE Gentle(WithInteger(n, x))
  <2>1. WithInteger(n, x) = Done(x) \/ \E m : WithInteger(n, x) = Fail(m)
    BY DEF WithInteger
  <2> QED
    BY <1>1, <1>2, <1>3, <2>1
<1> QED
  BY <1>1, <1>2, <1>3

\* And so is one that returns one result or the other.
LEMMA GentleEither ==
    ASSUME NEW p, NEW a, NEW b, Gentle(a), Gentle(b)
    PROVE  Gentle(IF p THEN a ELSE b)
OBVIOUS

\* A function from a finite set has finitely many values.
LEMMA FiniteValues ==
    ASSUME NEW S, IsFiniteSet(S), NEW f, f = [x \in S |-> f[x]]
    PROVE  IsFiniteSet({f[x] : x \in S})
<1> DEFINE T == {f[x] : x \in S}
<1>1. f \in Surjection(S, T)
  BY DEF Surjection
<1> HIDE DEF T
<1>2. IsFiniteSet(T)
  BY <1>1, FS_Surjection
<1> QED
  BY <1>2 DEF T

\* The reserves of a vault are a sequence, and finitely many.
LEMMA ReservesSeq ==
    ASSUME NEW V, VaultShape(V)
    PROVE  /\ IsSeq(Used(V)) /\ IsSeq(getVaultReserves(V))
           /\ Len(Used(V)) \in Nat /\ DOMAIN Used(V) = 1 .. Len(Used(V))
           /\ IsFiniteSet(ReserveSet(V))
<1>1. PICK n \in Nat : V.alloc = [i \in 1 .. n |-> V.alloc[i]]
  BY DEF VaultShape, Slotted
<1>2. IsSeq(V.alloc) /\ DOMAIN V.alloc = 1 .. n
  BY <1>1, TableSeq
<1>3. Used(V) \in Seq({V.alloc[i] : i \in DOMAIN V.alloc})
  <2> DEFINE S == {a \in ToSet(V.alloc) : a.reserve # NullKey}
             A == {V.alloc[i] : i \in DOMAIN V.alloc}
  <2>1. V.alloc \in Seq(A)
    BY <1>2 DEF IsSeq
  <2>2. Used(V) = Kept(V.alloc, S)
    BY DEF Used
  <2> HIDE DEF S, A
  <2>3. Used(V) \in Seq(A)
    BY <2>1, <2>2, KeptElements
  <2> QED
    BY <2>3 DEF A
<1>4. IsSeq(Used(V)) /\ Len(Used(V)) \in Nat /\ DOMAIN Used(V) = 1 .. Len(Used(V))
  BY <1>3, OverItsOwn
<1>5. IsSeq(getVaultReserves(V))
  <2> DEFINE s == getVaultReserves(V)
  <2>1. s = [i \in 1 .. Len(Used(V)) |-> s[i]]
    BY <1>4 DEF getVaultReserves
  <2> HIDE DEF s
  <2>2. IsSeq(s)
    BY <1>4, <2>1, TableSeq
  <2> QED
    BY <2>2 DEF s
<1>6. IsFiniteSet(ReserveSet(V))
  <2>1. IsFiniteSet(1 .. n)
    BY FS_Interval
  <2> DEFINE S == 1 .. n
             f == [i \in S |-> V.alloc[i].reserve]
  <2>2. f = [i \in S |-> f[i]] /\ \A i \in S : f[i] = V.alloc[i].reserve
    OBVIOUS
  <2>3. ReserveSet(V) \subseteq {f[i] : i \in S}
    BY <1>2 DEF ReserveSet
  <2> HIDE DEF f, S
  <2>4. IsFiniteSet({f[i] : i \in S})
    BY <2>1, <2>2, FiniteValues DEF S
  <2> QED
    BY <2>3, <2>4, FS_Subset
<1> QED
  BY <1>4, <1>5, <1>6

\* A few things are finitely many, and so are the accounts that go by their names.
LEMMA FewFinite ==
    ASSUME NEW a, NEW b, NEW c, NEW d, NEW e
    PROVE  IsFiniteSet({a, b, c, d, e})
<1>1. IsFiniteSet({a}) /\ IsFiniteSet({b}) /\ IsFiniteSet({c}) /\ IsFiniteSet({d}) /\ IsFiniteSet({e})
  BY FS_Singleton
<1>2. IsFiniteSet({a} \cup {b}) /\ IsFiniteSet({c} \cup {d})
  BY <1>1, FS_Union
<1>3. IsFiniteSet(({a} \cup {b}) \cup ({c} \cup {d}))
  BY <1>2, FS_Union
<1>4. IsFiniteSet((({a} \cup {b}) \cup ({c} \cup {d})) \cup {e})
  BY <1>1, <1>3, FS_Union
<1>5. {a, b, c, d, e} = (({a} \cup {b}) \cup ({c} \cup {d})) \cup {e}
  OBVIOUS
<1> QED
  BY <1>4, <1>5

\* The vault's accounts, and a reserve's.
LEMMA KeysFinite ==
    ASSUME NEW ks, IsFiniteSet(ks), NEW r
    PROVE  IsFiniteSet(VaultKeys(ks)) /\ IsFiniteSet(ReserveKeys(r, ks))
<1>1. IsFiniteSet(VaultKeys(ks))
  <2> DEFINE f == [k \in ks |-> <<"vault", k>>]
  <2>1. f = [k \in ks |-> f[k]] /\ VaultKeys(ks) = {f[k] : k \in ks}
    BY DEF VaultKeys
  <2> HIDE DEF f
  <2> QED
    BY <2>1, FiniteValues
<1>2. IsFiniteSet(ReserveKeys(r, ks))
  <2> DEFINE f == [k \in ks |-> <<r, k>>]
  <2>1. f = [k \in ks |-> f[k]] /\ ReserveKeys(r, ks) = {f[k] : k \in ks}
    BY DEF ReserveKeys
  <2> HIDE DEF f
  <2> QED
    BY <2>1, FiniteValues
<1> QED
  BY <1>1, <1>2

\* The accounts of a reserve's farms.
LEMMA FarmKeysFinite ==
    ASSUME NEW r
    PROVE  IsFiniteSet(FarmKeys(r))
<1>1. IsFiniteSet({"farmCollateral"}) /\ IsFiniteSet({"farmDebt"}) /\ IsFiniteSet({})
  BY FS_Singleton, FS_EmptySet
<1> DEFINE a == ReserveKeys(r, {"farmCollateral"})
           b == ReserveKeys(r, {"farmDebt"})
<1>2. IsFiniteSet(a) /\ IsFiniteSet(b)
  BY <1>1, KeysFinite
<1>3. FarmKeys(r) = (IF r \in FarmCollateral THEN a ELSE {}) \cup (IF r \in FarmDebt THEN b ELSE {})
  BY DEF FarmKeys
<1> HIDE DEF a, b
<1> QED
  BY <1>1, <1>2, <1>3, FS_Union

-----------------------------------------------------------------------------

\* A reserve that is taken out of the allocation.
LEMMA SoftRemove ==
    ASSUME NEW V, NEW r
    PROVE  Softs(removeReserveFromAllocationIx(V, r))
<1> DEFINE i == removeAllocation(V.admin, r)
<1>1. Soft(i)
  BY DEF Soft, removeAllocation
<1>2. removeReserveFromAllocationIx(V, r) = <<>> \/ removeReserveFromAllocationIx(V, r) = <<i>>
  BY DEF removeReserveFromAllocationIx
<1> HIDE DEF i
<1> QED
  BY <1>1, <1>2, SoftsOne, SoftsNone

\* The farm and the performance fee of a vault.
LEMMA SoftConfig ==
    ASSUME NEW V, NEW tables, NEW f \in {"farm", "perfBps"}, NEW value, NEW signer, NEW farms
    PROVE  Gentle(updateVaultConfigIxs(V, tables, f, value, signer, farms))
<1> DEFINE config == updateVaultConfigIx(V, f, value, signer)
           all == VaultKeys({value, "farmVault", "farmAuthority", "sharesMint", "globalConfig"})
           keys == CASE f = "pending" -> {Owner(value)}
                     [] f = "farm" /\ value \in farms -> all
                     [] OTHER -> {}
           x == insertIntoLookupTableIxs(V.admin, V.lut, keys, getAccountsInLUT(tables, V.lut))
<1>1. Soft(config)
  BY DEF Soft, updateVaultConfigIx, updateVaultConfig
<1>2. IsFiniteSet(keys)
  <2>1. IsFiniteSet(all)
    BY FewFinite, KeysFinite
  <2>2. f # "pending"
    OBVIOUS
  <2> HIDE DEF all
  <2>3. keys = all \/ keys = {}
    BY <2>2
  <2> QED
    BY <2>1, <2>3, FS_EmptySet
<1>3. updateVaultConfigIxs(V, tables, f, value, signer, farms) =
         IF keys = {} \/ (f = "farm" /\ Missing(tables, V.lut)) THEN Done(<<config>>)
         ELSE IF Missing(tables, V.lut) THEN Fail("Lookup table not found")
         ELSE Done(<<config>> \o x)
  BY DEF updateVaultConfigIxs
<1> HIDE DEF keys
<1>4. Softs(x)
  BY <1>2, Inserts, SoftExtensions
<1> HIDE DEF config, x
<1>5. Softs(<<config>>) /\ Softs(<<config>> \o x)
  BY <1>1, <1>4, SoftsOne, SoftsJoined
<1>6. Gentle(Done(<<config>>)) /\ Gentle(Done(<<config>> \o x)) /\ Gentle(Fail("Lookup table not found"))
  BY <1>5, GentleResults
<1> QED
  BY <1>3, <1>6, GentleEither, Zenon

\* A farm, for a vault that has none.
LEMMA SoftFarm ==
    ASSUME NEW V, NEW tables, NEW farm, NEW p, NEW farms
    PROVE  Gentle(setVaultFarmIxs(V, tables, farm, p, farms))
<1>1. Gentle(updateVaultConfigIxs(V, tables, "farm", farm, V.admin, farms))
  BY SoftConfig
<1>2. Gentle(Fail("Vault already has a farm"))
  BY GentleResults
<1> QED
  BY <1>1, <1>2 DEF setVaultFarmIxs

\* Fees given up by the administrator.
LEMMA SoftGiveUp ==
    ASSUME NEW V, NEW x
    PROVE  Gentle(giveUpPendingFeesIx(V, x))
<1> DEFINE n == toLamports(x, Factor)
           i == giveUpPendingFees(V.admin, Floor(n))
<1>1. Soft(i)
  BY DEF Soft, VaultIxs, giveUpPendingFees
<1>2. giveUpPendingFeesIx(V, x) = WithInteger(n, <<i>>)
  BY DEF giveUpPendingFeesIx
<1> HIDE DEF i, n
<1>3. Softs(<<i>>)
  BY <1>1, SoftsOne
<1> QED
  BY <1>2, <1>3, GentleResults

\* Investing in one reserve.
LEMMA SoftInvestOne ==
    ASSUME NEW V, NEW payer, NEW r
    PROVE  Softs(investSingleReserveIxs(V, payer, r))
<1> DEFINE i == invest(payer, r, getVaultReserves(V))
<1>1. Soft(i)
  BY DEF Soft, VaultIxs, invest
<1>2. investSingleReserveIxs(V, payer, r) = <<i>>
  BY DEF investSingleReserveIxs
<1> HIDE DEF i
<1> QED
  BY <1>1, <1>2, SoftsOne

\* What is picked out of a sequence, one thing or none for each of its places.
LEMMA PickedSeq ==
    ASSUME NEW n \in Nat, NEW t, t = [k \in 1 .. n |-> t[k]],
           NEW e, \A k \in 1 .. n : t[k] = <<>> \/ t[k] = <<e[k]>>
    PROVE  IsSeq(FlattenSeq(t))
<1> DEFINE A == {e[k] : k \in 1 .. n}
<1>1. ASSUME NEW k \in 1 .. n PROVE t[k] \in Seq(A)
  <2> DEFINE x == e[k]
  <2>1. x \in A /\ (t[k] = <<>> \/ t[k] = <<x>>)
    OBVIOUS
  <2> HIDE DEF A, x
  <2>2. <<>> \in Seq(A) /\ <<x>> \in Seq(A)
    BY <2>1
  <2> QED
    BY <2>1, <2>2
<1> HIDE DEF A
<1>2. FlattenSeq(t) \in Seq(A)
  BY <1>1, Flattened
<1> QED
  BY <1>2, OverItsOwn

\* The reserves of a vault in the order of what they can give.
LEMMA MostFirstSeq ==
    ASSUME NEW n \in Nat, NEW s, DOMAIN s = 1 .. n
    PROVE  IsSeq(MostFirst(s)) /\ Len(MostFirst(s)) = n /\ DOMAIN MostFirst(s) = 1 .. n
<1> DEFINE m == MostFirst(s)
<1>1. PICK order : m = [k \in DOMAIN s |-> s[order[k]]]
  BY DEF MostFirst
<1> HIDE DEF m
<1>2. m = [k \in 1 .. n |-> m[k]]
  BY <1>1
<1>3. IsSeq(m) /\ Len(m) = n /\ DOMAIN m = 1 .. n
  BY <1>2, TableSeq
<1> QED
  BY <1>3 DEF m

\* What they can give, the most first.
LEMMA FreeSeq ==
    ASSUME NEW V, VaultShape(V), NEW m, NEW slot
    PROVE  LET s == MostFirst(getReserveAllocationAvailableLiquidityToWithdraw(V, m, slot))
           IN IsSeq(s) /\ Len(s) \in Nat /\ DOMAIN s = 1 .. Len(s)
<1> DEFINE f == getReserveAllocationAvailableLiquidityToWithdraw(V, m, slot)
<1>1. DOMAIN f = 1 .. Len(Used(V)) /\ Len(Used(V)) \in Nat
  BY ReservesSeq DEF getReserveAllocationAvailableLiquidityToWithdraw
<1> HIDE DEF f
<1>2. /\ IsSeq(MostFirst(f)) /\ Len(MostFirst(f)) = Len(Used(V))
      /\ DOMAIN MostFirst(f) = 1 .. Len(Used(V))
  BY <1>1, MostFirstSeq
<1> QED
  BY <1>1, <1>2 DEF f

\* Fees withdrawn, from as many reserves as it takes.
LEMMA SoftFees ==
    ASSUME NEW V, VaultShape(V), NEW m, NEW slot
    PROVE  Gentle(withdrawPendingFeesIxs(V, m, slot))
<1>1. ASSUME NEW from, IsSeq(from) PROVE Gentle(FeesIxsFrom(V, from))
  <2> DEFINE x == [i \in DOMAIN from |-> withdrawPendingFeesIx(V, from[i])]
             p == \E i \in DOMAIN from : from[i] = NullKey
  <2>1. FeesIxsFrom(V, from) = IF p THEN Fail("Reserve not found") ELSE Done(x)
    BY DEF FeesIxsFrom
  <2>2. Len(from) \in Nat /\ DOMAIN from = 1 .. Len(from)
    BY <1>1, LenProperties DEF IsSeq
  <2>3. \A i \in DOMAIN from : Soft(x[i])
    BY DEF Soft, VaultIxs, withdrawPendingFeesIx, withdrawPendingFees
  <2>4. x = [i \in 1 .. Len(from) |-> x[i]]
    BY <2>2
  <2> HIDE DEF x, p
  <2>5. Softs(x)
    BY <2>2, <2>3, <2>4, SoftsTable
  <2> QED
    BY <2>1, <2>5, GentleResults, GentleEither
<1> DEFINE s == MostFirst(getReserveAllocationAvailableLiquidityToWithdraw(V, m, slot))
<1>2. IsSeq(s) /\ Len(s) \in Nat /\ DOMAIN s = 1 .. Len(s)
  BY FreeSeq
<1> HIDE DEF s
<1>3. ASSUME NEW due PROVE IsSeq(FeesTakenFrom(s, due))
  <2> DEFINE LeftBy(n, left) == IF LessThan(Zero, left) THEN Minus(left, s[n].free) ELSE left
             left == CHOOSE left : left = [n \in 0 .. Len(s) |-> IF n = 0 THEN due
                                                                ELSE LeftBy(n, left[n - 1])]
             t == [n \in DOMAIN s |-> IF LessThan(Zero, left[n - 1]) THEN <<s[n].reserve>> ELSE <<>>]
             e == [n \in DOMAIN s |-> s[n].reserve]
  <2>1. FeesTakenFrom(s, due) = FlattenSeq(t)
    BY DEF FeesTakenFrom
  <2> HIDE DEF left
  <2>2. t = [k \in 1 .. Len(s) |-> t[k]]
    BY <1>2
  <2>3. \A k \in 1 .. Len(s) : t[k] = <<>> \/ t[k] = <<e[k]>>
    BY <1>2
  <2> HIDE DEF t, e
  <2> QED
    BY <1>2, <2>1, <2>2, <2>3, PickedSeq
<1>4. IsSeq(<<NullKey>>) /\ IsSeq(<<V.alloc[1].reserve>>)
  <2>1. ASSUME NEW r PROVE IsSeq(<<r>>)
    <3>1. <<r>> \in Seq({r})
      OBVIOUS
    <3> QED
      BY <3>1, OverItsOwn
  <2> QED
    BY <2>1
<1> DEFINE left == Minus(V.fees, Dec(V.available))
<1>5. withdrawPendingFeesIxs(V, m, slot) =
         FeesIxsFrom(V, IF LessThan(Zero, left) THEN FeesTakenFrom(s, left)
                        ELSE IF V.alloc = <<>> THEN <<NullKey>> ELSE <<V.alloc[1].reserve>>)
  BY DEF withdrawPendingFeesIxs, s
<1> HIDE DEF left
<1>6. IsSeq(IF LessThan(Zero, left) THEN FeesTakenFrom(s, left)
            ELSE IF V.alloc = <<>> THEN <<NullKey>> ELSE <<V.alloc[1].reserve>>)
  BY <1>3, <1>4
<1> QED
  BY <1>1, <1>5, <1>6

\* Shares that are staked.
LEMMA SoftStake ==
    ASSUME NEW V, NEW owner, NEW shares, NEW farms, NEW staker
    PROVE  Gentle(stakeSharesIxs(V, owner, shares, farms, staker))
<1> DEFINE n == IF shares = <<>> THEN Dec(U64_MAX) ELSE toLamports(shares[1], Factor)
           a == createFarmUser(owner)
           b == stake(owner, V.farm, Floor(n))
           x == (IF staker THEN <<>> ELSE <<a>>) \o <<b>>
<1>1. stakeSharesIxs(V, owner, shares, farms, staker) =
         IF Leq(n, Zero) THEN Done(<<>>)
         ELSE IF V.farm \notin farms THEN Fail("Farm state not found") ELSE Done(x)
  BY DEF stakeSharesIxs, getFarmStakeIxs
<1>2. Soft(a) /\ Soft(b)
  BY DEF Soft, OwnerIxs, createFarmUser, stake
<1> HIDE DEF n, a, b
<1>3. Softs(x)
  <2>1. Softs(IF staker THEN <<>> ELSE <<a>>) /\ Softs(<<b>>)
    BY <1>2, SoftsNone, SoftsOne
  <2> QED
    BY <2>1, SoftsJoined
<1> HIDE DEF x
<1>4. Gentle(Done(<<>>)) /\ Gentle(Done(x)) /\ Gentle(Fail("Farm state not found"))
  BY <1>3, SoftsNone, GentleResults
<1> QED
  BY <1>1, <1>4, GentleEither, Zenon

\* A deposit, staked if the vault has a farm.
LEMMA SoftDeposit ==
    ASSUME NEW V, NEW owner, NEW tokens, NEW native, NEW farms, NEW staker
    PROVE  Gentle(depositIxs(V, owner, tokens, native, farms, staker))
<1> DEFINE n == toLamports(tokens, Factor)
           w == wrapSol(owner, Ceil(n))
           i == deposit(owner, Floor(n), getVaultReserves(V))
           wrap == IF native THEN <<w>> ELSE <<>>
           staking == IF hasFarm(V) THEN stakeSharesIxs(V, owner, <<>>, farms, staker) ELSE Done(<<>>)
           x == wrap \o <<i>> \o staking.ixs
           p == staking.err # ""
<1>1. depositIxs(V, owner, tokens, native, farms, staker) =
         IF p THEN staking ELSE WithInteger(n, x)
  BY DEF depositIxs
<1>2. Soft(w) /\ Soft(i)
  BY DEF Soft, OwnerIxs, VaultIxs, wrapSol, deposit
<1> HIDE DEF w, i, n, p
<1>3. Softs(wrap) /\ Softs(<<i>>)
  BY <1>2, SoftsNone, SoftsOne
<1>4. Gentle(staking)
  <2>1. Gentle(Done(<<>>)) /\ Gentle(stakeSharesIxs(V, owner, <<>>, farms, staker))
    BY SoftsNone, GentleResults, SoftStake
  <2> QED
    BY <2>1
<1> HIDE DEF wrap, staking
<1>5. Softs(x)
  BY <1>3, <1>4, SoftsJoined DEF Gentle
<1> HIDE DEF x
<1> QED
  BY <1>1, <1>4, <1>5, GentleResults

\* The parts of a withdrawal are a sequence, each an instruction of its own.
LEMMA SoftParts ==
    ASSUME NEW V, NEW owner, NEW shares, NEW parts, IsSeq(parts)
    PROVE  Gentle(IxnsOfParts(V, owner, shares, parts))
<1> DEFINE sharesOf(i) == IF i = Len(parts) THEN parts[i].shares ELSE shares
           x == [i \in DOMAIN parts |-> withdrawIx(V, owner, parts[i].reserve, Floor(sharesOf(i)))]
           p == \E i \in DOMAIN parts : parts[i].reserve = NullKey
           q == \E i \in DOMAIN parts : ~IsInt(sharesOf(i))
<1>1. IxnsOfParts(V, owner, shares, parts) =
         IF p THEN Fail("Reserve not found in vault reserves map")
         ELSE IF q THEN Fail("Invalid character") ELSE Done(x)
  BY DEF IxnsOfParts
<1>2. Len(parts) \in Nat /\ DOMAIN parts = 1 .. Len(parts)
  BY LenProperties DEF IsSeq
<1>3. \A i \in DOMAIN parts : Soft(x[i])
  BY DEF Soft, VaultIxs, withdrawIx, withdraw
<1>4. x = [i \in 1 .. Len(parts) |-> x[i]]
  BY <1>2
<1> HIDE DEF x, p, q
<1>5. Softs(x)
  BY <1>2, <1>3, <1>4, SoftsTable
<1>6. /\ Gentle(Done(x)) /\ Gentle(Fail("Invalid character"))
      /\ Gentle(Fail("Reserve not found in vault reserves map"))
  BY <1>5, GentleResults
<1> QED
  BY <1>1, <1>6, GentleEither, Zenon

\* The parts of a withdrawal are a sequence.
LEMMA PartsSeq ==
    ASSUME NEW s, IsSeq(s), NEW due, NEW available, NEW sharesPerToken
    PROVE  IsSeq(PartsOf(s, due, available, sharesPerToken))
<1> DEFINE TakenAt(n, left) == Taken(left, s[n].free, n = 1, available)
           LeftBy(n, left) == IF LessThan(Zero, left) THEN Minus(left, TakenAt(n, left)) ELSE left
           left == CHOOSE left : left = [n \in 0 .. Len(s) |-> IF n = 0 THEN due
                                                               ELSE LeftBy(n, left[n - 1])]
           part(n) == [reserve |-> s[n].reserve,
                       shares |-> Dec(Ceil(Times(TakenAt(n, left[n - 1]), sharesPerToken)))]
           t == [n \in DOMAIN s |-> IF LessThan(Zero, left[n - 1]) THEN <<part(n)>> ELSE <<>>]
           e == [n \in DOMAIN s |-> part(n)]
<1>1. PartsOf(s, due, available, sharesPerToken) = FlattenSeq(t)
  BY DEF PartsOf
<1> HIDE DEF left, part
<1>2. Len(s) \in Nat /\ DOMAIN s = 1 .. Len(s)
  BY LenProperties DEF IsSeq
<1>3. t = [k \in 1 .. Len(s) |-> t[k]]
  BY <1>2
<1>4. \A k \in 1 .. Len(s) : t[k] = <<>> \/ t[k] = <<e[k]>>
  BY <1>2
<1> HIDE DEF t, e
<1> QED
  BY <1>1, <1>2, <1>3, <1>4, PickedSeq

\* A withdrawal, with or without a farm and reserves.
LEMMA SoftWithdraw ==
    ASSUME NEW V, VaultShape(V), NEW m, NEW owner, NEW shares, NEW slot, NEW now, NEW farms
    PROVE  Gentle(withdrawIxs(V, m, owner, shares, slot, now, farms))
<1> DEFINE free == getReserveAllocationAvailableLiquidityToWithdraw(V, m, slot)
           n == toLamports(shares, Factor)
<1>1. Gentle(wihdrdrawWithReserveIxns(V, m, owner, shares, slot, now))
  <2> DEFINE price == getTokensPerShareSingleVault(V, m, slot, now)
             left == Minus(Times(n, price), Dec(V.available))
             parts == WithdrawParts(V, n, left, price, free)
  <2>1. wihdrdrawWithReserveIxns(V, m, owner, shares, slot, now) = IxnsOfParts(V, owner, shares, parts)
    BY DEF wihdrdrawWithReserveIxns, IxnsAtRate
  <2> DEFINE one == [reserve |-> V.alloc[1].reserve, shares |-> n]
             s == MostFirst(free)
             some == PartsOf(s, left, Dec(V.available), Over(One, price))
  <2>2. parts = some \/ parts = <<one>>
    BY DEF WithdrawParts
  <2>3. IsSeq(s)
    BY FreeSeq
  <2> HIDE DEF one, s, n, left, price
  <2>4. IsSeq(some)
    BY <2>3, PartsSeq
  <2>5. IsSeq(<<one>>)
    <3>1. <<one>> \in Seq({one})
      OBVIOUS
    <3> QED
      BY <3>1, OverItsOwn
  <2> HIDE DEF some, parts
  <2>6. IsSeq(parts)
    BY <2>2, <2>4, <2>5
  <2> QED
    BY <2>1, <2>6, SoftParts
<1>2. Gentle(withdrawFromAvailableIxns(V, owner, shares))
  <2> DEFINE i == withdrawFromAvailableIx(owner, Floor(n))
  <2>1. withdrawFromAvailableIxns(V, owner, shares) = WithInteger(n, <<i>>)
    BY DEF withdrawFromAvailableIxns
  <2>2. Soft(i)
    BY DEF Soft, VaultIxs, withdrawFromAvailableIx, withdrawFromAvailable
  <2> HIDE DEF i, n
  <2>3. Softs(<<i>>)
    BY <2>2, SoftsOne
  <2> QED
    BY <2>1, <2>3, GentleResults
<1> DEFINE a == getFarmUnstakeIx(owner, Floor(n), V.farm)
           b == getFarmWithdrawUnstakedDepositIx(owner, V.farm)
           u == <<a, b>>
<1>3. Softs(u)
  <2>1. Soft(a) /\ Soft(b)
    BY DEF Soft, OwnerIxs, getFarmUnstakeIx, getFarmWithdrawUnstakedDepositIx, unstake, withdrawUnstaked
  <2> HIDE DEF a, b
  <2> QED
    BY <2>1, SoftsTwo
<1>4. ASSUME NEW x, Softs(x), NEW o, Gentle(o) PROVE Gentle(After(x, o))
  <2> DEFINE p == o.err # ""
             y == x \o o.ixs
  <2>1. After(x, o) = IF p THEN o ELSE Done(y)
    BY DEF After
  <2>2. Softs(y)
    BY <1>4, SoftsJoined DEF Gentle
  <2> HIDE DEF p, y
  <2> QED
    BY <1>4, <2>1, <2>2, GentleResults
<1> DEFINE f == hasFarm(V)
           x == IF f THEN u ELSE <<>>
           o == IF ReserveSet(V) # {} THEN wihdrdrawWithReserveIxns(V, m, owner, shares, slot, now)
                ELSE withdrawFromAvailableIxns(V, owner, shares)
           p == f /\ V.farm \notin farms
<1>5. withdrawIxs(V, m, owner, shares, slot, now, farms) =
         IF p THEN Fail("Farm state not found") ELSE After(x, o)
  BY DEF withdrawIxs, getFarmUnstakeAndWithdrawIxs
<1> HIDE DEF u, f, p
<1>6. Softs(x)
  BY <1>3, SoftsNone
<1>7. Gentle(o)
  BY <1>1, <1>2
<1> HIDE DEF x, o
<1> QED
  BY <1>4, <1>5, <1>6, <1>7, GentleResults

\* Investing in all reserves: one instruction for each of them.
LEMMA SoftInvest ==
    ASSUME NEW V, VaultShape(V), NEW m, NEW payer, NEW now
    PROVE  Gentle(investAllReservesIxs(V, m, payer, now))
<1> DEFINE target == getVaultComputedReservesAllocation(V, m, 0, now)
           held(r) == LamportsToTokens(Over(CTokensIn(V, r), getCollateralExchangeRate(m[r])))
           off(r) == Leq(Dec(V.minInvest), Abs(toLamports(Minus(target[r], held(r)), Factor)))
           moved == {r \in ReserveSet(V) : off(r)}
           less == {r \in moved : LessThan(target[r], held(r))}
           a == Kept(getVaultReserves(V), less)
           b == Kept(getVaultReserves(V), moved \ less)
           order == Ordered(a, b)
           t == [i \in DOMAIN order |-> investSingleReserveIxs(V, payer, order[i])]
           x == FlattenSeq(t)
           p == ReserveSet(V) = {}
           q == ~(ReserveSet(V) \subseteq DOMAIN target)
<1>1. investAllReservesIxs(V, m, payer, now) =
         IF p THEN Fail("No reserves found for the vault")
         ELSE IF q THEN Fail("computedAllocation is undefined") ELSE Done(x)
  BY DEF investAllReservesIxs, InvestTowards
<1> HIDE DEF p, q
<1>2. IsSeq(a) /\ IsSeq(b)
  <2> DEFINE A == {getVaultReserves(V)[i] : i \in DOMAIN getVaultReserves(V)}
  <2>1. getVaultReserves(V) \in Seq(A)
    BY ReservesSeq DEF IsSeq
  <2> HIDE DEF A, less, moved
  <2>2. a \in Seq(A) /\ b \in Seq(A)
    BY <2>1, KeptElements
  <2> QED
    BY <2>2, OverItsOwn
<1> HIDE DEF a, b, target
<1>3. IsSeq(order)
  BY <1>2, Joined DEF Ordered
<1> HIDE DEF order
<1>4. Len(order) \in Nat /\ DOMAIN order = 1 .. Len(order)
  BY <1>3, LenProperties DEF IsSeq
<1> DEFINE A == {invest(payer, r, getVaultReserves(V)) : r \in {order[k] : k \in DOMAIN order}}
<1>5. x \in Seq(A)
  <2>1. t = [i \in 1 .. Len(order) |-> t[i]]
    BY <1>4
  <2>2. ASSUME NEW k \in 1 .. Len(order) PROVE t[k] \in Seq(A)
    <3> DEFINE i == invest(payer, order[k], getVaultReserves(V))
    <3>1. t[k] = <<i>> /\ i \in A
      BY <1>4 DEF investSingleReserveIxs
    <3> HIDE DEF t, A, i
    <3> QED
      BY <3>1
  <2> HIDE DEF t, A
  <2> QED
    BY <1>4, <2>1, <2>2, Flattened
<1>6. \A i \in A : Soft(i)
  BY DEF Soft, VaultIxs, invest
<1> HIDE DEF x, A
<1>7. Softs(x)
  BY <1>5, <1>6, OverItsOwn DEF Softs
<1>8. /\ Gentle(Done(x)) /\ Gentle(Fail("No reserves found for the vault"))
      /\ Gentle(Fail("computedAllocation is undefined"))
  BY <1>7, GentleResults
<1> QED
  BY <1>1, <1>8, GentleEither, Zenon

-----------------------------------------------------------------------------
(* The invariant *)

\* What a state that was read tells of the vault as it is. As long as the administrator
\* is the same one, the table is too, unless there was none; a next administrator who is
\* still the next one was named by the same administrator; and where there was no table,
\* nobody has been named since and no reserve has come.
Known(v, w) ==
    /\ v.admin = w.admin => v.lut \in {w.lut, NoTable}
    /\ v.pending = w.pending /\ w.pending # NullKey => v.admin = w.admin
    /\ v.lut = NoTable => w.pending = NullKey /\ ReserveSet(w) \subseteq ReserveSet(v)
Remembers(v, w) == v = <<>> \/ (VaultShape(v[1]) /\ Known(v[1], w))

\* A key that one of the transactions still to be sent brings to the table.
Comes(k, t, p) ==
    \E n \in DOMAIN p : \E j \in DOMAIN p[n] :
        p[n][j].ix = "extendLookupTable" /\ p[n][j].table = t /\ k \in p[n][j].keys

\* The table serves, now or once they have been sent.
Good(c, p) ==
    c.vault.lut # NoTable =>
        /\ c.vault.lut \in DOMAIN c.tables
        /\ c.tables[c.vault.lut].authority = c.vault.admin
        /\ \A k \in AccountsOf(c) : k \in c.tables[c.vault.lut].keys \/ Comes(k, c.vault.lut, p)

\* All that is left to send is soft.
Rest(c, p, v) ==
    /\ IsSeq(p) /\ \A n \in DOMAIN p : Softs(p[n])
    /\ Good(c, p) /\ PendingListed(c) /\ Remembers(v, c.vault)

\* Time passes, and others borrow.
Calm(c, d) == /\ Shape(d) /\ d.vault = c.vault /\ d.tables = c.tables
              /\ \A r \in Reserves : d.market[r].market = c.market[r].market

\* All will be soft once the next transaction has landed, or the next two have.
LandsOnce(c, p, v) ==
    /\ p # <<>>
    /\ \A d : Calm(c, d) /\ Executed(d, Head(p)).ok =>
          Shape(Executed(d, Head(p)).c) /\ Rest(Executed(d, Head(p)).c, Tail(p), v)
LandsTwice(c, p, v) ==
    /\ p # <<>>
    /\ \A d : Calm(c, d) /\ Executed(d, Head(p)).ok =>
          Shape(Executed(d, Head(p)).c) /\ LandsOnce(Executed(d, Head(p)).c, Tail(p), v)

OnCourse(c, p, v) == Shape(c) /\ (Rest(c, p, v) \/ LandsOnce(c, p, v) \/ LandsTwice(c, p, v))
CourseInv == clean => OnCourse(chain, plan, view)

\* The accounts of a reserve that its vault's table must hold.
KeysFor(R, r) ==
    ReserveKeys(r, {"reserve", "ctokenVault", "supplyVault", "collateralMint"}) \cup {<<R.market, "market">>}

\* The accounts of a vault are its administrator's and those of its reserves.
LEMMA Accounts ==
    ASSUME NEW c, NEW k
    PROVE  k \in AccountsOf(c) <=> \/ k = Owner(c.vault.admin)
                                  \/ \E r \in ReserveSet(c.vault) : k \in KeysFor(c.market[r], r)
BY DEF AccountsOf, KeysFor

\* With fewer reserves there are fewer of them.
LEMMA FewerAccounts ==
    ASSUME NEW c, Shape(c), NEW d, d.vault.admin = c.vault.admin,
           ReserveSet(d.vault) \subseteq ReserveSet(c.vault),
           \A r \in Reserves : d.market[r].market = c.market[r].market
    PROVE  AccountsOf(d) \subseteq AccountsOf(c)
<1> SUFFICES ASSUME NEW k \in AccountsOf(d) PROVE k \in AccountsOf(c)
  OBVIOUS
<1>1. \A r \in ReserveSet(c.vault) : KeysFor(d.market[r], r) = KeysFor(c.market[r], r)
  BY DEF Shape, VaultShape, KeysFor
<1> QED
  BY <1>1, Accounts

\* Time and others' loans change none of this.
LEMMA CalmRest ==
    ASSUME NEW c, Shape(c), NEW d, Calm(c, d), NEW p, NEW v
    PROVE  Rest(c, p, v) => Rest(d, p, v)
<1>1. AccountsOf(d) \subseteq AccountsOf(c)
  BY FewerAccounts DEF Calm
<1> QED
  BY <1>1 DEF Rest, Calm, Good, PendingListed

\* Time after time.
LEMMA CalmThen ==
    ASSUME NEW c, NEW d, NEW e, Calm(c, d), Calm(d, e)
    PROVE  Calm(c, e)
BY DEF Calm

\* They leave a course as it is, too.
LEMMA CalmOnCourse ==
    ASSUME NEW c, NEW d, Calm(c, d), NEW p, NEW v, OnCourse(c, p, v)
    PROVE  OnCourse(d, p, v)
<1>1. Shape(c) /\ Shape(d)
  BY DEF OnCourse, Calm
<1>2. \A e : Calm(d, e) => Calm(c, e)
  BY CalmThen
<1>3. CASE Rest(c, p, v)
  BY <1>1, <1>3, CalmRest DEF OnCourse
<1>4. CASE LandsOnce(c, p, v)
  <2>1. LandsOnce(d, p, v)
    BY <1>2, <1>4 DEF LandsOnce
  <2> QED
    BY <1>1, <2>1 DEF OnCourse
<1>5. CASE LandsTwice(c, p, v)
  <2>1. LandsTwice(d, p, v)
    BY <1>2, <1>5 DEF LandsTwice
  <2> QED
    BY <1>1, <2>1 DEF OnCourse
<1> QED
  BY <1>3, <1>4, <1>5 DEF OnCourse

\* A state that was read goes on telling what it did.
LEMMA GrowsRemembers ==
    ASSUME NEW c, NEW d, Grows(c, d), NEW v, Remembers(v, c.vault)
    PROVE  Remembers(v, d.vault)
BY DEF Grows, Kin, Remembers, Known

\* Of soft transactions the next one lands.
LEMMA RestLands ==
    ASSUME NEW c, Shape(c), NEW p, p # <<>>, NEW v, Rest(c, p, v), Executed(c, Head(p)).ok
    PROVE  Shape(Executed(c, Head(p)).c) /\ Rest(Executed(c, Head(p)).c, Tail(p), v)
<1> DEFINE d == Executed(c, Head(p)).c
           A == {p[n] : n \in DOMAIN p}
<1>1. /\ p \in Seq(A) /\ Len(p) \in Nat /\ DOMAIN p = 1 .. Len(p) /\ 1 \in DOMAIN p
      /\ Tail(p) \in Seq(A) /\ Len(Tail(p)) = Len(p) - 1
      /\ DOMAIN Tail(p) = 1 .. Len(p) - 1
      /\ \A n \in 1 .. Len(p) - 1 : n + 1 \in DOMAIN p /\ Tail(p)[n] = p[n + 1]
      /\ Head(p) = p[1]
  <2>1. p \in Seq(A)
    BY DEF Rest, IsSeq
  <2> HIDE DEF A
  <2> QED
    BY <2>1, LenProperties, HeadTailProperties
<1>2. IsSeq(Tail(p)) /\ \A n \in DOMAIN Tail(p) : Softs(Tail(p)[n])
  <2> HIDE DEF A
  <2>1. IsSeq(Tail(p))
    BY <1>1, OverItsOwn
  <2> QED
    BY <1>1, <2>1 DEF Rest
<1>3. Softs(Head(p))
  BY <1>1 DEF Rest
<1>4. Leads(c, Head(p), d)
  BY <1>3, LandsOn DEF Softs
<1> HIDE DEF d
<1>5. Grows(c, d) /\ \A k \in DOMAIN Head(p) : Shows(d, Head(p)[k])
  BY <1>3, <1>4, LeadsSoft
<1>6. Shape(d)
  BY <1>5 DEF Grows, Kin
<1>7. Good(d, Tail(p))
  <2> SUFFICES ASSUME d.vault.lut # NoTable PROVE Good(d, Tail(p))
    BY DEF Good
  <2>1. /\ c.vault.lut \in DOMAIN c.tables
        /\ c.tables[c.vault.lut].authority = c.vault.admin
        /\ \A k \in AccountsOf(c) : k \in c.tables[c.vault.lut].keys \/ Comes(k, c.vault.lut, p)
    BY <1>5 DEF Rest, Good, Grows
  <2>2. /\ d.vault.lut = c.vault.lut /\ d.vault.lut \in DOMAIN d.tables
        /\ d.tables[d.vault.lut].authority = d.vault.admin
        /\ c.tables[c.vault.lut].keys \subseteq d.tables[d.vault.lut].keys
    BY <1>5, <2>1 DEF Grows, Kin, TablesGrow
  <2>3. AccountsOf(d) \subseteq AccountsOf(c)
    BY <1>5, FewerAccounts DEF Grows, Kin
  <2>4. ASSUME NEW k, Comes(k, c.vault.lut, p)
        PROVE  k \in d.tables[d.vault.lut].keys \/ Comes(k, d.vault.lut, Tail(p))
    <3>1. PICK n \in DOMAIN p : \E j \in DOMAIN p[n] :
              p[n][j].ix = "extendLookupTable" /\ p[n][j].table = c.vault.lut /\ k \in p[n][j].keys
      BY <2>4 DEF Comes
    <3>2. CASE n = 1
      BY <1>1, <1>5, <2>2, <3>1, <3>2 DEF Shows
    <3>3. CASE n # 1
      <4>1. n - 1 \in DOMAIN Tail(p) /\ Tail(p)[n - 1] = p[n]
        BY <1>1, <3>3
      <4> QED
        BY <2>2, <3>1, <4>1 DEF Comes
    <3> QED
      BY <3>2, <3>3
  <2> QED
    BY <2>1, <2>2, <2>3, <2>4 DEF Good
<1>8. PendingListed(d)
  BY <1>5 DEF Rest, PendingListed, Grows, Kin, TablesGrow, Good
<1>9. Remembers(v, d.vault)
  BY <1>5, GrowsRemembers DEF Rest
<1> QED
  BY <1>2, <1>6, <1>7, <1>8, <1>9 DEF Rest, d

\* Whatever the course was, the next transaction lands on it.
LEMMA Lands ==
    ASSUME NEW c, NEW p, p # <<>>, NEW v, OnCourse(c, p, v), Executed(c, Head(p)).ok
    PROVE  OnCourse(Executed(c, Head(p)).c, Tail(p), v)
<1>1. Shape(c) /\ Calm(c, c)
  BY DEF OnCourse, Calm
<1>2. CASE Rest(c, p, v)
  BY <1>1, <1>2, RestLands DEF OnCourse
<1>3. CASE LandsOnce(c, p, v)
  BY <1>1, <1>3 DEF OnCourse, LandsOnce
<1>4. CASE LandsTwice(c, p, v)
  BY <1>1, <1>4 DEF OnCourse, LandsTwice
<1> QED
  BY <1>2, <1>3, <1>4 DEF OnCourse

-----------------------------------------------------------------------------
(* What is asked for, and where it leads *)

\* Two instructions.
LEMMA LeadsTwo ==
    ASSUME NEW c, NEW a, NEW b, NEW d, Leads(c, <<a, b>>, d)
    PROVE  /\ Allowed(c, a) /\ Allowed(Apply(c, a), b)
           /\ d = Apply(Apply(c, a), b)
<1> DEFINE x == <<a, b>>
<1>1. Len(x) = 2 /\ x[1] = a /\ x[2] = b
  OBVIOUS
<1>2. Leads(c, x, d)
  OBVIOUS
<1> HIDE DEF x
<1>3. PICK g : Path(g, c, x, d)
  BY <1>2 DEF Leads
<1>4. /\ g[0] = c /\ g[2] = d
      /\ \A k \in 1 .. 2 : Allowed(g[k - 1], x[k]) /\ g[k] = Apply(g[k - 1], x[k])
  BY <1>1, <1>3 DEF Path
<1>5. Allowed(g[0], x[1]) /\ g[1] = Apply(g[0], x[1])
  <2>1. 1 - 1 = 0
    OBVIOUS
  <2> QED
    BY <1>4, <2>1
<1>6. Allowed(g[1], x[2]) /\ g[2] = Apply(g[1], x[2])
  <2>1. 2 - 1 = 1
    OBVIOUS
  <2> QED
    BY <1>4, <2>1
<1> QED
  BY <1>1, <1>4, <1>5, <1>6

\* The transactions of an operation that does not throw, without the empty ones.
Asked(err, txs) == IF err = "" THEN Without(txs, {<<>>}) ELSE <<>>

\* Nothing is a sequence of soft transactions.
LEMMA NothingAsked ==
    LET p == <<>> IN IsSeq(p) /\ \A n \in DOMAIN p : Softs(p[n])
<1> DEFINE p == <<>>
<1>1. p \in Seq({}) /\ DOMAIN p = {}
  OBVIOUS
<1> HIDE DEF p
<1>2. IsSeq(p) /\ \A n \in DOMAIN p : Softs(p[n])
  BY <1>1, OverItsOwn
<1> QED
  BY <1>2 DEF p

\* If all of them are soft, so is what is left of them.
LEMMA AskedSoft ==
    ASSUME NEW err, NEW txs, IsSeq(txs), \A n \in DOMAIN txs : Softs(txs[n])
    PROVE  IsSeq(Asked(err, txs)) /\ \A n \in DOMAIN Asked(err, txs) : Softs(Asked(err, txs)[n])
<1> DEFINE A == {txs[n] : n \in DOMAIN txs}
           none == <<>>
           p == Without(txs, {none})
<1>1. Asked(err, txs) = p \/ Asked(err, txs) = none
  BY Zenon DEF Asked
<1>2. \A x \in A : Softs(x)
  OBVIOUS
<1>3. txs \in Seq(A)
  BY DEF IsSeq
<1>4. IsSeq(none) /\ \A n \in DOMAIN none : Softs(none[n])
  BY NothingAsked
<1> HIDE DEF A, none
<1>5. p \in Seq(A)
  BY <1>3, WithoutElements
<1> HIDE DEF p
<1>6. IsSeq(p) /\ \A n \in DOMAIN p : Softs(p[n])
  BY <1>2, <1>5, OverItsOwn
<1> QED
  BY <1>1, <1>4, <1>6

\* Transactions that are none of them empty all stay.
LEMMA AskedAll ==
    ASSUME NEW err, NEW txs, IsSeq(txs), \A n \in DOMAIN txs : txs[n] # <<>>
    PROVE  Asked(err, txs) = <<>> \/ Asked(err, txs) = txs
<1> DEFINE A == {txs[n] : n \in DOMAIN txs}
           none == <<>>
<1>1. Asked(err, txs) = Without(txs, {none}) \/ Asked(err, txs) = none
  BY Zenon DEF Asked
<1>2. txs \in Seq(A)
  BY DEF IsSeq
<1>3. \A n \in DOMAIN txs : txs[n] \notin {none}
  OBVIOUS
<1> HIDE DEF A, none
<1>4. Without(txs, {none}) = txs
  BY <1>2, <1>3, WithoutNone
<1> QED
  BY <1>1, <1>4 DEF none

\* One transaction.
LEMMA Single ==
    ASSUME NEW x
    PROVE  /\ IsSeq(<<x>>) /\ DOMAIN <<x>> = 1 .. 1 /\ <<x>>[1] = x
           /\ <<x>> # <<>> /\ Head(<<x>>) = x /\ Tail(<<x>>) = <<>>
<1>1. <<x>> \in Seq({x})
  OBVIOUS
<1>2. IsSeq(<<x>>)
  BY <1>1, OverItsOwn
<1>3. /\ DOMAIN <<x>> = 1 .. 1 /\ <<x>>[1] = x
      /\ <<x>> # <<>> /\ Head(<<x>>) = x /\ Tail(<<x>>) = <<>>
  OBVIOUS
<1> QED
  BY <1>2, <1>3

\* Two transactions.
LEMMA Double ==
    ASSUME NEW x, NEW y
    PROVE  /\ IsSeq(<<x, y>>) /\ DOMAIN <<x, y>> = 1 .. 2 /\ <<x, y>>[1] = x /\ <<x, y>>[2] = y
           /\ <<x, y>> # <<>> /\ Head(<<x, y>>) = x /\ Tail(<<x, y>>) = <<y>>
<1>1. <<x, y>> \in Seq({x, y})
  OBVIOUS
<1>2. IsSeq(<<x, y>>)
  BY <1>1, OverItsOwn
<1>3. /\ DOMAIN <<x, y>> = 1 .. 2 /\ <<x, y>>[1] = x /\ <<x, y>>[2] = y
      /\ <<x, y>> # <<>> /\ Head(<<x, y>>) = x
  OBVIOUS
<1>4. Tail(<<x, y>>) = <<y>>
  OBVIOUS
<1> QED
  BY <1>2, <1>3, <1>4

\* An operation's soft instructions, in one transaction.
LEMMA AskedGentle ==
    ASSUME NEW o, Gentle(o), NEW p, p = Asked(o.err, <<o.ixs>>)
    PROVE  IsSeq(p) /\ \A n \in DOMAIN p : Softs(p[n])
<1> DEFINE x == o.ixs
           t == <<x>>
<1>1. Softs(x)
  BY DEF Gentle
<1> HIDE DEF x
<1>2. IsSeq(t) /\ DOMAIN t = 1 .. 1 /\ t[1] = x
  BY Single
<1>3. p = Asked(o.err, t)
  BY DEF x
<1> HIDE DEF t
<1>4. \A n \in DOMAIN t : Softs(t[n])
  BY <1>1, <1>2
<1> QED
  BY <1>2, <1>3, <1>4, AskedSoft

\* Nothing is left to be sent, and the state that an operation goes by.
AtRest(c, V) == Shape(c) /\ TableServes(c) /\ PendingListed(c) /\ VaultShape(V) /\ Known(V, c.vault)

\* A chain whose table serves, whatever soft transactions are to come.
LEMMA ServesRest ==
    ASSUME NEW c, TableServes(c), PendingListed(c), NEW v, Remembers(v, c.vault),
           NEW p, IsSeq(p), \A n \in DOMAIN p : Softs(p[n])
    PROVE  Rest(c, p, v)
BY DEF Rest, Good, TableServes

\* Where soft transactions lead.
LEMMA SoftCourse ==
    ASSUME NEW c, NEW V, AtRest(c, V), NEW p, IsSeq(p), \A n \in DOMAIN p : Softs(p[n])
    PROVE  OnCourse(c, p, <<V>>)
<1> DEFINE v == <<V>>
<1>1. Remembers(v, c.vault)
  BY DEF AtRest, Remembers
<1> HIDE DEF v
<1>2. Rest(c, p, v)
  BY <1>1, ServesRest DEF AtRest
<1>3. OnCourse(c, p, v)
  BY <1>2 DEF OnCourse, AtRest
<1> QED
  BY <1>3 DEF v

\* The same vault and tables serve at any time.
LEMMA CalmAtRest ==
    ASSUME NEW c, NEW V, AtRest(c, V), NEW d, Calm(c, d)
    PROVE  AtRest(d, V)
<1>1. AccountsOf(d) \subseteq AccountsOf(c)
  BY FewerAccounts DEF Calm, AtRest
<1> QED
  BY <1>1 DEF AtRest, Calm, TableServes, PendingListed

\* An instruction and those after it.
LEMMA LeadsOnward ==
    ASSUME NEW c, NEW a, NEW x, IsSeq(x), NEW e, Leads(c, <<a>> \o x, e)
    PROVE  Allowed(c, a) /\ Leads(Apply(c, a), x, e)
<1> DEFINE s == <<a>>
<1>1. IsSeq(s)
  BY Single
<1>2. Leads(c, s \o x, e)
  OBVIOUS
<1> HIDE DEF s
<1>3. PICK f : Leads(c, s, f) /\ Leads(f, x, e)
  BY <1>1, <1>2, LeadsJoined
<1> QED
  BY <1>3, LeadsOne DEF s

\* An operation of one transaction, after which the table serves again.
LEMMA OneCourse ==
    ASSUME NEW c, NEW V, AtRest(c, V), NEW tx, IsSeq(tx), tx # <<>>, NEW err,
           \A d, e : AtRest(d, V) /\ Calm(c, d) /\ Leads(d, tx, e)
                        => Shape(e) /\ TableServes(e) /\ PendingListed(e) /\ Known(V, e.vault)
    PROVE  OnCourse(c, Asked(err, <<tx>>), <<V>>)
<1> DEFINE p == <<tx>>
           v == <<V>>
           none == <<>>
<1>1. /\ IsSeq(p) /\ DOMAIN p = 1 .. 1 /\ p[1] = tx /\ p # <<>> /\ Head(p) = tx /\ Tail(p) = none
  BY Single
<1>2. IsSeq(none) /\ \A n \in DOMAIN none : Softs(none[n])
  BY NothingAsked
<1>3. OnCourse(c, none, v)
  BY <1>2, SoftCourse
<1>4. v[1] = V
  OBVIOUS
<1> HIDE DEF v
<1>5. LandsOnce(c, p, v)
  <2> SUFFICES ASSUME NEW d, Calm(c, d), Executed(d, tx).ok
               PROVE  Shape(Executed(d, tx).c) /\ Rest(Executed(d, tx).c, none, v)
    BY <1>1 DEF LandsOnce
  <2> DEFINE e == Executed(d, tx).c
  <2>1. Leads(d, tx, e)
    BY LandsOn
  <2> HIDE DEF e, none
  <2>2. Shape(e) /\ TableServes(e) /\ PendingListed(e) /\ Known(V, e.vault)
    BY <2>1, CalmAtRest
  <2>3. Remembers(v, e.vault)
    BY <1>4, <2>2 DEF Remembers, AtRest
  <2>4. Rest(e, none, v)
    BY <1>2, <2>2, <2>3, ServesRest
  <2> QED
    BY <2>2, <2>4 DEF e
<1>6. Asked(err, p) = none \/ Asked(err, p) = p
  <2>1. \A n \in DOMAIN p : p[n] # <<>>
    BY <1>1
  <2> HIDE DEF p
  <2> QED
    BY <1>1, <2>1, AskedAll
<1>7. OnCourse(c, p, v)
  BY <1>5 DEF OnCourse, AtRest
<1> HIDE DEF p, none
<1>8. OnCourse(c, Asked(err, p), v)
  BY <1>3, <1>6, <1>7
<1> QED
  BY <1>8 DEF p, v

\* The accounts that a reserve brings are finitely many, and those its table must hold.
LEMMA ReserveBrings ==
    ASSUME NEW R, NEW r,
           NEW keys, keys = ReserveKeys(r, {"reserve", "ctokenVault"})
                               \cup getReserveAccountsToInsertInLut(R, r) \cup {<<R.market, "authority">>}
    PROVE  IsFiniteSet(keys) /\ KeysFor(R, r) \subseteq keys
<1> DEFINE few == {"reserve", "ctokenVault"}
           five == {"mint", "supplyVault", "feeVault", "collateralMint", "collateralSupply"}
           a == ReserveKeys(r, few)
           b == ReserveKeys(r, five)
           h == FarmKeys(r)
           s == {<<R.market, "market">>}
           z == {<<R.market, "authority">>}
<1>1. keys = ((a \cup ((s \cup h) \cup b)) \cup z)
  BY DEF getReserveAccountsToInsertInLut
<1>2. IsFiniteSet(few) /\ IsFiniteSet(five) /\ IsFiniteSet(s) /\ IsFiniteSet(z)
  <2>1. IsFiniteSet(five)
    BY FewFinite
  <2>2. few \subseteq {"reserve", "reserve", "reserve", "reserve", "ctokenVault"}
    OBVIOUS
  <2>3. IsFiniteSet({"reserve", "reserve", "reserve", "reserve", "ctokenVault"})
    BY FewFinite
  <2>4. IsFiniteSet(few)
    BY <2>2, <2>3, FS_Subset
  <2>5. IsFiniteSet(s) /\ IsFiniteSet(z)
    BY FS_Singleton
  <2> QED
    BY <2>1, <2>4, <2>5
<1>3. KeysFor(R, r) \subseteq (a \cup s) \cup b
  BY DEF KeysFor, ReserveKeys
<1> HIDE DEF few, five, s, z
<1>4. IsFiniteSet(a) /\ IsFiniteSet(b) /\ IsFiniteSet(h)
  BY <1>2, KeysFinite, FarmKeysFinite
<1> HIDE DEF a, b, h
<1>5. IsFiniteSet(s \cup h)
  BY <1>2, <1>4, FS_Union
<1>6. IsFiniteSet((s \cup h) \cup b)
  BY <1>4, <1>5, FS_Union
<1>7. IsFiniteSet(a \cup ((s \cup h) \cup b))
  BY <1>4, <1>6, FS_Union
<1>8. IsFiniteSet((a \cup ((s \cup h) \cup b)) \cup z)
  BY <1>2, <1>7, FS_Union
<1> QED
  BY <1>1, <1>3, <1>8

\* The extensions bring their keys.
LEMMA Brought ==
    ASSUME NEW x, NEW payer, NEW lut, NEW keys, NEW present,
           Extensions(x, payer, lut, keys, present),
           NEW f, Shape(f), NEW e, Leads(f, x, e)
    PROVE  /\ Grows(f, e)
           /\ \A k \in keys : k \in present \/ (lut \in DOMAIN e.tables /\ k \in e.tables[lut].keys)
<1>1. Softs(x)
  BY SoftExtensions
<1>2. Grows(f, e) /\ \A i \in DOMAIN x : Shows(e, x[i])
  BY <1>1, LeadsSoft
<1>3. ASSUME NEW k \in keys, k \notin present PROVE lut \in DOMAIN e.tables /\ k \in e.tables[lut].keys
  <2>1. PICK i \in DOMAIN x : k \in x[i].keys
    BY <1>3 DEF Extensions
  <2>2. x[i].ix = "extendLookupTable" /\ x[i].table = lut
    BY DEF Extensions, extendTable
  <2> QED
    BY <1>2, <2>1, <2>2 DEF Shows
<1> QED
  BY <1>2, <1>3

\* A weight for a reserve: its accounts come with it.
LEMMA AllocateCourse ==
    ASSUME NEW c, NEW V, AtRest(c, V), NEW r \in Reserves, NEW w, NEW cap,
           NEW o, o = updateReserveAllocationIxs(V, c.market, c.tables, r, w, cap)
    PROVE  OnCourse(c, Asked(o.err, <<o.ixs>>), <<V>>)
<1> DEFINE keys == ReserveKeys(r, {"reserve", "ctokenVault"})
                    \cup getReserveAccountsToInsertInLut(c.market[r], r) \cup {<<c.market[r].market, "authority">>}
           a == updateReserveAllocation(V.admin, r, w, Floor(toLamports(cap, Factor)))
           present == getAccountsInLUT(c.tables, V.lut)
           x == insertIntoLookupTableIxs(V.admin, V.lut, keys, present)
           tx == <<a>> \o x
<1>1. CASE Missing(c.tables, V.lut)
  <2> DEFINE m == "Lookup table not found"
             p == Asked(o.err, <<o.ixs>>)
  <2>1. o = Fail(m)
    BY <1>1 DEF updateReserveAllocationIxs
  <2> HIDE DEF m
  <2>2. Gentle(o)
    BY <2>1, GentleResults
  <2>3. IsSeq(p) /\ \A n \in DOMAIN p : Softs(p[n])
    BY <2>2, AskedGentle
  <2> QED
    BY <2>3, SoftCourse
<1>2. CASE ~Missing(c.tables, V.lut)
  <2>1. o = Done(tx)
    BY <1>2 DEF updateReserveAllocationIxs
  <2>2. o.ixs = tx
    <3> HIDE DEF tx
    <3> QED
      BY <2>1, DoneIxs
  <2>3. V.lut \in DOMAIN c.tables /\ V.lut # NoTable /\ present = c.tables[V.lut].keys
    BY <1>2 DEF Missing, AtRest, Shape, TablesShape, getAccountsInLUT
  <2>4. IsFiniteSet(keys) /\ KeysFor(c.market[r], r) \subseteq keys
    BY ReserveBrings
  <2> HIDE DEF keys, present
  <2>5. Extensions(x, V.admin, V.lut, keys, present)
    BY <2>4, Inserts
  <2>6. a.ix = "updateReserveAllocation" /\ a.reserve = r /\ a.signer = V.admin
    BY DEF updateReserveAllocation
  <2> HIDE DEF x, a
  <2>7. IsSeq(tx) /\ tx # <<>>
    <3> DEFINE s == <<a>>
    <3>1. IsSeq(s) /\ Len(s) = 1
      BY Single
    <3>2. IsSeq(x)
      BY <2>5 DEF Extensions
    <3> HIDE DEF s
    <3>3. IsSeq(s \o x) /\ DOMAIN (s \o x) = 1 .. (1 + Len(x)) /\ Len(x) \in Nat
      BY <3>1, <3>2, Joined
    <3>4. s \o x # <<>>
      BY <3>3
    <3> QED
      BY <3>3, <3>4 DEF s
  <2>8. ASSUME NEW d, NEW e, AtRest(d, V), Calm(c, d), Leads(d, tx, e)
        PROVE  Shape(e) /\ TableServes(e) /\ PendingListed(e) /\ Known(V, e.vault)
    <3> DEFINE g == Apply(d, a)
    <3>1. Allowed(d, a) /\ Leads(g, x, e)
      BY <2>5, <2>8, LeadsOnward DEF Extensions
    <3>2. /\ V.admin = d.vault.admin
          /\ Shape(g) /\ g.tables = d.tables /\ g.market = d.market
          /\ g.vault.admin = d.vault.admin /\ g.vault.lut = d.vault.lut
          /\ g.vault.pending = d.vault.pending
          /\ ReserveSet(g.vault) \subseteq ReserveSet(d.vault) \cup {r}
      BY <2>6, <2>8, <3>1, AllocStep DEF AtRest
    <3> HIDE DEF g
    <3>3. /\ Grows(g, e)
          /\ \A k \in keys : k \in present \/ (V.lut \in DOMAIN e.tables /\ k \in e.tables[V.lut].keys)
      BY <2>5, <3>1, <3>2, Brought
    <3>4. V.lut = d.vault.lut
      BY <2>3, <2>8, <3>2 DEF AtRest, Known
    <3>5. /\ e.vault.admin = d.vault.admin /\ e.vault.lut = V.lut /\ e.vault.pending = d.vault.pending
          /\ ReserveSet(e.vault) \subseteq ReserveSet(d.vault) \cup {r}
          /\ Shape(e) /\ V.lut \in DOMAIN e.tables
          /\ e.tables[V.lut].authority = d.vault.admin
          /\ d.tables[V.lut].keys \subseteq e.tables[V.lut].keys
          /\ \A q \in Reserves : e.market[q].market = c.market[q].market
      BY <2>3, <2>8, <3>2, <3>3, <3>4 DEF Grows, Kin, TablesGrow, AtRest, TableServes, Calm
    <3>6. keys \subseteq e.tables[V.lut].keys
      BY <2>3, <2>8, <3>3, <3>5 DEF Calm
    <3>7. ASSUME NEW k \in AccountsOf(e) PROVE k \in e.tables[V.lut].keys
      <4>1. AccountsOf(d) \subseteq d.tables[V.lut].keys
        BY <2>3, <2>8, <3>4 DEF AtRest, TableServes
      <4>2. CASE k = Owner(e.vault.admin)
        <5>1. k \in AccountsOf(d)
          BY <3>5, <4>2, Accounts
        <5> QED
          BY <3>5, <4>1, <5>1
      <4>3. ASSUME NEW q \in ReserveSet(e.vault), k \in KeysFor(e.market[q], q)
            PROVE  k \in e.tables[V.lut].keys
        <5>1. q \in Reserves /\ KeysFor(e.market[q], q) = KeysFor(c.market[q], q)
              /\ KeysFor(d.market[q], q) = KeysFor(c.market[q], q)
          BY <2>8, <3>5 DEF Shape, VaultShape, KeysFor, Calm
        <5>2. CASE q = r
          BY <2>4, <3>6, <4>3, <5>1, <5>2
        <5>3. CASE q \in ReserveSet(d.vault)
          <6>1. k \in AccountsOf(d)
            BY <4>3, <5>1, <5>3, Accounts
          <6> QED
            BY <3>5, <4>1, <6>1
        <5> QED
          BY <3>5, <5>2, <5>3
      <4> QED
        BY <4>2, <4>3, Accounts
    <3>8. TableServes(e)
      BY <3>5, <3>7 DEF TableServes
    <3>9. PendingListed(e)
      BY <2>8, <3>4, <3>5 DEF AtRest, PendingListed
    <3>10. Known(V, e.vault)
      BY <2>3, <2>8, <3>2, <3>4, <3>5 DEF AtRest, Known
    <3> QED
      BY <3>5, <3>8, <3>9, <3>10
  <2> HIDE DEF tx
  <2> QED
    BY <2>2, <2>7, <2>8, OneCourse
<1> QED
  BY <1>1, <1>2

\* One instruction and the extensions of a table, as a transaction.
LEMMA WithExtensions ==
    ASSUME NEW a, NEW x, IsSeq(x)
    PROVE  IsSeq(<<a>> \o x) /\ <<a>> \o x # <<>>
<1> DEFINE s == <<a>>
<1>1. IsSeq(s) /\ Len(s) = 1
  BY Single
<1> HIDE DEF s
<1>2. IsSeq(s \o x) /\ DOMAIN (s \o x) = 1 .. (1 + Len(x)) /\ Len(x) \in Nat
  BY <1>1, Joined
<1>3. s \o x # <<>>
  BY <1>2
<1> QED
  BY <1>2, <1>3 DEF s

\* The next administrator is named, and gets into the table.
LEMMA PendingCourse ==
    ASSUME NEW c, NEW V, AtRest(c, V), NEW next, V.admin # next, NEW farms,
           NEW o, o = updateVaultConfigIxs(V, c.tables, "pending", next, V.admin, farms)
    PROVE  OnCourse(c, Asked(o.err, <<o.ixs>>), <<V>>)
<1> DEFINE keys == {Owner(next)}
           a == updateVaultConfigIx(V, "pending", next, V.admin)
           present == getAccountsInLUT(c.tables, V.lut)
           x == insertIntoLookupTableIxs(V.admin, V.lut, keys, present)
           tx == <<a>> \o x
<1>1. CASE Missing(c.tables, V.lut)
  <2> DEFINE m == "Lookup table not found"
             p == Asked(o.err, <<o.ixs>>)
  <2>1. o = Fail(m)
    BY <1>1 DEF updateVaultConfigIxs
  <2> HIDE DEF m
  <2>2. Gentle(o)
    BY <2>1, GentleResults
  <2>3. IsSeq(p) /\ \A n \in DOMAIN p : Softs(p[n])
    BY <2>2, AskedGentle
  <2> QED
    BY <2>3, SoftCourse
<1>2. CASE ~Missing(c.tables, V.lut)
  <2>1. o = Done(tx)
    BY <1>2 DEF updateVaultConfigIxs
  <2>2. o.ixs = tx
    <3> HIDE DEF tx
    <3> QED
      BY <2>1, DoneIxs
  <2>3. V.lut \in DOMAIN c.tables /\ V.lut # NoTable /\ present = c.tables[V.lut].keys
    BY <1>2 DEF Missing, AtRest, Shape, TablesShape, getAccountsInLUT
  <2>4. IsFiniteSet(keys) /\ Owner(next) \in keys
    BY FS_Singleton
  <2> HIDE DEF keys, present
  <2>5. Extensions(x, V.admin, V.lut, keys, present)
    BY <2>4, Inserts
  <2>6. a.ix = "updateVaultConfig" /\ a.field = "pending" /\ a.value = next /\ a.signer = V.admin
    BY DEF updateVaultConfigIx, updateVaultConfig
  <2> HIDE DEF x, a
  <2>7. IsSeq(tx) /\ tx # <<>>
    BY <2>5, WithExtensions DEF Extensions
  <2>8. ASSUME NEW d, NEW e, AtRest(d, V), Calm(c, d), Leads(d, tx, e)
        PROVE  Shape(e) /\ TableServes(e) /\ PendingListed(e) /\ Known(V, e.vault)
    <3> DEFINE g == Apply(d, a)
    <3>1. Allowed(d, a) /\ Leads(g, x, e)
      BY <2>5, <2>8, LeadsOnward DEF Extensions
    <3>2. /\ V.admin = d.vault.admin
          /\ Kin(d, g) /\ g.vault.admin = d.vault.admin
          /\ g.vault.pending = next /\ g.vault.lut = d.vault.lut
      BY <2>6, <2>8, <3>1, ConfigStep DEF AtRest
    <3> HIDE DEF g
    <3>3. /\ Grows(g, e)
          /\ \A k \in keys : k \in present \/ (V.lut \in DOMAIN e.tables /\ k \in e.tables[V.lut].keys)
      BY <2>5, <3>1, <3>2, Brought DEF Kin
    <3>4. V.lut = d.vault.lut
      BY <2>3, <2>8, <3>2 DEF AtRest, Known
    <3>5. Kin(d, e)
      BY <3>2, <3>3, KinThen DEF Grows
    <3>6. /\ e.vault.admin = d.vault.admin /\ e.vault.lut = V.lut /\ e.vault.pending = next
          /\ Shape(e) /\ V.lut \in DOMAIN e.tables
          /\ e.tables[V.lut].authority = d.vault.admin
          /\ d.tables[V.lut].keys \subseteq e.tables[V.lut].keys
          /\ AccountsOf(d) \subseteq d.tables[V.lut].keys
      BY <2>3, <2>8, <3>2, <3>3, <3>4, <3>5 DEF Grows, Kin, TablesGrow, AtRest, TableServes
    <3>7. AccountsOf(e) \subseteq AccountsOf(d)
      BY <2>8, <3>5, <3>6, FewerAccounts DEF Kin, AtRest
    <3>8. TableServes(e)
      BY <3>6, <3>7 DEF TableServes
    <3>9. PendingListed(e)
      BY <2>3, <2>4, <2>8, <3>2, <3>3, <3>6 DEF PendingListed, Calm
    <3>10. Known(V, e.vault)
      BY <2>3, <3>2, <3>6 DEF Known
    <3> QED
      BY <3>6, <3>8, <3>9, <3>10
  <2> HIDE DEF tx
  <2> QED
    BY <2>2, <2>7, <2>8, OneCourse
<1> QED
  BY <1>1, <1>2

\* The first of a number of transactions, and the others.
LEMMA FirstAndRest ==
    ASSUME NEW a, NEW y, IsSeq(y)
    PROVE  /\ IsSeq(<<a>> \o y) /\ <<a>> \o y # <<>>
           /\ Head(<<a>> \o y) = a /\ Tail(<<a>> \o y) = y
           /\ Len(y) \in Nat /\ DOMAIN (<<a>> \o y) = 1 .. (1 + Len(y))
           /\ (<<a>> \o y)[1] = a /\ \A k \in 1 .. Len(y) : (<<a>> \o y)[1 + k] = y[k]
<1> DEFINE s == <<a>>
           p == s \o y
           A == {p[i] : i \in DOMAIN p}
           B == {y[i] : i \in DOMAIN y}
<1>1. IsSeq(s) /\ Len(s) = 1 /\ s[1] = a
  BY Single
<1> HIDE DEF s
<1>2. /\ IsSeq(p) /\ Len(p) = 1 + Len(y) /\ DOMAIN p = 1 .. (1 + Len(y)) /\ Len(y) \in Nat
      /\ p[1] = a /\ \A k \in 1 .. Len(y) : p[1 + k] = y[k]
  <2>1. /\ IsSeq(p) /\ Len(p) = Len(s) + Len(y) /\ DOMAIN p = 1 .. (Len(s) + Len(y)) /\ Len(y) \in Nat
        /\ \A i \in 1 .. Len(s) : p[i] = s[i]
        /\ \A i \in 1 .. Len(y) : p[Len(s) + i] = y[i]
    <3>1. IsSeq(s) /\ IsSeq(y)
      BY <1>1
    <3> QED
      BY <3>1, Joined
  <2> HIDE DEF p
  <2> QED
    BY <1>1, <2>1
<1>3. p \in Seq(A) /\ y \in Seq(B)
  BY <1>2 DEF IsSeq
<1> HIDE DEF p, A, B
<1>4. p # <<>>
  BY <1>2
<1>5. /\ Tail(p) \in Seq(A) /\ Len(Tail(p)) = Len(y)
      /\ \A i \in 1 .. Len(Tail(p)) : Tail(p)[i] = p[i + 1]
  BY <1>2, <1>3, <1>4, HeadTailProperties
<1>6. Head(p) = a
  BY <1>2, <1>3, <1>4
<1>7. Tail(p) = y
  <2> DEFINE t == Tail(p)
  <2>1. t \in Seq(A) /\ Len(t) = Len(y) /\ \A i \in 1 .. Len(t) : t[i] = y[i]
    BY <1>2, <1>5
  <2> HIDE DEF t
  <2>2. t \in Seq(A \cup B) /\ y \in Seq(A \cup B)
    BY <1>3, <2>1, SeqMonotonic
  <2>3. t = y
    BY <2>1, <2>2, SeqEqual
  <2> QED
    BY <2>3 DEF t
<1>8. /\ IsSeq(p) /\ p # <<>> /\ Head(p) = a /\ Tail(p) = y
      /\ Len(y) \in Nat /\ DOMAIN p = 1 .. (1 + Len(y))
      /\ p[1] = a /\ \A k \in 1 .. Len(y) : p[1 + k] = y[k]
  BY <1>2, <1>4, <1>6, <1>7
<1> QED
  BY <1>8 DEF p, s

\* What a table is filled with when it is synchronised.
KeysToSync(V, m) ==
    {Owner(V.admin)}
        \cup VaultKeys({"vault", "authority", "tokenMint", "tokenVault", "sharesMint", "tokenProgram", "klend"})
        \cup (UNION {ReserveKeys(r, {"reserve", "ctokenVault", "supplyVault", "feeVault",
                                     "collateralMint", "collateralSupply"})
                         \cup {<<m[r].market, "market">>} \cup FarmKeys(r) : r \in ReserveSet(V)})
        \cup (IF hasFarm(V) THEN VaultKeys({V.farm}) ELSE {})

\* They are finitely many, and those of the administrator and of every reserve.
LEMMA SyncBrings ==
    ASSUME NEW V, VaultShape(V), NEW m
    PROVE  /\ IsFiniteSet(KeysToSync(V, m)) /\ Owner(V.admin) \in KeysToSync(V, m)
           /\ \A r \in ReserveSet(V) : KeysFor(m[r], r) \subseteq KeysToSync(V, m)
<1> DEFINE seven == {"vault", "authority", "tokenMint", "tokenVault", "sharesMint", "tokenProgram", "klend"}
           six == {"reserve", "ctokenVault", "supplyVault", "feeVault", "collateralMint", "collateralSupply"}
           of(r) == (ReserveKeys(r, six) \cup {<<m[r].market, "market">>}) \cup FarmKeys(r)
           a == {Owner(V.admin)}
           b == VaultKeys(seven)
           all == {of(r) : r \in ReserveSet(V)}
           z == IF hasFarm(V) THEN VaultKeys({V.farm}) ELSE {}
<1>1. KeysToSync(V, m) = ((a \cup b) \cup (UNION all)) \cup z
  BY DEF KeysToSync
<1>2. IsFiniteSet(seven) /\ IsFiniteSet(six)
  <2> DEFINE five == {"vault", "authority", "tokenMint", "tokenVault", "sharesMint"}
             more == {"tokenProgram", "tokenProgram", "tokenProgram", "tokenProgram", "klend"}
             some == {"reserve", "ctokenVault", "supplyVault", "feeVault", "collateralMint"}
             one == {"collateralSupply"}
  <2>1. IsFiniteSet(five)
    BY FewFinite
  <2>2. IsFiniteSet(more)
    BY FewFinite
  <2>3. IsFiniteSet(some)
    BY FewFinite
  <2>4. IsFiniteSet(one)
    BY FS_Singleton
  <2>5. seven \subseteq five \cup more /\ six \subseteq some \cup one
    OBVIOUS
  <2> HIDE DEF five, more, some, one, seven, six
  <2>6. IsFiniteSet(five \cup more) /\ IsFiniteSet(some \cup one)
    BY <2>1, <2>2, <2>3, <2>4, FS_Union
  <2> QED
    BY <2>5, <2>6, FS_Subset
<1>3. \A r : KeysFor(m[r], r) \subseteq of(r)
  BY DEF KeysFor, ReserveKeys
<1>4. Owner(V.admin) \in a /\ IsFiniteSet(a)
  BY FS_Singleton
<1>5. IsFiniteSet(z)
  BY FS_Singleton, FS_EmptySet, KeysFinite
<1> HIDE DEF seven, six, a, z
<1>6. IsFiniteSet(b)
  BY <1>2, KeysFinite
<1>7. IsFiniteSet(UNION all)
  <2>1. \A r : IsFiniteSet(of(r))
    <3> TAKE r
    <3> DEFINE x == ReserveKeys(r, six)
               y == {<<m[r].market, "market">>}
               h == FarmKeys(r)
    <3>1. IsFiniteSet(x) /\ IsFiniteSet(y) /\ IsFiniteSet(h)
      BY <1>2, KeysFinite, FarmKeysFinite, FS_Singleton
    <3>2. of(r) = (x \cup y) \cup h
      OBVIOUS
    <3> HIDE DEF x, y, h, of
    <3>3. IsFiniteSet(x \cup y)
      BY <3>1, FS_Union
    <3> QED
      BY <3>1, <3>2, <3>3, FS_Union
  <2> DEFINE f == [r \in ReserveSet(V) |-> of(r)]
  <2>2. f = [r \in ReserveSet(V) |-> f[r]] /\ all = {f[r] : r \in ReserveSet(V)}
    OBVIOUS
  <2>3. \A T \in all : IsFiniteSet(T)
    BY <2>1
  <2>4. IsFiniteSet(ReserveSet(V))
    BY ReservesSeq
  <2> HIDE DEF f, all
  <2>5. IsFiniteSet(all)
    BY <2>2, <2>4, FiniteValues
  <2> QED
    BY <2>3, <2>5, FS_UNION
<1>8. \A r \in ReserveSet(V) : KeysFor(m[r], r) \subseteq UNION all
  BY <1>3
<1> HIDE DEF all, b
<1>9. IsFiniteSet(a \cup b)
  BY <1>4, <1>6, FS_Union
<1>10. IsFiniteSet((a \cup b) \cup (UNION all))
  BY <1>7, <1>9, FS_Union
<1>11. IsFiniteSet(((a \cup b) \cup (UNION all)) \cup z)
  BY <1>5, <1>10, FS_Union
<1> QED
  BY <1>1, <1>4, <1>8, <1>11

\* Extensions, each in a transaction of its own.
LEMMA EachItsOwn ==
    ASSUME NEW x, Softs(x), NEW y, y = [i \in DOMAIN x |-> <<x[i]>>]
    PROVE  /\ IsSeq(y) /\ DOMAIN y = DOMAIN x /\ Len(y) \in Nat /\ DOMAIN y = 1 .. Len(y)
           /\ \A i \in DOMAIN y : Softs(y[i]) /\ y[i] # <<>> /\ DOMAIN y[i] = 1 .. 1 /\ y[i][1] = x[i]
<1>1. Len(x) \in Nat /\ DOMAIN x = 1 .. Len(x)
  BY LenProperties DEF Softs, IsSeq
<1>2. y = [i \in 1 .. Len(x) |-> y[i]] /\ DOMAIN y = DOMAIN x
  BY <1>1
<1>3. IsSeq(y) /\ Len(y) = Len(x)
  BY <1>1, <1>2, TableSeq
<1>4. ASSUME NEW i \in DOMAIN y
      PROVE  Softs(y[i]) /\ y[i] # <<>> /\ DOMAIN y[i] = 1 .. 1 /\ y[i][1] = x[i]
  <2> DEFINE a == x[i]
  <2>1. Soft(a)
    BY <1>2 DEF Softs
  <2>2. y[i] = <<a>>
    BY <1>2
  <2> HIDE DEF a
  <2>3. Softs(<<a>>)
    BY <2>1, SoftsOne
  <2>4. <<a>> # <<>> /\ DOMAIN <<a>> = 1 .. 1 /\ <<a>>[1] = a
    BY Single
  <2> QED
    BY <2>2, <2>3, <2>4 DEF a
<1> QED
  BY <1>1, <1>2, <1>3, <1>4

\* Synchronising: where there is no table, one is made and filled with what the kept
\* state knows of, which is all there is.
LEMMA SyncCourse ==
    ASSUME NEW c, NEW V, AtRest(c, V), NEW slot,
           NEW o, o = syncVaultLookupTableIxs(V, c.market, c.tables, slot)
    PROVE  OnCourse(c, Asked(o.err, <<o.setup>> \o [i \in DOMAIN o.sync |-> <<o.sync[i]>>]), <<V>>)
<1> DEFINE none == V.lut = NoTable
           lut == IF none THEN <<V.admin, slot>> ELSE V.lut
           keys == KeysToSync(V, c.market)
           present == IF none THEN {} ELSE getAccountsInLUT(c.tables, V.lut)
           x == insertIntoLookupTableIxs(V.admin, lut, keys, present)
           y == [i \in DOMAIN x |-> <<x[i]>>]
           a == initLookupTableIx(V.admin, slot)
           b == updateVaultConfigIx(V, "lut", lut, V.admin)
           two == <<a, b>>
           empty == <<>>
           setup == IF none THEN two ELSE empty
           p == <<setup>> \o y
           v == <<V>>
<1>1. o.setup = setup /\ o.sync = x
  <2>1. lut = V.lut \/ none
    OBVIOUS
  <2>2. x = insertIntoLookupTableIxs(V.admin, lut, keys, IF none THEN {} ELSE getAccountsInLUT(c.tables, lut))
    BY <2>1
  <2> QED
    BY <2>2 DEF syncVaultLookupTableIxs, KeysToSync
<1>2. /\ IsFiniteSet(keys) /\ Owner(V.admin) \in keys
      /\ \A r \in ReserveSet(V) : KeysFor(c.market[r], r) \subseteq keys
  BY SyncBrings DEF AtRest
<1>3. none => lut # NoTable /\ present = {}
  BY DEF NoTable
<1>4. /\ a.ix = "createLookupTable" /\ a.signer = V.admin
      /\ none => a.table = lut
      /\ b.ix = "updateVaultConfig" /\ b.field = "lut" /\ b.value = lut /\ b.signer = V.admin
  BY DEF initLookupTableIx, createTable, updateVaultConfigIx, updateVaultConfig
<1>5. v[1] = V
  OBVIOUS
<1>6. /\ none => setup = two
      /\ ~none => setup = empty
  OBVIOUS
<1> HIDE DEF keys, lut, present, a, b, v
<1>7. Extensions(x, V.admin, lut, keys, present)
  BY <1>2, Inserts
<1>8. Softs(x)
  BY <1>7, SoftExtensions
<1> HIDE DEF x
<1>9. /\ IsSeq(y) /\ DOMAIN y = DOMAIN x /\ Len(y) \in Nat /\ DOMAIN y = 1 .. Len(y)
      /\ \A i \in DOMAIN y : Softs(y[i]) /\ y[i] # empty /\ DOMAIN y[i] = 1 .. 1 /\ y[i][1] = x[i]
  BY <1>8, EachItsOwn
<1> HIDE DEF y
<1>10. two # empty
  OBVIOUS
<1>11. Softs(empty)
  BY SoftsNone
<1> HIDE DEF setup
<1>12. /\ IsSeq(p) /\ p # empty /\ Head(p) = setup /\ Tail(p) = y
       /\ DOMAIN p = 1 .. (1 + Len(y))
       /\ p[1] = setup /\ \A k \in 1 .. Len(y) : p[1 + k] = y[k]
  BY <1>9, FirstAndRest
<1> HIDE DEF p
<1>13. \A n \in DOMAIN p : n = 1 \/ \E k \in DOMAIN y : p[n] = y[k]
  <2> SUFFICES ASSUME NEW n \in DOMAIN p, n # 1 PROVE \E k \in DOMAIN y : p[n] = y[k]
    OBVIOUS
  <2>1. n - 1 \in 1 .. Len(y) /\ 1 + (n - 1) = n
    BY <1>9, <1>12
  <2> QED
    BY <1>9, <1>12, <2>1
<1> HIDE DEF empty
<1>14. CASE ~none
  <2>1. \A n \in DOMAIN p : Softs(p[n])
    BY <1>6, <1>9, <1>11, <1>12, <1>13, <1>14
  <2>2. IsSeq(Asked(o.err, p)) /\ \A n \in DOMAIN Asked(o.err, p) : Softs(Asked(o.err, p)[n])
    BY <1>12, <2>1, AskedSoft
  <2>3. OnCourse(c, Asked(o.err, p), v)
    BY <2>2, SoftCourse DEF v
  <2> QED
    BY <1>1, <2>3 DEF p, y, v
<1>15. CASE none
  <2>1. \A n \in DOMAIN p : p[n] # empty
    BY <1>6, <1>9, <1>10, <1>12, <1>13, <1>15
  <2>2. Asked(o.err, p) = empty \/ Asked(o.err, p) = p
    BY <1>12, <2>1, AskedAll DEF empty
  <2>3. OnCourse(c, empty, v)
    BY NothingAsked, SoftCourse DEF empty, v
  <2>4. LandsOnce(c, p, v)
    <3> SUFFICES ASSUME NEW d, Calm(c, d), Executed(d, two).ok
                 PROVE  Shape(Executed(d, two).c) /\ Rest(Executed(d, two).c, y, v)
      BY <1>6, <1>12, <1>15 DEF LandsOnce, empty
    <3> DEFINE e == Executed(d, two).c
               f == Apply(d, a)
    <3>1. IsSeq(two)
      BY Double
    <3>2. Leads(d, two, e)
      <4> HIDE DEF two
      <4> QED
        BY <3>1, LandsOn
    <3>3. Allowed(d, a) /\ Allowed(f, b) /\ e = Apply(f, b)
      <4> HIDE DEF e
      <4> QED
        BY <3>2, LeadsTwo
    <3>4. AtRest(d, V)
      BY CalmAtRest
    <3>5. Grows(d, f) /\ lut \in DOMAIN f.tables /\ f.tables[lut].authority = V.admin
      BY <1>3, <1>4, <1>15, <3>3, <3>4, CreateStep DEF AtRest
    <3> HIDE DEF e, f
    <3>6. /\ V.admin = f.vault.admin /\ Kin(f, e) /\ e.vault.admin = V.admin
          /\ e.vault.lut = lut /\ e.vault.pending = f.vault.pending
      <4>1. Shape(f)
        BY <3>5 DEF Grows, Kin
      <4> QED
        BY <1>4, <3>3, <4>1, ConfigStep
    <3>7. Kin(d, e)
      BY <3>5, <3>6, KinThen DEF Grows
    <3>8. /\ e.vault.pending = NullKey /\ ReserveSet(e.vault) \subseteq ReserveSet(V)
          /\ Shape(e) /\ lut \in DOMAIN e.tables /\ e.tables[lut].authority = e.vault.admin
          /\ \A r \in Reserves : e.market[r].market = c.market[r].market
      BY <1>15, <3>4, <3>5, <3>6, <3>7 DEF AtRest, Known, Kin, Grows, TablesGrow, Calm
    <3>9. ASSUME NEW k \in AccountsOf(e) PROVE Comes(k, lut, y)
      <4>1. k \in keys
        <5>1. CASE k = Owner(e.vault.admin)
          BY <1>2, <3>6, <5>1
        <5>2. ASSUME NEW r \in ReserveSet(e.vault), k \in KeysFor(e.market[r], r) PROVE k \in keys
          <6>1. r \in ReserveSet(V) /\ KeysFor(e.market[r], r) = KeysFor(c.market[r], r)
            BY <3>8, <5>2 DEF KeysFor, Shape, VaultShape
          <6> QED
            BY <1>2, <5>2, <6>1
        <5> QED
          BY <5>1, <5>2, Accounts
      <4>2. PICK i \in DOMAIN x : k \in x[i].keys
        BY <1>3, <1>7, <1>15, <4>1 DEF Extensions
      <4>3. x[i].ix = "extendLookupTable" /\ x[i].table = lut
        BY <1>7 DEF Extensions, extendTable
      <4>4. i \in DOMAIN y /\ 1 \in DOMAIN y[i] /\ y[i][1] = x[i]
        BY <1>9
      <4> QED
        BY <4>2, <4>3, <4>4 DEF Comes
    <3>10. Good(e, y)
      BY <3>6, <3>8, <3>9 DEF Good
    <3>11. PendingListed(e)
      BY <3>8 DEF PendingListed
    <3>12. Remembers(v, e.vault)
      BY <1>5, <1>15, <3>4, <3>6, <3>8 DEF Remembers, Known, AtRest
    <3>13. Rest(e, y, v)
      BY <1>9, <3>10, <3>11, <3>12 DEF Rest
    <3> QED
      BY <3>8, <3>13 DEF e
  <2>5. OnCourse(c, p, v)
    BY <2>4 DEF OnCourse, AtRest
  <2>6. OnCourse(c, Asked(o.err, p), v)
    BY <2>2, <2>3, <2>5
  <2> QED
    BY <1>1, <2>6 DEF p, y, v
<1> QED
  BY <1>14, <1>15

\* An account of a reserve is nobody's own.
LEMMA NobodysOwn ==
    ASSUME NEW c, Shape(c), NEW r \in Reserves, NEW k \in KeysFor(c.market[r], r), NEW o
    PROVE  k # Owner(o)
<1>1. r # "owner" /\ c.market[r].market # "owner"
  BY AllocationsAssumption DEF Shape
<1>2. \A x, y, z : x # "owner" => <<x, y>> # <<"owner", z>>
  OBVIOUS
<1>3. k = <<c.market[r].market, "market">> \/ \E y : k = <<r, y>>
  BY DEF KeysFor, ReserveKeys
<1> QED
  BY <1>1, <1>2, <1>3 DEF Owner

\* And owners are told apart.
LEMMA OwnersDiffer ==
    ASSUME NEW a, NEW b, a # b
    PROVE  Owner(a) # Owner(b)
BY DEF Owner

\* An operation that throws asks for nothing.
LEMMA NotAsked ==
    ASSUME NEW txs
    PROVE  Asked("Lookup table not found", txs) = <<>>
BY Zenon DEF Asked

\* The vault is handed over. The first transaction makes the next administrator the
\* administrator, and a table of theirs; the second fills it and puts it in the place
\* of the former one's.
LEMMA AcceptCourse ==
    ASSUME NEW c, NEW V, AtRest(c, V), NEW slot,
           NEW o, o = acceptVaultOwnershipIxs(V, c.tables, slot)
    PROVE  OnCourse(c, Asked(o.err, <<<<o.accept, o.init>>, o.fill>>), <<V>>)
<1> DEFINE new == <<V.pending, slot>>
           keys == getAccountsInLUT(c.tables, V.lut) \ {Owner(V.admin)}
           none == {}
           x == insertIntoLookupTableIxs(V.pending, new, keys, none)
           a == updateAdmin(V.pending)
           b == initLookupTableIx(V.pending, slot)
           g == updateVaultConfigIx(V, "lut", new, V.pending)
           s == <<g>>
           two == <<a, b>>
           fill == x \o s
           rest == <<fill>>
           p == <<two, fill>>
           v == <<V>>
           empty == <<>>
<1>1. o.accept = a /\ o.init = b /\ o.fill = fill
  BY DEF acceptVaultOwnershipIxs
<1>2. Missing(c.tables, V.lut) => o.err = "Lookup table not found"
  BY Zenon DEF acceptVaultOwnershipIxs
<1>3. new # NoTable /\ v[1] = V
  BY DEF NoTable
<1>4. /\ a.ix = "updateAdmin" /\ a.signer = V.pending
      /\ b.ix = "createLookupTable" /\ b.signer = V.pending /\ b.table = new
      /\ g.ix = "updateVaultConfig" /\ g.field = "lut" /\ g.value = new /\ g.signer = V.pending
  BY DEF updateAdmin, initLookupTableIx, createTable, updateVaultConfigIx, updateVaultConfig
<1>5. IsSeq(two) /\ two # empty
  BY Double
<1>6. IsSeq(s) /\ Len(s) = 1
  BY Single
<1> HIDE DEF new, a, b, g, v, s
<1>7. OnCourse(c, empty, v)
  BY NothingAsked, SoftCourse DEF v
<1>8. CASE Missing(c.tables, V.lut)
  <2>1. o.err = "Lookup table not found"
    BY <1>2, <1>8
  <2> DEFINE q == <<<<o.accept, o.init>>, o.fill>>
  <2>2. Asked(o.err, q) = empty
    <3> HIDE DEF q
    <3> QED
      BY <2>1, NotAsked, Zenon
  <2> HIDE DEF q
  <2>3. OnCourse(c, Asked(o.err, q), v)
    BY <1>7, <2>2
  <2> QED
    BY <2>3 DEF q, v
<1>9. CASE ~Missing(c.tables, V.lut)
  <2>1. V.lut \in DOMAIN c.tables /\ V.lut # NoTable /\ keys = c.tables[V.lut].keys \ {Owner(V.admin)}
    BY <1>9 DEF Missing, AtRest, Shape, TablesShape, getAccountsInLUT
  <2> HIDE DEF keys
  <2>2. IsFiniteSet(keys)
    BY <2>1, FS_Subset DEF AtRest, Shape, TablesShape
  <2> HIDE DEF none
  <2>3. Extensions(x, V.pending, new, keys, none)
    BY <2>2, Inserts
  <2>4. Softs(x)
    BY <2>3, SoftExtensions
  <2>5. IsSeq(x)
    BY <2>4 DEF Softs
  <2> HIDE DEF x
  <2>6. IsSeq(fill) /\ fill # empty
    <3>1. IsSeq(fill) /\ DOMAIN fill = 1 .. (Len(x) + Len(s)) /\ Len(x) \in Nat
      BY <1>6, <2>5, Joined
    <3> HIDE DEF fill
    <3>2. 1 \in DOMAIN fill
      BY <1>6, <3>1
    <3> QED
      BY <3>1, <3>2
  <2>7. ASSUME NEW d, Calm(c, d), Executed(d, two).ok
        PROVE  Shape(Executed(d, two).c) /\ LandsOnce(Executed(d, two).c, rest, v)
    <3> DEFINE e == Executed(d, two).c
               f == Apply(d, a)
    <3>1. Leads(d, two, e)
      <4> HIDE DEF two
      <4> QED
        BY <1>5, <2>7, LandsOn
    <3>2. Allowed(d, a) /\ Allowed(f, b) /\ e = Apply(f, b)
      <4> HIDE DEF e
      <4> QED
        BY <3>1, LeadsTwo
    <3>3. AtRest(d, V)
      BY <2>7, CalmAtRest
    <3>4. /\ V.pending = d.vault.pending /\ V.pending # NullKey
          /\ Kin(d, f) /\ f.vault.admin = V.pending /\ f.vault.lut = d.vault.lut
          /\ f.vault.pending = NullKey
      <4>1. Shape(d)
        BY <3>3 DEF AtRest
      <4> QED
        BY <1>4, <3>2, <4>1, AdminStep
    <3> HIDE DEF f
    <3>5. Grows(f, e) /\ new \in DOMAIN e.tables /\ e.tables[new].authority = V.pending
      <4>1. Shape(f)
        BY <3>4 DEF Kin
      <4> QED
        BY <1>3, <1>4, <3>2, <4>1, CreateStep
    <3> HIDE DEF e
    <3>6. /\ Kin(d, e) /\ e.vault.admin = V.pending /\ e.vault.pending = NullKey
      BY <3>4, <3>5, KinThen DEF Grows
    <3>7. /\ V.admin = d.vault.admin /\ V.pending # V.admin /\ d.vault.lut = V.lut
          /\ Owner(V.pending) \in d.tables[V.lut].keys
          /\ AccountsOf(d) \subseteq d.tables[V.lut].keys
          /\ keys = d.tables[V.lut].keys \ {Owner(V.admin)}
      BY <2>1, <2>7, <3>3, <3>4 DEF AtRest, Known, PendingListed, TableServes, Calm
    <3>8. Owner(V.pending) \in keys
      BY <3>7, OwnersDiffer
    <3>9. ASSUME NEW r \in ReserveSet(e.vault) PROVE KeysFor(d.market[r], r) \subseteq keys
      <4>1. r \in Reserves /\ r \in ReserveSet(d.vault) /\ Shape(d)
        BY <3>3, <3>6 DEF AtRest, Kin, Shape, VaultShape
      <4>2. KeysFor(d.market[r], r) \subseteq AccountsOf(d)
        BY <4>1, Accounts
      <4>3. \A k \in KeysFor(d.market[r], r) : k # Owner(V.admin)
        BY <4>1, NobodysOwn
      <4> QED
        BY <3>7, <4>2, <4>3
    <3>10. ASSUME NEW h, Calm(e, h), Executed(h, fill).ok
           PROVE  Shape(Executed(h, fill).c) /\ Rest(Executed(h, fill).c, empty, v)
      <4> DEFINE i == Executed(h, fill).c
      <4>1. Leads(h, fill, i)
        <5> HIDE DEF fill
        <5> QED
          BY <2>6, <3>10, LandsOn
      <4> HIDE DEF i
      <4>2. PICK j : Leads(h, x, j) /\ Leads(j, s, i)
        BY <1>6, <2>5, <4>1, LeadsJoined
      <4>3. Shape(h) /\ h.vault = e.vault /\ h.tables = e.tables
            /\ \A r \in Reserves : h.market[r].market = e.market[r].market
        BY <3>10 DEF Calm
      <4>4. /\ Grows(h, j)
            /\ \A k \in keys : k \in none \/ (new \in DOMAIN j.tables /\ k \in j.tables[new].keys)
        BY <2>3, <4>2, <4>3, Brought
      <4>5. Allowed(j, g) /\ i = Apply(j, g)
        BY <4>2, LeadsOne DEF s
      <4>6. Shape(j)
        BY <4>4 DEF Grows, Kin
      <4>7. /\ V.pending = j.vault.admin /\ Kin(j, i) /\ i.vault.admin = V.pending
            /\ i.vault.lut = new /\ i.vault.pending = j.vault.pending
        BY <1>4, <4>5, <4>6, ConfigStep
      <4>8. Kin(h, i)
        BY <4>4, <4>7, KinThen DEF Grows
      <4>9. /\ Shape(i) /\ i.vault.pending = NullKey
            /\ ReserveSet(i.vault) \subseteq ReserveSet(e.vault)
            /\ \A r \in Reserves : i.market[r].market = d.market[r].market
            /\ new \in DOMAIN i.tables /\ i.tables[new].authority = V.pending
        BY <3>5, <3>6, <4>3, <4>4, <4>7, <4>8 DEF Grows, Kin, TablesGrow
      <4>10. keys \subseteq i.tables[new].keys
        BY <4>4, <4>7 DEF Kin, TablesGrow, none
      <4>11. ASSUME NEW k \in AccountsOf(i) PROVE k \in keys
        <5>1. CASE k = Owner(i.vault.admin)
          BY <3>8, <4>7, <5>1
        <5>2. ASSUME NEW r \in ReserveSet(i.vault), k \in KeysFor(i.market[r], r) PROVE k \in keys
          <6>1. r \in ReserveSet(e.vault) /\ KeysFor(i.market[r], r) = KeysFor(d.market[r], r)
            BY <4>9, <5>2 DEF KeysFor, Shape, VaultShape
          <6> QED
            BY <3>9, <5>2, <6>1
        <5> QED
          BY <5>1, <5>2, Accounts
      <4>12. TableServes(i)
        BY <4>7, <4>9, <4>10, <4>11 DEF TableServes
      <4>13. PendingListed(i)
        BY <4>9 DEF PendingListed
      <4>14. Remembers(v, i.vault)
        BY <1>3, <2>1, <3>3, <3>7, <4>7, <4>9 DEF Remembers, Known, AtRest
      <4>15. Rest(i, empty, v)
        BY <4>12, <4>13, <4>14, NothingAsked, ServesRest
      <4> QED
        BY <4>9, <4>15 DEF i
    <3>11. /\ rest # empty /\ Head(rest) = fill /\ Tail(rest) = empty
      BY Single
    <3> HIDE DEF rest, fill
    <3>12. LandsOnce(e, rest, v)
      <4> HIDE DEF empty
      <4> QED
        BY <3>10, <3>11 DEF LandsOnce, empty
    <3> QED
      BY <3>6, <3>12 DEF e, Kin
  <2> HIDE DEF two, fill
  <2>8. /\ IsSeq(p) /\ DOMAIN p = 1 .. 2 /\ p[1] = two /\ p[2] = fill
        /\ p # empty /\ Head(p) = two /\ Tail(p) = rest
    BY Double
  <2> HIDE DEF p, rest
  <2>9. \A n \in DOMAIN p : p[n] # empty
    BY <1>5, <2>6, <2>8
  <2>10. Asked(o.err, p) = empty \/ Asked(o.err, p) = p
    BY <2>8, <2>9, AskedAll
  <2>11. LandsTwice(c, p, v)
    BY <2>7, <2>8 DEF LandsTwice
  <2>12. OnCourse(c, p, v)
    BY <2>11 DEF OnCourse, AtRest
  <2>13. OnCourse(c, Asked(o.err, p), v)
    BY <1>7, <2>10, <2>12
  <2>14. p = <<<<o.accept, o.init>>, o.fill>>
    BY <1>1 DEF p, two
  <2> QED
    BY <2>13, <2>14 DEF v
<1> QED
  BY <1>8, <1>9

\* A vault is created: its table is made in the first transaction and filled in the
\* second.
LEMMA CreateCourse ==
    ASSUME NEW c, Shape(c), NEW admin, NEW perfBps, NEW mgmtBps, NEW slot, NEW native
    PROVE  OnCourse(c, createVaultIxs(admin, perfBps, mgmtBps, slot, native), <<>>)
<1> DEFINE lut == <<admin, slot>>
           names == {"vault", "tokenMint", "tokenProgram", "authority", "sharesMint", "system", "rent",
                     "token", "klend", "instructions"}
           of == VaultKeys(names)
           own == {Owner(admin)}
           keys == own \cup of
           none == {}
           empty == <<>>
           x == insertIntoLookupTableIxs(admin, lut, keys, none)
           w == wrapSol(admin, VAULT_INITIAL_DEPOSIT)
           a == initVault(admin)
           b == updateUninitialisedVaultConfigIx(admin, "lut", lut)
           u == updateUninitialisedVaultConfigIx(admin, "perfBps", perfBps)
           m == updateUninitialisedVaultConfigIx(admin, "mgmtBps", mgmtBps)
           z == initLookupTableIx(admin, slot)
           wrap == IF native THEN <<w>> ELSE empty
           two == <<a, b>>
           perf == IF perfBps > 0 THEN <<u>> ELSE empty
           mgmt == IF mgmtBps > 0 THEN <<m>> ELSE empty
           last == <<z>>
           tx == (((wrap \o two) \o perf) \o mgmt) \o last
           rest == <<x>>
           p == <<tx, x>>
<1>1. createVaultIxs(admin, perfBps, mgmtBps, slot, native) = p
  BY DEF createVaultIxs
<1>2. /\ a.ix = "initVault" /\ a.signer = admin
      /\ b.ix = "updateVaultConfig" /\ b.field = "lut" /\ b.value = lut /\ b.signer = admin
      /\ z.ix = "createLookupTable" /\ z.signer = admin /\ z.table = lut
      /\ Soft(w) /\ Soft(u) /\ Soft(m)
  BY DEF initVault, updateUninitialisedVaultConfigIx, updateVaultConfig, initLookupTableIx, createTable,
         wrapSol, Soft, OwnerIxs
<1>3. lut # NoTable
  BY DEF NoTable
<1>4. IsSeq(two) /\ IsSeq(last)
  BY Single, Double
<1>5. Softs(empty)
  BY SoftsNone
<1>6. IsFiniteSet(names)
  <2> DEFINE five == {"vault", "tokenMint", "tokenProgram", "authority", "sharesMint"}
             more == {"system", "rent", "token", "klend", "instructions"}
  <2>1. IsFiniteSet(five)
    BY FewFinite
  <2>2. IsFiniteSet(more)
    BY FewFinite
  <2>3. names \subseteq five \cup more
    OBVIOUS
  <2> HIDE DEF five, more, names
  <2>4. IsFiniteSet(five \cup more)
    BY <2>1, <2>2, FS_Union
  <2> QED
    BY <2>3, <2>4, FS_Subset
<1>7. IsFiniteSet(own) /\ Owner(admin) \in own
  BY FS_Singleton
<1> HIDE DEF names, own, w, a, b, u, m, z, lut, two, last, empty
<1>8. IsFiniteSet(of)
  BY <1>6, KeysFinite
<1> HIDE DEF of
<1>9. IsFiniteSet(keys) /\ Owner(admin) \in keys
  BY <1>7, <1>8, FS_Union
<1>10. Softs(wrap) /\ Softs(perf) /\ Softs(mgmt)
  BY <1>2, <1>5, SoftsOne
<1>11. IsSeq(wrap) /\ IsSeq(perf) /\ IsSeq(mgmt)
  BY <1>10 DEF Softs
<1> HIDE DEF wrap, perf, mgmt
<1>12. IsSeq(wrap \o two)
  BY <1>4, <1>11, Joined
<1>13. IsSeq((wrap \o two) \o perf)
  BY <1>11, <1>12, Joined
<1>14. IsSeq(((wrap \o two) \o perf) \o mgmt)
  BY <1>11, <1>13, Joined
<1>15. IsSeq(tx)
  BY <1>4, <1>14, Joined
<1> HIDE DEF keys
<1>16. Extensions(x, admin, lut, keys, none)
  BY <1>9, Inserts
<1> HIDE DEF x
<1>17. Softs(x)
  BY <1>16, SoftExtensions
<1>18. p # <<>> /\ Head(p) = tx /\ Tail(p) = rest
  <2> HIDE DEF tx
  <2> QED
    BY Double
<1>19. IsSeq(rest) /\ DOMAIN rest = 1 .. 1 /\ rest[1] = x
  BY Single
<1> HIDE DEF rest
<1>20. ASSUME NEW d, Calm(c, d), Executed(d, tx).ok
       PROVE  Shape(Executed(d, tx).c) /\ Rest(Executed(d, tx).c, rest, empty)
  <2> DEFINE e == Executed(d, tx).c
  <2>1. Leads(d, tx, e)
    <3> HIDE DEF tx
    <3> QED
      BY <1>15, <1>20, LandsOn
  <2> HIDE DEF e
  <2>2. PICK d4 : Leads(d, ((wrap \o two) \o perf) \o mgmt, d4) /\ Leads(d4, last, e)
    BY <1>4, <1>14, <2>1, LeadsJoined
  <2>3. PICK d3 : Leads(d, (wrap \o two) \o perf, d3) /\ Leads(d3, mgmt, d4)
    BY <1>11, <1>13, <2>2, LeadsJoined
  <2>4. PICK d2 : Leads(d, wrap \o two, d2) /\ Leads(d2, perf, d3)
    BY <1>11, <1>12, <2>3, LeadsJoined
  <2>5. PICK d1 : Leads(d, wrap, d1) /\ Leads(d1, two, d2)
    BY <1>4, <1>11, <2>4, LeadsJoined
  <2>6. Shape(d1)
    <3>1. Shape(d)
      BY <1>20 DEF Calm
    <3>2. Grows(d, d1)
      BY <1>10, <2>5, <3>1, LeadsSoft
    <3> QED
      BY <3>2 DEF Grows, Kin
  <2> DEFINE f == Apply(d1, a)
  <2>7. Allowed(d1, a) /\ Allowed(f, b) /\ d2 = Apply(f, b)
    BY <2>5, LeadsTwo DEF two
  <2>8. /\ Kin(d1, f) /\ f.vault.admin = admin /\ f.vault.pending = NullKey
        /\ ReserveSet(f.vault) = {}
    BY <1>2, <2>6, InitStep
  <2> HIDE DEF f
  <2>9. Shape(f)
    BY <2>8 DEF Kin
  <2>10. /\ Kin(f, d2) /\ d2.vault.admin = f.vault.admin
         /\ d2.vault.lut = lut /\ d2.vault.pending = f.vault.pending
    BY <1>2, <2>7, <2>9, ConfigStep
  <2>11. Shape(d2)
    BY <2>10 DEF Kin
  <2>12. Grows(d2, d3)
    BY <1>10, <2>4, <2>11, LeadsSoft
  <2>13. Shape(d3)
    BY <2>12 DEF Grows, Kin
  <2>14. Grows(d3, d4)
    BY <1>10, <2>3, <2>13, LeadsSoft
  <2>15. Shape(d4)
    BY <2>14 DEF Grows, Kin
  <2>16. Allowed(d4, z) /\ e = Apply(d4, z)
    BY <2>2, LeadsOne DEF last
  <2>17. Grows(d4, e) /\ lut \in DOMAIN e.tables /\ e.tables[lut].authority = admin
    BY <1>2, <1>3, <2>15, <2>16, CreateStep
  <2>18. Grows(d2, e)
    BY <2>12, <2>14, <2>17, KinThen
  <2>19. /\ Shape(e) /\ e.vault.admin = admin /\ e.vault.lut = lut /\ e.vault.pending = NullKey
         /\ ReserveSet(e.vault) = {}
    BY <2>8, <2>10, <2>18 DEF Grows, Kin
  <2>20. ASSUME NEW k \in AccountsOf(e) PROVE Comes(k, lut, rest)
    <3>1. k \in keys
      BY <1>9, <2>19, Accounts
    <3>2. PICK i \in DOMAIN x : k \in x[i].keys
      BY <1>16, <3>1 DEF Extensions
    <3>3. x[i].ix = "extendLookupTable" /\ x[i].table = lut
      BY <1>16 DEF Extensions, extendTable
    <3> QED
      BY <1>19, <3>2, <3>3 DEF Comes
  <2>21. Good(e, rest)
    BY <2>17, <2>19, <2>20 DEF Good
  <2>22. PendingListed(e)
    BY <2>19 DEF PendingListed
  <2>23. Remembers(empty, e.vault)
    BY DEF Remembers, empty
  <2>24. Rest(e, rest, empty)
    BY <1>17, <1>19, <2>21, <2>22, <2>23 DEF Rest
  <2> QED
    BY <2>19, <2>24 DEF e
<1> HIDE DEF tx, p
<1>21. LandsOnce(c, p, empty)
  BY <1>18, <1>20 DEF LandsOnce
<1>22. OnCourse(c, p, empty)
  BY <1>21 DEF OnCourse
<1> QED
  BY <1>1, <1>22 DEF empty

-----------------------------------------------------------------------------
(* Every step stays on course *)

\* The state of a vault that is read off an account.
LEMMA ReadVault ==
    ASSUME NEW V, DOMAIN V = VaultFields, V.alloc \in Seq(AllocSlots)
    PROVE  VaultShape(V)
<1>1. DOMAIN V.alloc = 1 .. Len(V.alloc) /\ Len(V.alloc) \in Nat
      /\ V.alloc = [i \in 1 .. Len(V.alloc) |-> V.alloc[i]]
  OBVIOUS
<1>2. \A i \in DOMAIN V.alloc : V.alloc[i] \in AllocSlots
  BY <1>1
<1>3. \A i \in DOMAIN V.alloc :
          "reserve" \in DOMAIN V.alloc[i] /\ V.alloc[i].reserve \in Reserves \cup {NullKey}
  BY <1>2 DEF AllocSlots
<1>4. Slotted(V.alloc)
  BY <1>1, <1>3 DEF Slotted
<1>5. ReserveSet(V) \subseteq Reserves
  BY <1>3 DEF ReserveSet
<1> QED
  BY <1>4, <1>5 DEF VaultShape

\* The chains that there are to start from are on course.
LEMMA CourseInit == Init => CourseInv
<1> SUFFICES ASSUME Init PROVE OnCourse(chain, plan, view)
  BY DEF CourseInv
<1>1. chain \in Chains /\ view = <<>> /\ plan = <<>>
  BY DEF Init
<1>2. /\ DOMAIN chain = ChainFields
      /\ DOMAIN chain.vault = VaultFields /\ chain.vault.alloc \in Seq(AllocSlots)
      /\ Reserves \subseteq DOMAIN chain.market
      /\ \A r \in Reserves : "market" \in DOMAIN chain.market[r] /\ chain.market[r].market # "owner"
      /\ NoTable \notin DOMAIN chain.tables
      /\ \A t \in DOMAIN chain.tables :
             DOMAIN chain.tables[t] = {"authority", "keys"} /\ IsFiniteSet(chain.tables[t].keys)
      /\ TableServes(chain) /\ PendingListed(chain)
  BY <1>1, ChainsAssumption
<1>3. VaultShape(chain.vault)
  BY <1>2, ReadVault
<1>4. TablesShape(chain.tables)
  BY <1>2 DEF TablesShape
<1>5. Shape(chain)
  BY <1>2, <1>3, <1>4 DEF Shape
<1>6. IsSeq(plan) /\ \A n \in DOMAIN plan : Softs(plan[n])
  BY <1>1, NothingAsked
<1>7. Remembers(view, chain.vault)
  BY <1>1 DEF Remembers
<1>8. Rest(chain, plan, view)
  BY <1>2, <1>6, <1>7, ServesRest
<1> QED
  BY <1>5, <1>8 DEF OnCourse

\* With nothing to be sent, the table serves.
LEMMA OnCourseRest ==
    ASSUME NEW c, NEW v, OnCourse(c, <<>>, v)
    PROVE  Shape(c) /\ TableServes(c) /\ PendingListed(c) /\ Remembers(v, c.vault)
<1> DEFINE p == <<>>
<1>1. DOMAIN p = {}
  OBVIOUS
<1>2. OnCourse(c, p, v) /\ p = <<>>
  OBVIOUS
<1> HIDE DEF p
<1>3. Shape(c) /\ Rest(c, p, v)
  BY <1>2 DEF OnCourse, LandsOnce, LandsTwice
<1>4. \A k, t : ~Comes(k, t, p)
  BY <1>1 DEF Comes
<1>5. TableServes(c)
  BY <1>3, <1>4 DEF Rest, Good, TableServes
<1> QED
  BY <1>3, <1>5 DEF Rest

\* And whoever reads the vault then knows it.
LEMMA ReadAtRest ==
    ASSUME NEW c, Shape(c), TableServes(c), PendingListed(c)
    PROVE  AtRest(c, c.vault)
BY DEF AtRest, Known, PendingListed, Shape

\* A tick of the clock, and a loan to somebody else.
LEMMA TickCalm ==
    ASSUME NEW c, Shape(c), NEW x
    PROVE  Calm(c, [c EXCEPT !.slot = x])
<1> DEFINE d == [c EXCEPT !.slot = x]
<1>1. DOMAIN d = DOMAIN c /\ d.vault = c.vault /\ d.tables = c.tables /\ d.market = c.market
  OBVIOUS
<1> HIDE DEF d
<1>2. Calm(c, d)
  BY <1>1 DEF Calm, Shape
<1> QED
  BY <1>2 DEF d

\* A loan changes the reserve's amounts.
LEMMA LoanCalm ==
    ASSUME NEW c, Shape(c), NEW r, NEW slot, NEW R, R = RefreshReserve(c.market[r], slot),
           NEW x, NEW y, NEW d, d = [c EXCEPT !.market[r] = [R EXCEPT !.available = x, !.borrowed = y]]
    PROVE  Calm(c, d)
<1> DEFINE S == [R EXCEPT !.available = x, !.borrowed = y]
<1>1. /\ DOMAIN d = DOMAIN c /\ d.vault = c.vault /\ d.tables = c.tables
      /\ d.market = [c.market EXCEPT ![r] = S]
  BY DEF Shape, ChainFields
<1>2. r \in Reserves => "market" \in DOMAIN S /\ S.market = c.market[r].market
  <2> SUFFICES ASSUME r \in Reserves PROVE "market" \in DOMAIN S /\ S.market = c.market[r].market
    OBVIOUS
  <2>1. "market" \in DOMAIN c.market[r]
    BY DEF Shape
  <2>2. "market" \in DOMAIN R /\ R.market = c.market[r].market
    BY <2>1, RefreshedMarket
  <2> QED
    BY <2>2
<1> HIDE DEF S
<1>3. \A q \in Reserves : "market" \in DOMAIN d.market[q] /\ d.market[q].market = c.market[q].market
  <2> TAKE q \in Reserves
  <2>1. q \in DOMAIN c.market /\ "market" \in DOMAIN c.market[q]
    BY DEF Shape
  <2>2. d.market[q] = IF q = r THEN S ELSE c.market[q]
    BY <1>1, <2>1
  <2> QED
    BY <1>2, <2>1, <2>2
<1> QED
  BY <1>1, <1>3 DEF Calm, Shape

\* One step of the client or of the chain.
LEMMA CourseStep == CourseInv /\ [Next]_vars => CourseInv'
<1> SUFFICES ASSUME CourseInv, [Next]_vars, clean' PROVE OnCourse(chain', plan', view')
  BY DEF CourseInv
<1> DEFINE V == getState
           known == <<V>>
<1>1. clean => OnCourse(chain, plan, view)
  BY DEF CourseInv
<1>2. ASSUME plan = <<>>, clean PROVE AtRest(chain, V)
  <2>1. Shape(chain) /\ TableServes(chain) /\ PendingListed(chain) /\ Remembers(view, chain.vault)
    BY <1>1, <1>2, OnCourseRest
  <2>2. CASE view = <<>>
    BY <2>1, <2>2, ReadAtRest DEF getState
  <2>3. CASE view # <<>>
    BY <2>1, <2>3 DEF getState, Remembers, AtRest
  <2> QED
    BY <2>2, <2>3
<1> HIDE DEF V
<1>3. ASSUME NEW kind, NEW amount, NEW err, NEW txs, Ask(kind, amount, err, txs),
             AtRest(chain, V) => OnCourse(chain, Asked(err, txs), known)
      PROVE  OnCourse(chain', plan', view')
  <2>1. plan = <<>> /\ chain' = chain /\ clean' = clean /\ view' = known
    BY <1>3 DEF Ask, V
  <2>2. plan' = Asked(err, txs)
    BY <1>3, Zenon DEF Ask, Asked
  <2>3. AtRest(chain, V)
    BY <1>2, <2>1
  <2> HIDE DEF known
  <2> QED
    BY <1>3, <2>1, <2>2, <2>3
<1>4. ASSUME NEW kind, NEW amount, NEW err, NEW txs, Ask(kind, amount, err, txs),
             AtRest(chain, V) => IsSeq(txs) /\ \A n \in DOMAIN txs : Softs(txs[n])
      PROVE  OnCourse(chain', plan', view')
  <2>1. ASSUME AtRest(chain, V) PROVE OnCourse(chain, Asked(err, txs), known)
    <3>1. IsSeq(Asked(err, txs)) /\ \A n \in DOMAIN Asked(err, txs) : Softs(Asked(err, txs)[n])
      BY <1>4, <2>1, AskedSoft
    <3> QED
      BY <2>1, <3>1, SoftCourse
  <2> HIDE DEF known
  <2> QED
    BY <1>3, <1>4, <2>1
<1>5. ASSUME NEW kind, NEW amount, NEW o, AskOne(kind, amount, o), AtRest(chain, V) => Gentle(o)
      PROVE  OnCourse(chain', plan', view')
  <2> DEFINE x == o.ixs
             err == o.err
             txs == <<x>>
  <2>1. Ask(kind, amount, err, txs)
    BY <1>5 DEF AskOne
  <2>2. AtRest(chain, V) => Softs(x)
    BY <1>5 DEF Gentle
  <2> HIDE DEF x, err
  <2>3. IsSeq(txs) /\ DOMAIN txs = 1 .. 1 /\ txs[1] = x
    BY Single
  <2> HIDE DEF txs, known
  <2>4. AtRest(chain, V) => IsSeq(txs) /\ \A n \in DOMAIN txs : Softs(txs[n])
    BY <2>2, <2>3
  <2> QED
    BY <1>4, <2>1, <2>4
<1>6. ASSUME NEW kind, NEW amount, NEW o, AskOne(kind, amount, o),
             AtRest(chain, V) => OnCourse(chain, Asked(o.err, <<o.ixs>>), known)
      PROVE  OnCourse(chain', plan', view')
  <2> HIDE DEF known
  <2>1. Ask(kind, amount, o.err, <<o.ixs>>)
    BY <1>6 DEF AskOne
  <2> QED
    BY <1>3, <1>6, <2>1
<1>7. ASSUME NEW kind, NEW amount, NEW x, NEW err, Ask(kind, amount, err, <<x>>), Softs(x)
      PROVE  OnCourse(chain', plan', view')
  <2> DEFINE txs == <<x>>
  <2>1. Ask(kind, amount, err, txs)
    BY <1>7
  <2>2. IsSeq(txs) /\ DOMAIN txs = 1 .. 1 /\ txs[1] = x
    BY Single
  <2> HIDE DEF txs, known
  <2>3. IsSeq(txs) /\ \A n \in DOMAIN txs : Softs(txs[n])
    BY <1>7, <2>2
  <2> QED
    BY <1>4, <2>1, <2>3
<1>8. CASE CreateVault
  <2>1. /\ view = <<>> /\ plan = <<>> /\ chain' = chain /\ view' = view /\ clean' = clean
        /\ plan' = createVaultIxs(Admin, Fee, 0, chain.slot, WrappedSol)
    BY <1>8 DEF CreateVault
  <2>2. Shape(chain)
    BY <1>1, <2>1 DEF OnCourse
  <2> QED
    BY <2>1, <2>2, CreateCourse
<1>9. CASE Reload
  <2> DEFINE v == <<chain.vault>>
             p == <<>>
  <2>1. plan = p /\ chain' = chain /\ plan' = plan /\ clean' = clean /\ view' = v
    BY <1>9 DEF Reload
  <2>2. Shape(chain) /\ TableServes(chain) /\ PendingListed(chain)
    BY <1>1, <2>1, OnCourseRest
  <2>3. AtRest(chain, chain.vault)
    BY <2>2, ReadAtRest
  <2>4. OnCourse(chain, p, v)
    BY <2>3, NothingAsked, SoftCourse
  <2> HIDE DEF p, v
  <2> QED
    BY <2>1, <2>4
<1>10. CASE SetPending
  <2> DEFINE o == updateVaultConfigIxs(V, chain.tables, "pending", Next2, V.admin, Farms)
  <2>1. AskOne("pending", Zero, o) /\ V.admin # Next2
    BY <1>10 DEF SetPending, V
  <2>2. AtRest(chain, V) => OnCourse(chain, Asked(o.err, <<o.ixs>>), known)
    BY <2>1, PendingCourse
  <2> HIDE DEF o, known
  <2> QED
    BY <1>6, <2>1, <2>2
<1>11. CASE SetFee
  <2> DEFINE o == updateVaultConfigIxs(V, chain.tables, "perfBps", Fee, V.admin, Farms)
  <2>1. AskOne("fee", Zero, o)
    BY <1>11 DEF SetFee, V
  <2>2. Gentle(o)
    BY SoftConfig
  <2> HIDE DEF o, known
  <2> QED
    BY <1>5, <2>1, <2>2
<1>12. CASE Accept
  <2> DEFINE o == acceptVaultOwnershipIxs(V, chain.tables, chain.slot)
             txs == <<<<o.accept, o.init>>, o.fill>>
  <2>1. Ask("accept", Zero, o.err, txs)
    BY <1>12 DEF Accept, V
  <2>2. AtRest(chain, V) => OnCourse(chain, Asked(o.err, txs), known)
    BY AcceptCourse
  <2> HIDE DEF o, txs, known
  <2> QED
    BY <1>3, <2>1, <2>2
<1>13. CASE Sync
  <2> DEFINE o == syncVaultLookupTableIxs(V, chain.market, chain.tables, chain.slot)
             txs == <<o.setup>> \o [i \in DOMAIN o.sync |-> <<o.sync[i]>>]
  <2>1. Ask("sync", Zero, o.err, txs)
    BY <1>13 DEF Sync, V
  <2>2. AtRest(chain, V) => OnCourse(chain, Asked(o.err, txs), known)
    BY SyncCourse
  <2> HIDE DEF o, txs, known
  <2> QED
    BY <1>3, <2>1, <2>2
<1>14. CASE WithdrawFees
  <2> DEFINE o == withdrawPendingFeesIxs(V, chain.market, chain.slot)
  <2>1. AskOne("fees", Zero, o)
    BY <1>14 DEF WithdrawFees, V
  <2>2. AtRest(chain, V) => Gentle(o)
    BY SoftFees DEF AtRest
  <2> HIDE DEF o, known
  <2> QED
    BY <1>5, <2>1, <2>2
<1>15. CASE Stake
  <2> DEFINE o == stakeSharesIxs(V, User, <<>>, Farms, User \in chain.stakers)
  <2>1. AskOne("stake", Zero, o)
    BY <1>15 DEF Stake, V
  <2>2. Gentle(o)
    BY SoftStake
  <2> HIDE DEF o, known
  <2> QED
    BY <1>5, <2>1, <2>2
<1>16. CASE InvestAll
  <2> DEFINE o == investAllReservesIxs(V, chain.market, User, chain.slot)
             x == o.ixs
             err == o.err
             txs == [n \in DOMAIN x |-> <<x[n]>>]
  <2>1. Ask("invest", Zero, err, txs)
    BY <1>16 DEF InvestAll, V
  <2>2. AtRest(chain, V) => Softs(x)
    BY SoftInvest DEF AtRest, Gentle
  <2> HIDE DEF o, x, err
  <2>3. AtRest(chain, V) => IsSeq(txs) /\ \A n \in DOMAIN txs : Softs(txs[n])
    BY <2>2, EachItsOwn
  <2> HIDE DEF txs, known
  <2> QED
    BY <1>4, <2>1, <2>3
<1>17. ASSUME NEW a \in Allocations, Allocate(a[1], a[2], Zero) PROVE OnCourse(chain', plan', view')
  <2> DEFINE o == updateReserveAllocationIxs(V, chain.market, chain.tables, a[1], a[2], Zero)
  <2>1. AskOne("allocate", Zero, o)
    BY <1>17 DEF Allocate, V
  <2>2. AtRest(chain, V) => OnCourse(chain, Asked(o.err, <<o.ixs>>), known)
    BY AllocationsAssumption, AllocateCourse
  <2> HIDE DEF o, known
  <2> QED
    BY <1>6, <2>1, <2>2
<1>18. ASSUME NEW r, RemoveReserve(r) PROVE OnCourse(chain', plan', view')
  <2> DEFINE x == removeReserveFromAllocationIx(V, r)
             err == ""
  <2>1. Ask("remove", Zero, err, <<x>>)
    BY <1>18, Zenon DEF RemoveReserve, V
  <2>2. Softs(x)
    BY SoftRemove
  <2> HIDE DEF x, err, known
  <2> QED
    BY <1>7, <2>1, <2>2
<1>19. ASSUME NEW r, InvestSingle(r) PROVE OnCourse(chain', plan', view')
  <2> DEFINE x == investSingleReserveIxs(V, User, r)
             err == ""
  <2>1. Ask("investOne", Zero, err, <<x>>)
    BY <1>19, Zenon DEF InvestSingle, V
  <2>2. Softs(x)
    BY SoftInvestOne
  <2> HIDE DEF x, err, known
  <2> QED
    BY <1>7, <2>1, <2>2
<1>20. ASSUME NEW f, SetFarm(f) PROVE OnCourse(chain', plan', view')
  <2> DEFINE o == setVaultFarmIxs(V, chain.tables, f, TRUE, Farms)
  <2>1. AskOne("farm", Zero, o)
    BY <1>20 DEF SetFarm, V
  <2>2. Gentle(o)
    BY SoftFarm
  <2> HIDE DEF o, known
  <2> QED
    BY <1>5, <2>1, <2>2
<1>21. ASSUME NEW x, Deposit(x) PROVE OnCourse(chain', plan', view')
  <2> DEFINE o == depositIxs(V, User, x, WrappedSol, Farms, User \in chain.stakers)
  <2>1. AskOne("deposit", x, o)
    BY <1>21 DEF Deposit, V
  <2>2. Gentle(o)
    BY SoftDeposit
  <2> HIDE DEF o, known
  <2> QED
    BY <1>5, <2>1, <2>2
<1>22. ASSUME NEW x, GiveUp(x) PROVE OnCourse(chain', plan', view')
  <2> DEFINE o == giveUpPendingFeesIx(V, x)
  <2>1. AskOne("giveUp", x, o)
    BY <1>22 DEF GiveUp, V
  <2>2. Gentle(o)
    BY SoftGiveUp
  <2> HIDE DEF o, known
  <2> QED
    BY <1>5, <2>1, <2>2
<1>23. ASSUME NEW x, Withdraw(x) PROVE OnCourse(chain', plan', view')
  <2> DEFINE o == withdrawIxs(V, chain.market, User, x, chain.slot, chain.slot, Farms)
  <2>1. AskOne("withdraw", x, o)
    BY <1>23 DEF Withdraw, V
  <2>2. AtRest(chain, V) => Gentle(o)
    BY SoftWithdraw DEF AtRest
  <2> HIDE DEF o, known
  <2> QED
    BY <1>5, <2>1, <2>2
<1>24. ASSUME NEW r, OthersBorrow(r) PROVE OnCourse(chain', plan', view')
  <2>1. clean' = clean /\ plan' = plan /\ view' = view
    BY <1>24 DEF OthersBorrow
  <2>2. Shape(chain)
    BY <1>1, <2>1 DEF OnCourse
  <2>3. Calm(chain, chain')
    BY <1>24, <2>2, LoanCalm DEF OthersBorrow
  <2> QED
    BY <1>1, <2>1, <2>3, CalmOnCourse
<1>25. CASE Land
  <2> DEFINE e == Executed(chain, Head(plan))
  <2>1. /\ plan # <<>> /\ view' = view /\ clean /\ e.ok
        /\ chain' = e.c /\ plan' = Tail(plan)
    BY <1>25 DEF Land
  <2> QED
    BY <1>1, <2>1, Lands
<1>26. CASE Lose
  BY <1>26 DEF Lose
<1>27. CASE Tick
  <2>1. clean' = clean /\ plan' = plan /\ view' = view /\ chain' = [chain EXCEPT !.slot = chain.slot + 1]
    BY <1>27 DEF Tick
  <2>2. Shape(chain)
    BY <1>1, <2>1 DEF OnCourse
  <2>3. Calm(chain, chain')
    BY <2>1, <2>2, TickCalm
  <2> QED
    BY <1>1, <2>1, <2>3, CalmOnCourse
<1>28. CASE UNCHANGED vars
  BY <1>1, <1>28 DEF vars
<1> QED
  BY <1>8, <1>9, <1>10, <1>11, <1>12, <1>13, <1>14, <1>15, <1>16, <1>17, <1>18, <1>19, <1>20,
     <1>21, <1>22, <1>23, <1>24, <1>25, <1>26, <1>27, <1>28 DEF Next

\* As long as no transaction is refused or lost, the vault's lookup table belongs to its
\* administrator and holds their account and those of every reserve of the allocation,
\* whatever is asked for, by whichever state of the vault the client had kept, and across
\* changes of administrator: for all chains to start from, amounts, allocations and farms.
THEOREM TableKept == Spec => []TableFollowsVault
<1>1. CourseInv => TableFollowsVault
  <2> SUFFICES ASSUME CourseInv, clean, plan = <<>> PROVE TableServes(chain)
    BY DEF TableFollowsVault
  <2> QED
    BY OnCourseRest DEF CourseInv
<1> QED
  BY <1>1, CourseInit, CourseStep, PTL DEF Spec

=============================================================================
