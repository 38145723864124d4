------------------------------ MODULE FatProofs ------------------------------
(***************************************************************************)
(* Proofs about the FAT volume: whatever the calls of the tasks do, chunk  *)
(* by chunk, each cluster in use has one owner and each file is found      *)
(* under its name, and the bytes of a file are a row, as Files promises,   *)
(* for volumes of any size.                                                *)
(***************************************************************************)
EXTENDS Fat, FiniteSetTheorems, NaturalsInduction, TLAPS

-----------------------------------------------------------------------------
(* Cluster chains, for every table of links F.                             *)

Link == Cluster \cup {Free, kEndOfClusterchain}

(* NextCluster and Behind of the table F.                                  *)
After(F, c) == IF c \in Cluster THEN F[c] ELSE kEndOfClusterchain

Walk(F, c, n) ==
  LET at[k \in Nat] == IF k = 0 THEN c ELSE After(F, at[k - 1])
  IN  at[n]

LEMMA BehindWalks == \A c, n : Behind(c, n) = Walk(fat, c, n)
BY DEF Behind, Walk, NextCluster, After

LEMMA LinkFacts ==
  /\ Clusters \in Nat /\ Free = 0 /\ kEndOfClusterchain \in Nat
  /\ Cluster \subseteq Nat /\ Free \notin Cluster /\ kEndOfClusterchain \notin Cluster
  /\ Free # kEndOfClusterchain /\ Directory \subseteq Cluster
BY ClustersAssumption, DirectoryAssumption DEF Cluster, Free, kEndOfClusterchain

LEMMA Induction ==
  ASSUME NEW T \in SUBSET Nat, 0 \in T, \A n \in T : n + 1 \in T
  PROVE  T = Nat
<1> DEFINE U == Nat \ T
           Less == {ss \in Nat \X Nat : ss[1] < ss[2]}
<1> SUFFICES ASSUME U # {}
             PROVE  FALSE
  OBVIOUS
<1>1. IsWellFoundedOn(Less, Nat)
  BY NatLessThanWellFounded DEF OpToRel
<1>2. U \in SUBSET Nat
  OBVIOUS
<1>3. PICK x \in U : \A y \in U : ~(<<y, x>> \in Less)
  BY <1>1, <1>2, WFMin
<1>4. x # 0 /\ x \in Nat
  OBVIOUS
<1>5. x - 1 \in Nat /\ x = (x - 1) + 1 /\ <<x - 1, x>> \in Less
  BY <1>4
<1>6. x - 1 \in T
  BY <1>3, <1>5
<1> QED
  BY <1>5, <1>6

LEMMA Predecessor == \A n \in Nat : n # 0 => \E m \in Nat : n = m + 1
<1> SUFFICES ASSUME NEW n \in Nat, n # 0 PROVE \E m \in Nat : n = m + 1 OBVIOUS
<1>1. n - 1 \in Nat /\ n = (n - 1) + 1 OBVIOUS
<1> QED BY <1>1

LEMMA LeastNat ==
  ASSUME NEW T \in SUBSET Nat, T # {}
  PROVE  \E x \in T : \A y \in T : x <= y
<1> DEFINE Less == {ss \in Nat \X Nat : ss[1] < ss[2]}
<1>1. IsWellFoundedOn(Less, Nat)
  BY NatLessThanWellFounded DEF OpToRel
<1>2. PICK x \in T : \A y \in T : ~(<<y, x>> \in Less)
  BY <1>1, WFMin
<1>3. ASSUME NEW y \in T PROVE x <= y
  <2>1. x \in Nat /\ y \in Nat /\ ~(<<y, x>> \in Less) BY <1>2
  <2> QED BY <2>1
<1> QED
  BY <1>3

(* The recursion of Behind has a function: each initial part of it exists, *)
(* and they agree.                                                         *)
LEMMA WalkExists ==
  ASSUME NEW F, NEW c
  PROVE  \E f : f = [k \in Nat |-> IF k = 0 THEN c ELSE After(F, f[k - 1])]
<1> DEFINE IsPart(f, n) ==
             /\ f[0] = c
             /\ \A k \in 1 .. n : f[k] = After(F, f[k - 1])
           T == {n \in Nat : \E f : IsPart(f, n)}
           V == {n \in Nat : \A f, g, m : m \in Nat /\ n <= m /\ IsPart(f, n) /\ IsPart(g, m) => f[n] = g[n]}
<1>1. T = Nat
  <2>1. 0 \in T
    <3>1. IsPart([k \in {0} |-> c], 0) OBVIOUS
    <3> HIDE DEF IsPart
    <3> QED BY <3>1
  <2>2. ASSUME NEW n \in T PROVE n + 1 \in T
    <3>1. PICK f : IsPart(f, n) BY <2>2
    <3> DEFINE g == [k \in 0 .. n + 1 |-> IF k = n + 1 THEN After(F, f[n]) ELSE f[k]]
    <3>2. n \in Nat /\ g[0] = c BY <3>1
    <3>3. ASSUME NEW k \in 1 .. n + 1 PROVE g[k] = After(F, g[k - 1])
      <4>1. CASE k = n + 1
        <5>1. g[k - 1] = f[n] BY <3>2, <4>1
        <5> QED BY <4>1, <5>1
      <4>2. CASE k # n + 1
        <5>1. k \in 1 .. n /\ g[k] = f[k] /\ g[k - 1] = f[k - 1] BY <3>2, <4>2
        <5> QED BY <3>1, <5>1
      <4> QED BY <4>1, <4>2
    <3>4. IsPart(g, n + 1) BY <3>2, <3>3
    <3> HIDE DEF IsPart, g
    <3>5. \E h : IsPart(h, n + 1) BY <3>4
    <3> QED BY <3>2, <3>5
  <2>3. T \in SUBSET Nat OBVIOUS
  <2> HIDE DEF T
  <2> QED BY <2>1, <2>2, <2>3, Induction
<1>2. V = Nat
  <2>1. 0 \in V OBVIOUS
  <2>2. ASSUME NEW n \in V PROVE n + 1 \in V
    <3>1. n \in Nat /\ n + 1 \in Nat BY <2>2
    <3>2. ASSUME NEW f, NEW g, NEW m \in Nat, n + 1 <= m, IsPart(f, n + 1), IsPart(g, m)
          PROVE  f[n + 1] = g[n + 1]
      <4>1. n <= m /\ IsPart(f, n) BY <3>1, <3>2
      <4>2. f[n] = g[n]
        <5> HIDE DEF IsPart
        <5> QED BY <2>2, <3>2, <4>1
      <4>3. n + 1 \in 1 .. n + 1 /\ n + 1 \in 1 .. m /\ (n + 1) - 1 = n BY <3>1, <3>2
      <4>4. f[n + 1] = After(F, f[n]) /\ g[n + 1] = After(F, g[n]) BY <3>2, <4>3
      <4> QED BY <4>2, <4>4
    <3> HIDE DEF IsPart
    <3> QED BY <3>1, <3>2
  <2>3. V \in SUBSET Nat OBVIOUS
  <2> HIDE DEF V
  <2> QED BY <2>1, <2>2, <2>3, Induction
<1> DEFINE P(n) == CHOOSE f : IsPart(f, n)
           h == [n \in Nat |-> P(n)[n]]
<1>3. \A n \in Nat : IsPart(P(n), n)
  <2>1. ASSUME NEW n \in Nat PROVE IsPart(P(n), n)
    <3>1. \E f : IsPart(f, n) BY <1>1
    <3> HIDE DEF IsPart
    <3> QED BY <3>1
  <2> QED BY <2>1
<1>4. h[0] = c BY <1>3
<1>5. ASSUME NEW n \in Nat PROVE h[n + 1] = After(F, h[n])
  <2>1. n + 1 \in Nat /\ n <= n + 1 /\ n + 1 \in 1 .. n + 1 /\ (n + 1) - 1 = n OBVIOUS
  <2>2. IsPart(P(n), n) /\ IsPart(P(n + 1), n + 1) BY <1>3, <2>1
  <2>3. P(n)[n] = P(n + 1)[n]
    <3> HIDE DEF IsPart, P
    <3> QED BY <1>2, <2>1, <2>2
  <2>4. P(n + 1)[n + 1] = After(F, P(n + 1)[n]) BY <2>1, <2>2
  <2> HIDE DEF P
  <2> QED BY <2>1, <2>3, <2>4
<1>6. ASSUME NEW k \in Nat PROVE h[k] = IF k = 0 THEN c ELSE After(F, h[k - 1])
  <2>1. CASE k = 0 BY <1>4, <2>1
  <2>2. CASE k # 0
    <3>1. PICK n \in Nat : k = n + 1 /\ k - 1 = n BY <2>2
    <3> HIDE DEF h
    <3> QED BY <1>5, <2>2, <3>1
  <2> QED BY <2>1, <2>2
<1>7. h = [k \in Nat |-> IF k = 0 THEN c ELSE After(F, h[k - 1])]
  <2>1. h = [k \in Nat |-> h[k]] OBVIOUS
  <2> HIDE DEF h
  <2> QED BY <1>6, <2>1
<1> HIDE DEF h
<1> QED BY <1>7

LEMMA WalkIs ==
  ASSUME NEW F, NEW c
  PROVE  /\ Walk(F, c, 0) = c
         /\ \A n \in Nat : Walk(F, c, n + 1) = After(F, Walk(F, c, n))
<1> DEFINE at == CHOOSE f : f = [k \in Nat |-> IF k = 0 THEN c ELSE After(F, f[k - 1])]
<1>1. at = [k \in Nat |-> IF k = 0 THEN c ELSE After(F, at[k - 1])]
  BY WalkExists
<1>2. \A n : Walk(F, c, n) = at[n]
  BY DEF Walk
<1> HIDE DEF at
<1>3. at[0] = c BY <1>1
<1>4. ASSUME NEW n \in Nat PROVE at[n + 1] = After(F, at[n])
  <2>1. n + 1 \in Nat /\ n + 1 # 0 /\ (n + 1) - 1 = n OBVIOUS
  <2> QED BY <1>1, <2>1
<1> QED BY <1>2, <1>3, <1>4

LEMMA WalkType ==
  ASSUME NEW F \in [Cluster -> Link], NEW c \in Link, NEW n \in Nat
  PROVE  Walk(F, c, n) \in Link
<1> DEFINE T == {k \in Nat : Walk(F, c, k) \in Link}
<1>1. 0 \in T /\ T \in SUBSET Nat BY WalkIs
<1>2. ASSUME NEW k \in T PROVE k + 1 \in T
  <2>1. k \in Nat /\ Walk(F, c, k) \in Link BY <1>2
  <2>2. Walk(F, c, k + 1) = After(F, Walk(F, c, k)) BY <2>1, WalkIs
  <2>3. After(F, Walk(F, c, k)) \in Link BY <2>1 DEF After, Link
  <2> QED BY <2>1, <2>2, <2>3
<1> HIDE DEF T
<1>3. T = Nat BY <1>1, <1>2, Induction
<1> QED BY <1>3 DEF T

(* Behind the end is the end.                                              *)
LEMMA WalkEnds ==
  ASSUME NEW F, NEW c, NEW n \in Nat, NEW m \in Nat, n < m, Walk(F, c, n) \notin Cluster
  PROVE  Walk(F, c, m) = kEndOfClusterchain
<1> DEFINE T == {k \in Nat : Walk(F, c, n + 1 + k) = kEndOfClusterchain}
<1>1. Walk(F, c, n + 1) = kEndOfClusterchain BY WalkIs DEF After
<1>2. 0 \in T /\ T \in SUBSET Nat
  <2>1. n + 1 + 0 = n + 1 OBVIOUS
  <2> QED BY <1>1, <2>1
<1>3. ASSUME NEW k \in T PROVE k + 1 \in T
  <2>1. k \in Nat /\ Walk(F, c, n + 1 + k) = kEndOfClusterchain BY <1>3
  <2>2. PICK j \in Nat : j = n + 1 + k /\ n + 1 + (k + 1) = j + 1 BY <2>1
  <2>3. Walk(F, c, j + 1) = After(F, Walk(F, c, j)) BY <2>2, WalkIs
  <2>4. After(F, Walk(F, c, j)) = kEndOfClusterchain BY <2>1, <2>2, LinkFacts DEF After
  <2> QED BY <2>1, <2>2, <2>3, <2>4
<1> HIDE DEF T
<1>4. T = Nat BY <1>2, <1>3, Induction
<1>5. m - (n + 1) \in Nat /\ n + 1 + (m - (n + 1)) = m OBVIOUS
<1> QED BY <1>4, <1>5 DEF T

LEMMA WalkStarts ==
  ASSUME NEW F, NEW c, NEW n \in Nat, NEW m \in 0 .. n, Walk(F, c, n) \in Cluster
  PROVE  Walk(F, c, m) \in Cluster
<1>1. CASE m = n BY <1>1
<1>2. CASE m # n
  <2>1. m \in Nat /\ m < n BY <1>2
  <2> QED BY <2>1, WalkEnds, LinkFacts
<1> QED BY <1>1, <1>2

-----------------------------------------------------------------------------
(* The clusters in use are chains that begin at the clusters A, each       *)
(* exactly once.                                                           *)
Owned(F, A) ==
  /\ F \in [Cluster -> Link] /\ A \subseteq Cluster
  /\ \A c \in Cluster : F[c] # Free <=> (c \in A \/ \E b \in Cluster : F[b] = c)
  /\ \A b, c \in Cluster : F[b] = F[c] /\ F[b] \in Cluster => b = c
  /\ \A b \in Cluster : F[b] \in Cluster => F[b] \notin A

(* A cluster is at one place of one chain.                                 *)
LEMMA WalkOnce ==
  ASSUME NEW F, NEW A, Owned(F, A), NEW a \in A, NEW b \in A, NEW j \in Nat, NEW k \in Nat,
         Walk(F, a, j) = Walk(F, b, k), Walk(F, a, j) \in Cluster
  PROVE  a = b /\ j = k
<1> DEFINE Agree(i) == \A m \in Nat, d \in A :
             Walk(F, a, i) = Walk(F, d, m) /\ Walk(F, a, i) \in Cluster => a = d /\ i = m
           T == {i \in Nat : Agree(i)}
<1>1. \A d \in A : Walk(F, d, 0) = d BY WalkIs
<1>2. ASSUME NEW d \in A, NEW m \in Nat, Walk(F, d, m + 1) \in Cluster
      PROVE  /\ Walk(F, d, m) \in Cluster /\ Walk(F, d, m + 1) = F[Walk(F, d, m)]
             /\ Walk(F, d, m + 1) \notin A
  <2>1. Walk(F, d, m + 1) = After(F, Walk(F, d, m)) BY WalkIs
  <2>2. Walk(F, d, m) \in Cluster BY <1>2, <2>1, LinkFacts DEF After
  <2> QED BY <1>2, <2>1, <2>2 DEF After, Owned
<1>3. 0 \in T
  <2> SUFFICES ASSUME NEW m \in Nat, NEW d \in A, Walk(F, a, 0) = Walk(F, d, m),
                      Walk(F, a, 0) \in Cluster
               PROVE  a = d /\ 0 = m
    OBVIOUS
  <2>1. CASE m = 0 BY <1>1, <2>1
  <2>2. CASE m # 0
    <3>1. PICK i \in Nat : m = i + 1 BY <2>2, Predecessor
    <3>2. Walk(F, d, i + 1) \in Cluster BY <3>1
    <3>3. Walk(F, d, i + 1) \notin A BY <1>2, <3>2
    <3> QED BY <1>1, <3>1, <3>3
  <2> QED BY <2>1, <2>2
<1>4. ASSUME NEW i \in T PROVE i + 1 \in T
  <2>0. i \in Nat /\ i + 1 \in Nat /\ Agree(i) BY <1>4
  <2> SUFFICES ASSUME NEW m \in Nat, NEW d \in A, Walk(F, a, i + 1) = Walk(F, d, m),
                      Walk(F, a, i + 1) \in Cluster
               PROVE  a = d /\ i + 1 = m
    BY <2>0
  <2>1. /\ Walk(F, a, i) \in Cluster /\ Walk(F, a, i + 1) = F[Walk(F, a, i)]
        /\ Walk(F, a, i + 1) \notin A
    BY <1>2, <2>0
  <2>2. m # 0 BY <1>1, <2>1
  <2>3. PICK l \in Nat : m = l + 1 BY <2>2, Predecessor
  <2>4. Walk(F, d, l) \in Cluster /\ Walk(F, d, l + 1) = F[Walk(F, d, l)]
    <3>1. Walk(F, d, l + 1) \in Cluster BY <2>3
    <3> QED BY <1>2, <3>1
  <2>5. Walk(F, a, i) = Walk(F, d, l) BY <2>1, <2>3, <2>4 DEF Owned
  <2>6. a = d /\ i = l BY <2>0, <2>1, <2>5
  <2> QED BY <2>3, <2>6
<1>5. T = Nat
  <2>1. T \in SUBSET Nat OBVIOUS
  <2> HIDE DEF T
  <2> QED BY <1>3, <1>4, <2>1, Induction
<1>6. Agree(j) BY <1>5
<1> QED BY <1>6

(* So it has no more places than the volume has clusters.                  *)
LEMMA WalkBound ==
  ASSUME NEW F, NEW A, Owned(F, A), NEW a \in A, NEW n \in Nat, Walk(F, a, n) \in Cluster
  PROVE  n < Clusters
<1> DEFINE f == [k \in 0 .. n |-> Walk(F, a, k)]
<1>1. f \in [0 .. n -> Cluster]
  <2>1. \A k \in 0 .. n : Walk(F, a, k) \in Cluster BY WalkStarts
  <2> QED BY <2>1
<1>2. \A k, l \in 0 .. n : f[k] = f[l] => k = l
  <2>1. ASSUME NEW k \in 0 .. n, NEW l \in 0 .. n, Walk(F, a, k) = Walk(F, a, l) PROVE k = l
    <3>1. k \in Nat /\ l \in Nat /\ Walk(F, a, k) \in Cluster BY WalkStarts
    <3> QED BY <2>1, <3>1, WalkOnce
  <2> QED BY <2>1
<1>3. IsFiniteSet(Cluster) /\ Cardinality(Cluster) = Clusters
  BY ClustersAssumption, FS_Interval DEF Cluster
<1>4. IsFiniteSet(0 .. n) /\ Cardinality(0 .. n) = n + 1
  BY FS_Interval
<1>5. f \in Injection(0 .. n, Cluster)
  <2> HIDE DEF f
  <2> QED BY <1>1, <1>2 DEF Injection, IsInjective
<1> HIDE DEF f
<1>6. Cardinality(0 .. n) <= Cardinality(Cluster)
  BY <1>3, <1>5, FS_Injection
<1> QED BY <1>3, <1>4, <1>6, ClustersAssumption

(* Nothing in a chain is free.                                             *)
LEMMA WalkUsed ==
  ASSUME NEW F, NEW A, Owned(F, A), NEW a \in A, NEW n \in Nat
  PROVE  /\ Walk(F, a, n) \in Cluster \cup {kEndOfClusterchain}
         /\ Walk(F, a, n) \in Cluster => F[Walk(F, a, n)] # Free
<1> DEFINE T == {k \in Nat : /\ Walk(F, a, k) \in Cluster \cup {kEndOfClusterchain}
                             /\ Walk(F, a, k) \in Cluster => F[Walk(F, a, k)] # Free}
<1>1. 0 \in T
  <2>1. Walk(F, a, 0) = a BY WalkIs
  <2>2. a \in Cluster /\ F[a] # Free BY DEF Owned
  <2> QED BY <2>1, <2>2
<1>2. ASSUME NEW k \in T PROVE k + 1 \in T
  <2>1. PICK c : c = Walk(F, a, k) OBVIOUS
  <2>2. k \in Nat /\ c \in Cluster \cup {kEndOfClusterchain} /\ (c \in Cluster => F[c] # Free)
    BY <2>1
  <2>3. Walk(F, a, k + 1) = After(F, c) BY <2>1, <2>2, WalkIs
  <2>4. CASE c \in Cluster
    <3>1. F[c] \in Cluster \cup {kEndOfClusterchain} BY <2>2, <2>4 DEF Owned, Link
    <3>2. F[c] \in Cluster => F[F[c]] # Free BY <2>4 DEF Owned
    <3>3. After(F, c) = F[c] BY <2>4 DEF After
    <3> QED BY <2>2, <2>3, <3>1, <3>2, <3>3
  <2>5. CASE c \notin Cluster
    <3>1. After(F, c) = kEndOfClusterchain BY <2>5 DEF After
    <3> QED BY <2>2, <2>3, <3>1, LinkFacts
  <2> QED BY <2>4, <2>5
<1>3. T \in SUBSET Nat OBVIOUS
<1> HIDE DEF T
<1>4. T = Nat BY <1>1, <1>2, <1>3, Induction
<1> QED BY <1>4 DEF T

-----------------------------------------------------------------------------
(* AllocateClusterChain and ExtendCluster: G is F with the n free clusters *)
(* s in a row, behind the end w of a chain or, if w is 0, as a new one.    *)
Appended(F, G, w, s, n) ==
  /\ F \in [Cluster -> Link] /\ G \in [Cluster -> Link]
  /\ n \in Nat \ {0} /\ s \in [1 .. n -> Cluster]
  /\ \A i \in 1 .. n : F[s[i]] = Free
  /\ \A i, j \in 1 .. n : s[i] = s[j] => i = j
  /\ \A i \in 1 .. n : G[s[i]] = IF i = n THEN kEndOfClusterchain ELSE s[i + 1]
  /\ w \in Cluster \cup {0}
  /\ w # 0 => F[w] = kEndOfClusterchain /\ G[w] = s[1]
  /\ \A c \in Cluster : c # w /\ (\A i \in 1 .. n : s[i] # c) => G[c] = F[c]

LEMMA LinkedIs ==
  ASSUME fat \in [Cluster -> Link], NEW n \in Nat \ {0}, NEW s \in FreeClusters(n)
  PROVE  Appended(fat, Linked(s), 0, s, n)
<1>1. s \in [1 .. n -> {c \in Cluster : fat[c] = Free}] BY DEF FreeClusters
<1>2. s \in Seq(Cluster) /\ Len(s) = n /\ DOMAIN s = 1 .. n BY <1>1
<1>3. ASSUME NEW i \in 1 .. n, NEW j \in 1 .. n, s[i] = s[j] PROVE i = j
  <2>1. s[i] \in Nat /\ s[j] \in Nat BY <1>1, LinkFacts
  <2>2. i < j => s[i] < s[j] BY DEF FreeClusters
  <2>3. j < i => s[j] < s[i] BY DEF FreeClusters
  <2> QED BY <1>3, <2>1, <2>2, <2>3
<1> DEFINE G == Linked(s)
<1>4. ASSUME NEW i \in 1 .. n
      PROVE  G[s[i]] = IF i = n THEN kEndOfClusterchain ELSE s[i + 1]
  <2>1. s[i] \in Cluster BY <1>1
  <2>2. PICK j : j = CHOOSE m \in DOMAIN s : s[m] = s[i] OBVIOUS
  <2>3. j = i BY <1>2, <1>3, <2>2
  <2>4. G[s[i]] = IF j = n THEN kEndOfClusterchain ELSE s[j + 1] BY <1>2, <2>1, <2>2 DEF Linked
  <2> QED BY <2>3, <2>4
<1>5. ASSUME NEW c \in Cluster, \A i \in 1 .. n : s[i] # c PROVE G[c] = fat[c]
  BY <1>2, <1>5 DEF Linked
<1>6. G = [c \in Cluster |-> G[c]] BY DEF Linked
<1>7. ASSUME NEW c \in Cluster PROVE G[c] \in Link
  <2>1. CASE \A i \in 1 .. n : s[i] # c BY <1>5, <2>1
  <2>2. CASE \E i \in 1 .. n : s[i] = c
    <3>1. PICK i \in 1 .. n : s[i] = c BY <2>2
    <3>2. G[c] = IF i = n THEN kEndOfClusterchain ELSE s[i + 1] BY <1>4, <3>1
    <3>3. i # n => i + 1 \in 1 .. n OBVIOUS
    <3>4. i # n => s[i + 1] \in Cluster BY <1>1, <3>3
    <3> QED BY <3>2, <3>4 DEF Link
  <2> QED BY <2>1, <2>2
<1> HIDE DEF G
<1>8. G \in [Cluster -> Link] BY <1>6, <1>7
<1> QED BY <1>1, <1>3, <1>4, <1>5, <1>8, LinkFacts DEF Appended, G

LEMMA ExtendClusterIs ==
  ASSUME fat \in [Cluster -> Link], NEW n \in Nat \ {0}, NEW s \in FreeClusters(n),
         NEW w \in Cluster, fat[w] = kEndOfClusterchain
  PROVE  Appended(fat, ExtendCluster(w, s), w, s, n)
<1>1. PICK L : L = Linked(s) OBVIOUS
<1>2. Appended(fat, L, 0, s, n) BY <1>1, LinkedIs
<1>3. L \in [Cluster -> Link] /\ s \in [1 .. n -> Cluster] /\ 1 \in 1 .. n BY <1>2 DEF Appended
<1>4. \A i \in 1 .. n : s[i] # w BY <1>2, LinkFacts DEF Appended
<1>5. PICK G : G = [L EXCEPT ![w] = s[1]] OBVIOUS
<1>6. G \in [Cluster -> Link] /\ G[w] = s[1] /\ \A c \in Cluster : c # w => G[c] = L[c]
  <2>1. s[1] \in Link BY <1>3 DEF Link
  <2> QED BY <1>3, <1>5, <2>1
<1>7. Appended(fat, G, w, s, n)
  <2>1. \A i \in 1 .. n : G[s[i]] = IF i = n THEN kEndOfClusterchain ELSE s[i + 1]
    <3>1. \A i \in 1 .. n : s[i] \in Cluster /\ G[s[i]] = L[s[i]] BY <1>3, <1>4, <1>6
    <3> QED BY <1>2, <3>1 DEF Appended
  <2>2. \A c \in Cluster : c # w /\ (\A i \in 1 .. n : s[i] # c) => G[c] = fat[c]
    BY <1>2, <1>6, LinkFacts DEF Appended
  <2> QED BY <1>2, <1>6, <2>1, <2>2 DEF Appended
<1> QED BY <1>1, <1>5, <1>7 DEF ExtendCluster

(* The clusters between which the new ones are linked.                     *)
LEMMA AppendFacts ==
  ASSUME NEW F, NEW G, NEW w, NEW s, NEW n, Appended(F, G, w, s, n)
  PROVE  /\ \A c \in Cluster : F[c] # Free /\ c # w => G[c] = F[c]
         /\ \A c \in Cluster : F[c] = Free => c # w /\ (G[c] = Free \/ \E i \in 1 .. n : s[i] = c)
         /\ \A i \in 1 .. n : G[s[i]] # Free /\ s[i] # w /\ s[i] \in Cluster
         /\ 1 \in 1 .. n /\ n \in 1 .. n
<1>1. \A i \in 1 .. n : s[i] # w BY LinkFacts DEF Appended
<1>2. ASSUME NEW i \in 1 .. n PROVE G[s[i]] # Free
  <2>1. i # n => i + 1 \in 1 .. n BY DEF Appended
  <2>2. i # n => s[i + 1] \in Cluster BY <2>1 DEF Appended
  <2> QED BY <2>2, LinkFacts DEF Appended
<1>3. \A c \in Cluster : F[c] = Free => c # w BY LinkFacts DEF Appended
<1>4. 1 \in 1 .. n /\ n \in 1 .. n BY DEF Appended
<1>5. \A c \in Cluster : F[c] # Free => \A i \in 1 .. n : s[i] # c BY DEF Appended
<1>6. \A i \in 1 .. n : s[i] \in Cluster BY DEF Appended
<1>7. \A c \in Cluster : F[c] # Free /\ c # w => G[c] = F[c] BY <1>5 DEF Appended
<1>8. \A c \in Cluster : F[c] = Free => G[c] = Free \/ \E i \in 1 .. n : s[i] = c
  BY <1>3 DEF Appended
<1> QED BY <1>1, <1>2, <1>3, <1>4, <1>6, <1>7, <1>8

(* The clusters appended have one owner again.                             *)
LEMMA AppendOwned ==
  ASSUME NEW F, NEW G, NEW w, NEW s, NEW n, Appended(F, G, w, s, n),
         NEW A, Owned(F, A), NEW B, B = IF w = 0 THEN A \cup {s[1]} ELSE A
  PROVE  Owned(G, B)
<1>0. /\ F \in [Cluster -> Link] /\ G \in [Cluster -> Link] /\ A \subseteq Cluster
      /\ s \in [1 .. n -> Cluster] /\ 1 \in 1 .. n /\ n \in Nat
  BY AppendFacts DEF Appended, Owned
<1>1. B \subseteq Cluster /\ A \subseteq B BY <1>0
<1> DEFINE New(c) == \E i \in 1 .. n : s[i] = c
<1>2. ASSUME NEW c \in Cluster, New(c)
      PROVE  F[c] = Free /\ G[c] # Free /\ c \notin A /\ (\A b \in Cluster : F[b] # c)
  <2>1. PICK i \in 1 .. n : s[i] = c BY <1>2
  <2>2. F[c] = Free BY <2>1 DEF Appended
  <2> QED BY <2>1, <2>2, AppendFacts DEF Owned
<1>3. ASSUME NEW i \in 1 .. n, i # n PROVE i + 1 \in 1 .. n /\ G[s[i]] = s[i + 1]
  BY <1>0, <1>3 DEF Appended
<1>4. ASSUME NEW i \in 1 .. n, i # 1
      PROVE  i - 1 \in 1 .. n /\ s[i - 1] \in Cluster /\ G[s[i - 1]] = s[i]
  <2>1. i - 1 \in 1 .. n /\ i - 1 # n /\ (i - 1) + 1 = i BY <1>0, <1>4
  <2> QED BY <1>0, <2>1 DEF Appended
\* Who points to a cluster: its predecessor in s, w, or who did before.
<1>5. ASSUME NEW b \in Cluster, G[b] \in Cluster
      PROVE  \/ \E i \in 1 .. n : i # n /\ b = s[i] /\ G[b] = s[i + 1]
             \/ w # 0 /\ b = w /\ G[b] = s[1]
             \/ ~New(b) /\ b # w /\ G[b] = F[b]
  <2>1. CASE New(b)
    <3>1. PICK i \in 1 .. n : s[i] = b BY <2>1
    <3>2. i # n BY <1>5, <3>1, LinkFacts DEF Appended
    <3> QED BY <1>3, <3>1, <3>2
  <2>2. CASE ~New(b) /\ b = w BY <2>2, LinkFacts DEF Appended
  <2>3. CASE ~New(b) /\ b # w BY <2>3 DEF Appended
  <2> QED BY <2>1, <2>2, <2>3
<1>6. ASSUME NEW c \in Cluster, G[c] # Free PROVE c \in B \/ \E b \in Cluster : G[b] = c
  <2>1. CASE New(c)
    <3>1. PICK i \in 1 .. n : s[i] = c BY <2>1
    <3>2. CASE i # 1 BY <1>4, <3>1, <3>2
    <3>3. CASE i = 1 /\ w # 0 BY <3>1, <3>3 DEF Appended
    <3>4. CASE i = 1 /\ w = 0 BY <3>1, <3>4
    <3> QED BY <3>2, <3>3, <3>4
  <2>2. CASE ~New(c)
    <3>1. F[c] # Free BY <1>6, <2>2, AppendFacts
    <3>2. c \in A \/ \E b \in Cluster : F[b] = c BY <3>1 DEF Owned
    <3>3. ASSUME NEW b \in Cluster, F[b] = c PROVE G[b] = c
      <4>1. b # w BY <3>3, LinkFacts DEF Appended
      <4>2. F[b] # Free BY <3>3, LinkFacts
      <4> QED BY <3>3, <4>1, <4>2, AppendFacts
    <3> QED BY <1>1, <3>2, <3>3
  <2> QED BY <2>1, <2>2
<1>7. ASSUME NEW c \in Cluster, c \in A \/ F[c] # Free PROVE G[c] # Free
  <2>1. F[c] # Free BY <1>7 DEF Owned
  <2>2. CASE c = w
    <3>1. G[c] = s[1] BY <2>2, LinkFacts DEF Appended
    <3> QED BY <1>0, <3>1, LinkFacts
  <2>3. CASE c # w BY <2>1, <2>3, AppendFacts
  <2> QED BY <2>2, <2>3
<1>8. ASSUME NEW c \in Cluster, c \in B PROVE G[c] # Free
  <2>1. CASE c \in A BY <1>7, <2>1
  <2>2. CASE c \notin A
    <3>1. c = s[1] BY <1>8, <2>2
    <3> QED BY <1>0, <3>1, AppendFacts
  <2> QED BY <2>1, <2>2
<1>9. ASSUME NEW c \in Cluster, NEW b \in Cluster, G[b] = c PROVE G[c] # Free /\ c \notin B
  <2>1. CASE \E i \in 1 .. n : i # n /\ b = s[i] /\ G[b] = s[i + 1]
    <3>1. PICK i \in 1 .. n : i # n /\ b = s[i] /\ G[b] = s[i + 1] BY <2>1
    <3>2. i + 1 \in 1 .. n /\ c = s[i + 1] BY <1>3, <1>9, <3>1
    <3>3. c # s[1] BY <1>0, <3>2 DEF Appended
    <3>4. c \notin A /\ G[c] # Free BY <1>2, <3>2
    <3> QED BY <3>3, <3>4
  <2>2. CASE w # 0 /\ b = w /\ G[b] = s[1]
    <3>1. New(c) BY <1>0, <1>9, <2>2
    <3> QED BY <1>2, <2>2, <3>1
  <2>3. CASE ~New(b) /\ b # w /\ G[b] = F[b]
    <3>1. F[b] = c BY <1>9, <2>3
    <3>2. F[c] # Free /\ c \notin A BY <3>1 DEF Owned
    <3>3. c # s[1] BY <1>0, <1>2, <3>2
    <3> QED BY <1>7, <3>2, <3>3
  <2> QED BY <1>5, <1>9, <2>1, <2>2, <2>3
<1>10. ASSUME NEW b \in Cluster, NEW c \in Cluster, G[b] = G[c], G[b] \in Cluster PROVE b = c
  <2>0. G[c] \in Cluster BY <1>10
  <2>1. ASSUME NEW x \in Cluster, ~New(x), x # w, G[x] = F[x], G[x] \in Cluster PROVE ~New(G[x])
    BY <1>2, <2>1
  <2>2. ASSUME NEW i \in 1 .. n, i # n PROVE New(s[i + 1]) /\ s[i + 1] # s[1]
    <3>1. i + 1 \in 1 .. n /\ i + 1 # 1 BY <1>0, <2>2
    <3> QED BY <1>0, <3>1 DEF Appended
  <2>3. New(s[1]) BY <1>0
  <2>4. CASE \E i \in 1 .. n : i # n /\ b = s[i] /\ G[b] = s[i + 1]
    <3>1. PICK i \in 1 .. n : i # n /\ b = s[i] /\ G[b] = s[i + 1] BY <2>4
    <3>2. New(G[c]) /\ G[c] # s[1] BY <1>10, <2>2, <3>1
    <3>3. ~(~New(c) /\ c # w /\ G[c] = F[c]) BY <2>0, <2>1, <3>2
    <3>4. PICK j \in 1 .. n : j # n /\ c = s[j] /\ G[c] = s[j + 1] BY <1>5, <2>0, <3>2, <3>3
    <3>5. i + 1 \in 1 .. n /\ j + 1 \in 1 .. n BY <1>3, <3>1, <3>4
    <3>6. i + 1 = j + 1 BY <1>10, <3>1, <3>4, <3>5 DEF Appended
    <3>7. i = j BY <1>0, <3>6
    <3> QED BY <3>1, <3>4, <3>7
  <2>5. CASE w # 0 /\ b = w /\ G[b] = s[1]
    <3>1. G[c] = s[1] BY <1>10, <2>5
    <3>2. ~(~New(c) /\ c # w /\ G[c] = F[c]) BY <2>0, <2>1, <2>3, <3>1
    <3>3. ~ \E i \in 1 .. n : i # n /\ c = s[i] /\ G[c] = s[i + 1] BY <2>2, <3>1
    <3> QED BY <1>5, <2>0, <2>5, <3>2, <3>3
  <2>6. CASE ~New(b) /\ b # w /\ G[b] = F[b]
    <3>1. ~New(G[c]) BY <1>10, <2>1, <2>6
    <3>2. ~New(c) /\ c # w /\ G[c] = F[c] BY <1>5, <2>0, <2>2, <2>3, <3>1
    <3> QED BY <1>10, <2>6, <3>2 DEF Owned
  <2> QED BY <1>5, <1>10, <2>4, <2>5, <2>6
<1>11. \A c \in Cluster : G[c] # Free <=> (c \in B \/ \E b \in Cluster : G[b] = c)
  BY <1>6, <1>8, <1>9
<1>12. \A b \in Cluster : G[b] \in Cluster => G[b] \notin B BY <1>9
<1> QED BY <1>0, <1>1, <1>10, <1>11, <1>12 DEF Owned

(* What a chain has, it keeps.                                             *)
LEMMA AppendKeeps ==
  ASSUME NEW F, NEW G, NEW w, NEW s, NEW n, Appended(F, G, w, s, n),
         NEW A, Owned(F, A), NEW a \in A, NEW k \in Nat, Walk(F, a, k) \in Cluster
  PROVE  Walk(G, a, k) = Walk(F, a, k)
<1> DEFINE T == {i \in Nat : Walk(F, a, i) \in Cluster => Walk(G, a, i) = Walk(F, a, i)}
<1>1. 0 \in T BY WalkIs
<1>2. ASSUME NEW i \in T PROVE i + 1 \in T
  <2>1. i \in Nat /\ i + 1 \in Nat /\ i \in 0 .. i + 1 BY <1>2
  <2> SUFFICES ASSUME Walk(F, a, i + 1) \in Cluster
               PROVE  Walk(G, a, i + 1) = Walk(F, a, i + 1)
    BY <2>1
  <2>2. PICK c : c = Walk(F, a, i) OBVIOUS
  <2>3. c \in Cluster BY <2>1, <2>2, WalkStarts
  <2>4. Walk(G, a, i) = c BY <1>2, <2>2, <2>3
  <2>5. Walk(F, a, i + 1) = F[c] /\ Walk(G, a, i + 1) = G[c]
    <3>1. Walk(F, a, i + 1) = After(F, c) BY <2>1, <2>2, WalkIs
    <3>2. Walk(G, a, i + 1) = After(G, c) BY <2>1, <2>4, WalkIs
    <3> QED BY <2>3, <3>1, <3>2 DEF After
  <2>6. F[c] # Free BY <2>1, <2>2, <2>3, WalkUsed
  <2>7. c # w BY <2>3, <2>5, LinkFacts DEF Appended
  <2> QED BY <2>3, <2>5, <2>6, <2>7, AppendFacts
<1>3. T \in SUBSET Nat OBVIOUS
<1> HIDE DEF T
<1>4. T = Nat BY <1>1, <1>2, <1>3, Induction
<1> QED BY <1>4 DEF T

(* And no other chain changes.                                             *)
LEMMA AppendElsewhere ==
  ASSUME NEW F, NEW G, NEW w, NEW s, NEW n, Appended(F, G, w, s, n),
         NEW A, Owned(F, A), NEW a \in A, \A i \in Nat : Walk(F, a, i) # w, NEW k \in Nat
  PROVE  Walk(G, a, k) = Walk(F, a, k)
<1> DEFINE T == {i \in Nat : Walk(G, a, i) = Walk(F, a, i)}
<1>1. 0 \in T BY WalkIs
<1>2. ASSUME NEW i \in T PROVE i + 1 \in T
  <2>1. PICK c : c = Walk(F, a, i) OBVIOUS
  <2>2. i \in Nat /\ Walk(G, a, i) = c /\ c # w BY <1>2, <2>1
  <2>3. Walk(F, a, i + 1) = After(F, c) /\ Walk(G, a, i + 1) = After(G, c)
    <3>1. Walk(F, a, i + 1) = After(F, Walk(F, a, i)) BY <2>2, WalkIs
    <3>2. Walk(G, a, i + 1) = After(G, Walk(G, a, i)) BY <2>2, WalkIs
    <3> QED BY <2>1, <2>2, <3>1, <3>2
  <2>4. c \in Cluster => F[c] # Free BY <2>1, <2>2, WalkUsed
  <2>5. c \in Cluster => G[c] = F[c] BY <2>2, <2>4, AppendFacts
  <2>6. After(F, c) = After(G, c) BY <2>5 DEF After
  <2> QED BY <2>2, <2>3, <2>6
<1>3. T \in SUBSET Nat OBVIOUS
<1> HIDE DEF T
<1>4. T = Nat BY <1>1, <1>2, <1>3, Induction
<1> QED BY <1>4 DEF T

(* s is a row of the table, and the end of its chain.                      *)
LEMMA AppendRow ==
  ASSUME NEW F, NEW G, NEW w, NEW s, NEW n, Appended(F, G, w, s, n),
         NEW a, NEW m \in Nat, Walk(G, a, m) = s[1]
  PROVE  /\ \A i \in 1 .. n : Walk(G, a, m + i - 1) = s[i]
         /\ Walk(G, a, m + n) = kEndOfClusterchain
<1>0. n \in Nat \ {0} /\ s \in [1 .. n -> Cluster] BY DEF Appended
<1> DEFINE T == {i \in Nat : i < n => Walk(G, a, m + i) = s[i + 1]}
<1>1. 0 \in T BY <1>0
<1>2. ASSUME NEW i \in T PROVE i + 1 \in T
  <2>1. i \in Nat BY <1>2
  <2> SUFFICES ASSUME i + 1 < n PROVE Walk(G, a, m + (i + 1)) = s[(i + 1) + 1]
    BY <2>1
  <2>2. i + 1 \in 1 .. n /\ i + 1 # n /\ i < n BY <1>0, <2>1
  <2>3. Walk(G, a, m + i) = s[i + 1] BY <1>2, <2>2
  <2>4. Walk(G, a, (m + i) + 1) = After(G, s[i + 1])
    <3>1. PICK j \in Nat : j = m + i BY <2>1
    <3>2. Walk(G, a, j + 1) = After(G, Walk(G, a, j)) BY WalkIs
    <3> QED BY <2>3, <3>1, <3>2
  <2>5. After(G, s[i + 1]) = s[(i + 1) + 1] BY <1>0, <2>2 DEF After, Appended
  <2>6. (m + i) + 1 = m + (i + 1) BY <2>1
  <2> QED BY <2>4, <2>5, <2>6
<1>3. T = Nat
  <2>1. T \in SUBSET Nat OBVIOUS
  <2> HIDE DEF T
  <2> QED BY <1>1, <1>2, <2>1, Induction
<1>4. ASSUME NEW i \in 1 .. n PROVE Walk(G, a, m + i - 1) = s[i]
  <2>1. i - 1 \in Nat /\ i - 1 < n /\ (i - 1) + 1 = i /\ m + (i - 1) = m + i - 1 BY <1>0
  <2>2. Walk(G, a, m + (i - 1)) = s[(i - 1) + 1] BY <1>3, <2>1
  <2> QED BY <2>1, <2>2
<1>5. Walk(G, a, m + n) = kEndOfClusterchain
  <2>1. n \in 1 .. n /\ m + n - 1 \in Nat /\ (m + n - 1) + 1 = m + n BY <1>0
  <2>2. Walk(G, a, m + n - 1) = s[n] BY <1>4, <2>1
  <2>3. Walk(G, a, m + n) = After(G, s[n]) BY <2>1, <2>2, WalkIs
  <2> QED BY <1>0, <2>1, <2>3 DEF After, Appended
<1> QED BY <1>4, <1>5

(* Behind the end of a chain comes s.                                      *)
LEMMA AppendAfter ==
  ASSUME NEW F, NEW G, NEW w \in Cluster, NEW s, NEW n, Appended(F, G, w, s, n),
         NEW A, Owned(F, A), NEW a \in A, NEW m \in Nat, Walk(F, a, m) = w
  PROVE  Walk(G, a, m + 1) = s[1]
<1>1. Walk(G, a, m) = w BY AppendKeeps
<1>2. G[w] = s[1] BY LinkFacts DEF Appended
<1>3. Walk(G, a, m + 1) = After(G, Walk(G, a, m)) BY WalkIs
<1> QED BY <1>1, <1>2, <1>3 DEF After

-----------------------------------------------------------------------------
(* Names.                                                                  *)

(* What the entry made for a name holds.                                   *)
CutName(n) == IF n = NoName THEN NoName ELSE SetFileName(n)

(* Who looks for n stops at the entry made for m.                          *)
Hides(m, n) == NameIsEqual(CutName(m), NextPathElement(n))

LEMMA DotPositionIs ==
  ASSUME NEW n \in Seq(Char)
  PROVE  DotPosition(n) \in Nat /\ Len(n) \in Nat
<1>1. Len(n) \in Nat /\ DOMAIN n = 1 .. Len(n) OBVIOUS
<1>2. PICK D : D = Dots(n) OBVIOUS
<1>3. D \subseteq 1 .. Len(n) BY <1>1, <1>2 DEF Dots
<1>4. CASE D = {} BY <1>1, <1>2, <1>4 DEF DotPosition
<1>5. CASE D # {}
  <2> DEFINE T == {k \in Nat : \E i \in D : k = Len(n) - i}
  <2>1. T # {} /\ T \in SUBSET Nat
    <3>1. PICK i \in D : TRUE BY <1>5
    <3>2. Len(n) - i \in T BY <1>1, <1>3, <3>1
    <3> QED BY <3>2
  <2>2. PICK k \in T : \A l \in T : k <= l
    <3> HIDE DEF T
    <3> QED BY <2>1, LeastNat
  <2>3. PICK i \in D : k = Len(n) - i OBVIOUS
  <2>4. ASSUME NEW j \in D PROVE j <= i
    <3>0. j \in 1 .. Len(n) BY <1>3
    <3>1. Len(n) - j \in T
      <4>1. PICK L \in Nat : L = Len(n) BY <1>1
      <4>2. L - j \in Nat BY <3>0, <4>1
      <4> QED BY <4>1, <4>2
    <3>2. k <= Len(n) - j BY <2>2, <3>1
    <3>3. i \in 1 .. Len(n) BY <1>3
    <3> QED BY <1>1, <2>3, <3>0, <3>2, <3>3
  <2>5. \E x \in D : \A y \in D : y <= x BY <2>4
  <2>6. DotPosition(n) = CHOOSE x \in D : \A y \in D : y <= x BY <1>2, <1>5 DEF DotPosition
  <2>7. DotPosition(n) \in D BY <2>5, <2>6
  <2>8. DotPosition(n) \in 1 .. Len(n) BY <1>3, <2>7
  <2> HIDE DEF T
  <2> QED BY <1>1, <2>8
<1> QED BY <1>4, <1>5

LEMMA SetFileNameIs ==
  ASSUME NEW n \in Seq(Char)
  PROVE  SetFileName(n) \in [1 .. 11 -> Char]
<1> DEFINE At(i) == IF i <= 8 THEN i ELSE DotPosition(n) + i - 8
           In(i) == At(i) <= Len(n) /\ (i <= 8 => i < DotPosition(n))
<1>1. ASSUME NEW i \in 1 .. 11, In(i) PROVE Upper[n[At(i)]] \in Char
  <2>1. At(i) \in 1 .. Len(n) BY <1>1, DotPositionIs
  <2>2. n[At(i)] \in Char BY <2>1
  <2> HIDE DEF At
  <2> QED BY <2>2, CharAssumption
<1>2. \A i \in 1 .. 11 : (IF In(i) THEN Upper[n[At(i)]] ELSE Space) \in Char
  BY <1>1, CharAssumption
<1>3. SetFileName(n) = [i \in 1 .. 11 |-> IF In(i) THEN Upper[n[At(i)]] ELSE Space]
  BY DEF SetFileName
<1> HIDE DEF At, In
<1> QED BY <1>2, <1>3

LEMMA CutNameIs ==
  ASSUME NEW n \in Name \cup {NoName}
  PROVE  /\ CutName(n) \in [1 .. 11 -> Char] \cup {NoName}
         /\ CutName(n) = NoName <=> n = NoName
<1>1. CASE n = NoName BY <1>1 DEF CutName
<1>2. CASE n # NoName
  <2>1. n \in Seq(Char) BY <1>2, NameAssumption
  <2>2. SetFileName(n) \in [1 .. 11 -> Char] BY <2>1, SetFileNameIs
  <2> QED BY <1>2, <2>2, NameAssumption DEF CutName
<1> QED BY <1>1, <1>2

(* An 8.3 name is not cut off.                                             *)
LEMMA Finds83 ==
  ASSUME NEW n \in Name, Is83(n)
  PROVE  Hides(n, n)
<1>1. n \in Seq(Char) /\ n # NoName BY NameAssumption
<1>2. DotPosition(n) <= 9 /\ Len(n) <= DotPosition(n) + 3 BY DEF Is83
<1>3. Len(n) <= 12 BY <1>1, <1>2, DotPositionIs
<1>4. NextPathElement(n) = n BY <1>1, <1>3, DotPositionIs DEF NextPathElement
<1> QED BY <1>1, <1>4 DEF Hides, CutName, NameIsEqual

(* Nobody stops at an unused entry because of its name.                    *)
LEMMA HidesIs ==
  ASSUME NEW stored, NEW n \in Name, NameIsEqual(stored, NextPathElement(n))
  PROVE  stored # NoName
<1>1. PICK m : m = NextPathElement(n) OBVIOUS
<1>2. n \in Seq(Char) BY NameAssumption
<1>3. m \in Seq(Char) BY <1>1, <1>2 DEF NextPathElement
<1>4. stored = SetFileName(m) BY <1>1 DEF NameIsEqual
<1>5. stored \in [1 .. 11 -> Char] BY <1>3, <1>4, SetFileNameIs
<1> QED BY <1>5, NameAssumption

-----------------------------------------------------------------------------
(* Volumes: F are the links, N the names the entries were made for and R   *)
(* their first clusters.                                                   *)

StartsOf(R) == {c \in Cluster : c \in Directory \/ \E e \in File : R[e] = c}

(* Each file has a chain of its own, and only files have one.              *)
Roots(N, R) ==
  /\ N \in [File -> Name \cup {NoName}] /\ R \in [File -> Cluster \cup {0}]
  /\ \A e \in File : N[e] = NoName => R[e] = 0
  /\ \A e \in File : R[e] \notin Directory
  /\ \A e, f \in File : R[e] = R[f] /\ R[e] # 0 => e = f

Spot(F, d, p) == <<Walk(F, d, p[1]), p[2]>>

Spots == Nat \X Slot

(* No entry of a directory is behind an unused one or hides one behind it. *)
Scanned(F, N, d) ==
  \A p, q \in Spots :
    Walk(F, d, p[1]) \in Cluster /\ Before(q, p) /\ N[Spot(F, d, p)] # NoName =>
      N[Spot(F, d, q)] # NoName /\ ~Hides(N[Spot(F, d, q)], N[Spot(F, d, p)])

InDirectory(F, c) == \E d \in Directory, k \in Nat : Walk(F, d, k) = c

Scans(F, N) ==
  /\ \A e \in File : N[e] # NoName => InDirectory(F, e[1])
  /\ \A d \in Directory : Scanned(F, N, d)

Volume(F, N, R) == Owned(F, StartsOf(R)) /\ Roots(N, R) /\ Scans(F, N)

LEMMA StartsFacts ==
  ASSUME NEW N, NEW R, Roots(N, R)
  PROVE  /\ StartsOf(R) \subseteq Cluster /\ Directory \subseteq StartsOf(R)
         /\ \A e \in File : R[e] # 0 => R[e] \in StartsOf(R) /\ R[e] \in Cluster
BY LinkFacts DEF StartsOf, Roots

(* Appending to a chain of a directory shows nothing in it: the new        *)
(* cluster's entries are unused.                                           *)
LEMMA AppendScans ==
  ASSUME NEW F, NEW G, NEW w, NEW s, NEW n, Appended(F, G, w, s, n),
         NEW A, Owned(F, A), NEW B, Owned(G, B), A \subseteq B, Directory \subseteq A,
         NEW N, Scans(F, N)
  PROVE  Scans(G, N)
<1>1. ASSUME NEW c \in Cluster, InDirectory(F, c)
      PROVE  \E d \in Directory, k \in Nat : Walk(F, d, k) = c /\ Walk(G, d, k) = c
  <2>1. PICK d \in Directory, k \in Nat : Walk(F, d, k) = c BY <1>1 DEF InDirectory
  <2>2. d \in A /\ Walk(F, d, k) \in Cluster BY <2>1
  <2>3. Walk(G, d, k) = Walk(F, d, k) BY <2>2, AppendKeeps
  <2> QED BY <2>1, <2>3
<1>2. ASSUME NEW e \in File, N[e] # NoName PROVE InDirectory(G, e[1])
  <2>1. e[1] \in Cluster /\ InDirectory(F, e[1]) BY <1>2 DEF Scans, File
  <2> QED BY <1>1, <2>1 DEF InDirectory
<1>3. ASSUME NEW d \in Directory, NEW p \in Spots, NEW q \in Spots,
             Walk(G, d, p[1]) \in Cluster, Before(q, p), N[Spot(G, d, p)] # NoName
      PROVE  N[Spot(G, d, q)] # NoName /\ ~Hides(N[Spot(G, d, q)], N[Spot(G, d, p)])
  <2>1. PICK c \in Cluster : c = Walk(G, d, p[1]) BY <1>3
  <2>2. p[1] \in Nat /\ q[1] \in Nat /\ p[2] \in Slot /\ q[1] <= p[1] BY <1>3 DEF Spots, Before
  <2>3. Spot(G, d, p) \in File /\ Spot(G, d, p)[1] = c BY <2>1, <2>2 DEF Spot, File
  <2>4. InDirectory(F, c) BY <1>3, <2>3 DEF Scans
  <2>5. PICK b \in Directory, k \in Nat : Walk(F, b, k) = c /\ Walk(G, b, k) = c BY <1>1, <2>4
  <2>6. b = d /\ k = p[1]
    <3>1. b \in B /\ d \in B OBVIOUS
    <3>2. Walk(G, b, k) = Walk(G, d, p[1]) /\ Walk(G, b, k) \in Cluster BY <2>1, <2>5
    <3> QED BY <2>2, <3>1, <3>2, WalkOnce
  <2>7. Walk(F, d, p[1]) = Walk(G, d, p[1]) /\ Walk(F, d, p[1]) \in Cluster BY <2>1, <2>5, <2>6
  <2>8. Walk(F, d, q[1]) = Walk(G, d, q[1])
    <3>1. d \in A /\ q[1] \in 0 .. p[1] BY <2>2
    <3>2. Walk(F, d, q[1]) \in Cluster BY <2>2, <2>7, <3>1, WalkStarts
    <3> QED BY <2>2, <3>1, <3>2, AppendKeeps
  <2>9. Spot(F, d, p) = Spot(G, d, p) /\ Spot(F, d, q) = Spot(G, d, q) BY <2>7, <2>8 DEF Spot
  <2> QED BY <1>3, <2>7, <2>9 DEF Scans, Scanned
<1> QED BY <1>2, <1>3 DEF Scans, Scanned

(* A file or a directory grows.                                            *)
LEMMA VolumeGrows ==
  ASSUME NEW F, NEW N, NEW R, Volume(F, N, R),
         NEW G, NEW w \in Cluster, NEW s, NEW n, Appended(F, G, w, s, n)
  PROVE  Volume(G, N, R)
<1>1. PICK A : A = StartsOf(R) OBVIOUS
<1>2. Owned(F, A) /\ w # 0 /\ Directory \subseteq A /\ Scans(F, N)
  BY <1>1, LinkFacts, StartsFacts DEF Volume
<1>3. Owned(G, A) BY <1>2, AppendOwned
<1>4. A \subseteq A OBVIOUS
<1>5. Scans(G, N) BY <1>2, <1>3, <1>4, AppendScans
<1> QED BY <1>1, <1>3, <1>5 DEF Volume

(* A file gets its first clusters.                                         *)
LEMMA VolumeStarts ==
  ASSUME NEW F, NEW N, NEW R, Volume(F, N, R),
         NEW G, NEW s, NEW n, Appended(F, G, 0, s, n),
         NEW e \in File, N[e] # NoName, R[e] = 0, NEW Q, Q = [R EXCEPT ![e] = s[1]]
  PROVE  Volume(G, N, Q)
<1>1. PICK A : A = StartsOf(R) OBVIOUS
<1>2. PICK B : B = A \cup {s[1]} OBVIOUS
<1>3. /\ Owned(F, A) /\ Directory \subseteq A /\ Scans(F, N) /\ A \subseteq B
      /\ \A f \in File : R[f] # 0 => R[f] \in A
  BY <1>1, <1>2, StartsFacts DEF Volume
<1>4. Owned(G, B) BY <1>2, <1>3, AppendOwned
<1>5. Scans(G, N) BY <1>3, <1>4, AppendScans
<1>6. s[1] \in Cluster /\ F[s[1]] = Free /\ s[1] # 0
  <2>1. 1 \in 1 .. n /\ s[1] \in Cluster BY AppendFacts
  <2> QED BY <2>1, LinkFacts DEF Appended
<1>7. s[1] \notin A BY <1>3, <1>6 DEF Owned
<1>8. R \in [File -> Cluster \cup {0}] BY DEF Volume, Roots
<1>9. /\ Q \in [File -> Cluster \cup {0}] /\ Q[e] = s[1]
      /\ \A f \in File : f # e => Q[f] = R[f]
  BY <1>6, <1>8
<1>10. StartsOf(Q) = B
  <2>1. ASSUME NEW c \in Cluster PROVE c \in StartsOf(Q) <=> c \in B
    <3>1. CASE c = s[1] BY <1>2, <1>9, <3>1 DEF StartsOf
    <3>2. CASE c # s[1]
      <4>1. \A f \in File : Q[f] = c <=> R[f] = c BY <1>9, <3>2, LinkFacts
      <4>2. c \in B <=> c \in A BY <1>2, <3>2
      <4> QED BY <1>1, <4>1, <4>2 DEF StartsOf
    <3> QED BY <3>1, <3>2
  <2>2. B \subseteq Cluster BY <1>4 DEF Owned
  <2>3. StartsOf(Q) \subseteq Cluster BY DEF StartsOf
  <2> QED BY <2>1, <2>2, <2>3
<1>11. Roots(N, Q)
  <2>1. Roots(N, R) BY DEF Volume
  <2>2. \A f \in File : Q[f] \notin Directory BY <1>3, <1>7, <1>9, <2>1 DEF Roots
  <2>3. \A f \in File : N[f] = NoName => Q[f] = 0 BY <1>9, <2>1 DEF Roots
  <2>4. ASSUME NEW f \in File, NEW g \in File, Q[f] = Q[g], Q[f] # 0 PROVE f = g
    <3>1. \A h \in File : h # e => Q[h] # s[1] BY <1>3, <1>6, <1>7, <1>9
    <3> QED BY <1>9, <2>1, <2>4, <3>1 DEF Roots
  <2> QED BY <1>9, <2>1, <2>2, <2>3, <2>4 DEF Roots
<1> QED BY <1>4, <1>5, <1>10, <1>11 DEF Volume

(* The first unused entry of a directory gets a new name.                  *)
LEMMA VolumeNames ==
  ASSUME NEW F, NEW N, NEW R, Volume(F, N, R),
         NEW d \in Directory, NEW p \in Spots, Walk(F, d, p[1]) \in Cluster,
         NEW e, e = Spot(F, d, p), N[e] = NoName, NEW name \in Name,
         \A q \in Spots : Before(q, p) =>
           N[Spot(F, d, q)] # NoName /\ ~Hides(N[Spot(F, d, q)], name),
         NEW M, M = [N EXCEPT ![e] = name]
  PROVE  Volume(F, M, R)
<1>1. PICK A : A = StartsOf(R) OBVIOUS
<1>2. Owned(F, A) /\ Directory \subseteq A /\ Scans(F, N) /\ Roots(N, R)
  BY <1>1, StartsFacts DEF Volume
<1>3. p[1] \in Nat /\ p[2] \in Slot /\ e \in File /\ e[1] = Walk(F, d, p[1]) /\ p = <<p[1], p[2]>>
  BY DEF Spots, Spot, File
<1>4. /\ M \in [File -> Name \cup {NoName}] /\ M[e] = name /\ name # NoName
      /\ \A f \in File : f # e => M[f] = N[f]
  BY <1>2, <1>3, NameAssumption DEF Roots
<1>5. Roots(M, R) BY <1>2, <1>4 DEF Roots
<1>6. ASSUME NEW f \in File, M[f] # NoName PROVE InDirectory(F, f[1])
  <2>1. CASE f = e BY <1>3, <2>1 DEF InDirectory
  <2>2. CASE f # e BY <1>2, <1>4, <1>6, <2>2 DEF Scans
  <2> QED BY <2>1, <2>2
\* Nothing else of any directory is e.
<1>7. ASSUME NEW b \in Directory, NEW q \in Spots, Walk(F, b, q[1]) \in Cluster
      PROVE  /\ Spot(F, b, q) \in File
             /\ Spot(F, b, q) = e <=> b = d /\ q = p
  <2>1. q[1] \in Nat /\ q[2] \in Slot /\ q = <<q[1], q[2]>> BY DEF Spots
  <2>2. Spot(F, b, q) \in File BY <1>7, <2>1 DEF Spot, File
  <2>3. ASSUME Spot(F, b, q) = e PROVE b = d /\ q = p
    <3>1. Walk(F, b, q[1]) = Walk(F, d, p[1]) /\ q[2] = p[2] BY <2>3 DEF Spot
    <3>2. b \in A /\ d \in A BY <1>2
    <3>3. b = d /\ q[1] = p[1] BY <1>2, <1>3, <1>7, <2>1, <3>1, <3>2, WalkOnce
    <3> QED BY <1>3, <2>1, <3>1, <3>3
  <2> QED BY <2>2, <2>3
<1>8. ASSUME NEW b \in Directory, NEW r \in Spots, NEW q \in Spots,
             Walk(F, b, r[1]) \in Cluster, Before(q, r), M[Spot(F, b, r)] # NoName
      PROVE  M[Spot(F, b, q)] # NoName /\ ~Hides(M[Spot(F, b, q)], M[Spot(F, b, r)])
  <2>1. /\ r[1] \in Nat /\ q[1] \in 0 .. r[1] /\ q # r
        /\ Before(r, q) \/ r = q \/ Before(q, r)
    BY <1>8 DEF Spots, Before, Slot
  <2>2. Walk(F, b, q[1]) \in Cluster BY <1>8, <2>1, WalkStarts
  <2>3. PICK x \in File, y \in File : x = Spot(F, b, q) /\ y = Spot(F, b, r) BY <1>7, <1>8, <2>2
  <2>4. (x = e <=> b = d /\ q = p) /\ (y = e <=> b = d /\ r = p) BY <1>7, <1>8, <2>2, <2>3
  <2>5. Scanned(F, N, b) BY <1>2 DEF Scans
  <2>6. CASE y = e
    <3>1. N[x] # NoName /\ ~Hides(N[x], name) /\ x # e BY <1>8, <2>1, <2>3, <2>4, <2>6
    <3> QED BY <1>4, <2>3, <2>6, <3>1
  <2>7. CASE x = e /\ y # e
    <3>1. N[y] # NoName BY <1>4, <1>8, <2>3, <2>7
    <3>2. N[x] # NoName BY <1>8, <2>3, <2>5, <3>1 DEF Scanned
    <3> QED BY <2>7, <3>2
  <2>8. CASE x # e /\ y # e
    <3>1. M[x] = N[x] /\ M[y] = N[y] BY <1>4, <2>8
    <3> QED BY <1>8, <2>3, <2>5, <3>1 DEF Scanned
  <2> QED BY <2>6, <2>7, <2>8
<1>9. Scans(F, M) BY <1>6, <1>8 DEF Scans, Scanned
<1> QED BY <1>1, <1>2, <1>5, <1>9 DEF Volume

-----------------------------------------------------------------------------
(* The invariant.                                                          *)

(* An entry holds what SetFileName makes of the name it was made for.      *)
EntryType ==
  {r \in [name : [1 .. 11 -> Char] \cup {NoName}, asked : Name \cup {NoName},
          first : Cluster \cup {0}, size : Nat] : r.name = CutName(r.asked)}

Descriptor ==
  [fat_entry : File, rd_off : Nat, rd_cluster : Link, rd_cluster_off : Nat,
   wr_off : Nat, wr_cluster : Cluster \cup {0}, wr_cluster_off : 0 .. bytes_per_cluster,
   buf : Buffer \cup {NoCall}, total : Nat]

Sector == 0 .. bytes_per_cluster - 1

TypeInv ==
  /\ fat \in [Cluster -> Link]
  /\ sector \in [Cluster -> [Sector -> Byte \cup {Blank}]]
  /\ dir \in [Cluster -> [Slot -> EntryType]]
  /\ fds \in [Fd -> Descriptor \cup {Closed}]
  /\ holed \subseteq File

Names  == [e \in File |-> Entry(e).asked]
Firsts == [e \in File |-> Entry(e).first]

(* A file's clusters have room for its size.                               *)
Fits(F, R, S) ==
  \A e \in File :
    /\ S[e] <= MaxOffset
    /\ S[e] # 0 => /\ R[e] # 0
                   /\ \E k \in Nat : /\ Walk(F, R[e], k) \in Cluster
                                     /\ S[e] <= k * bytes_per_cluster + bytes_per_cluster

BlankSector == [i \in Sector |-> Blank]

(* Nothing has been written to a free cluster.                             *)
Unwritten(F, sectors) == \A c \in Cluster : F[c] = Free => sectors[c] = BlankSector

(* Offset off of cluster c is that of byte b of the chain a, which is      *)
(* further back if a Write has left clusters out.                          *)
WritesAt(F, a, c, off, b, exactly) ==
  \E k \in Nat : /\ Walk(F, a, k) = c
                 /\ b <= k * bytes_per_cluster + off
                 /\ exactly => b = k * bytes_per_cluster + off

ReadsAt(F, a, c, off, b) ==
  /\ Walk(F, a, b \div bytes_per_cluster) = c
  /\ off = b % bytes_per_cluster

(* What a descriptor D knows about its file.                               *)
Valid(F, N, R, H, D) ==
  /\ N[D.fat_entry] # NoName
  /\ D.wr_off + D.total <= MaxOffset
  /\ D.buf = NoCall => D.total = 0
  /\ D.buf # NoCall => /\ D.wr_cluster # 0 /\ D.total <= Len(D.buf)
                       /\ D.wr_off + Len(D.buf) <= MaxOffset
  /\ D.wr_cluster = 0 => D.wr_off = 0 /\ D.total = 0 /\ D.wr_cluster_off = 0
  /\ D.wr_cluster # 0 =>
       /\ R[D.fat_entry] # 0
       /\ WritesAt(F, R[D.fat_entry], D.wr_cluster, D.wr_cluster_off,
                   D.wr_off + D.total, D.fat_entry \notin H)
  /\ D.rd_cluster = 0 => D.rd_off = 0 /\ D.rd_cluster_off = 0
  /\ D.rd_cluster \in Cluster =>
       /\ R[D.fat_entry] # 0
       /\ ReadsAt(F, R[D.fat_entry], D.rd_cluster, D.rd_cluster_off, D.rd_off)

IInv ==
  /\ TypeInv
  /\ Volume(fat, Names, Firsts)
  /\ Fits(fat, Firsts, Sizes)
  /\ Unwritten(fat, sector)
  /\ \A x \in Fd : fds[x] # Closed => Valid(fat, Names, Firsts, holed, fds[x])

-----------------------------------------------------------------------------
(* Scans of directories.                                                   *)

LEMMA EntryIs ==
  ASSUME dir \in [Cluster -> [Slot -> EntryType]], NEW e \in File
  PROVE  /\ Entry(e) \in EntryType
         /\ Names[e] = Entry(e).asked /\ Firsts[e] = Entry(e).first /\ Sizes[e] = Entry(e).size
         /\ Entry(e).asked \in Name \cup {NoName} /\ Entry(e).first \in Cluster \cup {0}
         /\ Entry(e).size \in Nat /\ Entry(e).name = CutName(Names[e])
<1>1. e[1] \in Cluster /\ e[2] \in Slot BY DEF File
<1>2. Entry(e) \in EntryType BY <1>1 DEF Entry
<1> QED BY <1>2 DEF EntryType, Names, Firsts, Sizes

LEMMA PlacesAre ==
  ASSUME TypeInv, Volume(fat, Names, Firsts), NEW d \in Directory
  PROVE  /\ \A p \in Places(d) : p \in Spots /\ Walk(fat, d, p[1]) \in Cluster
         /\ \A p \in Spots : Walk(fat, d, p[1]) \in Cluster =>
              /\ p \in Places(d) /\ EntryAt(d, p) = Spot(fat, d, p) /\ EntryAt(d, p) \in File
              /\ NameAt(d, p) = CutName(Names[Spot(fat, d, p)])
              /\ NameAt(d, p) = NoName <=> Names[Spot(fat, d, p)] = NoName
<1>1. ASSUME NEW p \in Places(d) PROVE p \in Spots /\ Walk(fat, d, p[1]) \in Cluster
  <2>1. p \in (0 .. Clusters - 1) \X Slot /\ Behind(d, p[1]) \in Cluster BY DEF Places
  <2> QED BY <2>1, BehindWalks DEF Spots
<1>2. ASSUME NEW p \in Spots, Walk(fat, d, p[1]) \in Cluster
      PROVE  /\ p \in Places(d) /\ EntryAt(d, p) = Spot(fat, d, p) /\ EntryAt(d, p) \in File
             /\ NameAt(d, p) = CutName(Names[Spot(fat, d, p)])
             /\ NameAt(d, p) = NoName <=> Names[Spot(fat, d, p)] = NoName
  <2>1. p[1] \in Nat /\ p[2] \in Slot /\ p = <<p[1], p[2]>> BY DEF Spots
  <2>2. PICK A : A = StartsOf(Firsts) OBVIOUS
  <2>3. Owned(fat, A) /\ d \in A BY <2>2, StartsFacts DEF Volume
  <2>4. p[1] < Clusters BY <1>2, <2>1, <2>3, WalkBound
  <2>5. p[1] \in 0 .. Clusters - 1 BY <2>1, <2>4, LinkFacts
  <2>6. Behind(d, p[1]) = Walk(fat, d, p[1]) BY BehindWalks
  <2>7. p \in Places(d) BY <1>2, <2>1, <2>5, <2>6 DEF Places
  <2>8. EntryAt(d, p) = Spot(fat, d, p) BY <2>6 DEF EntryAt, Spot
  <2>9. Spot(fat, d, p) \in File BY <1>2, <2>1 DEF Spot, File
  <2>10. PICK e \in File : e = Spot(fat, d, p) BY <2>9
  <2>11. Entry(e).name = CutName(Names[e]) /\ Names[e] \in Name \cup {NoName}
    BY EntryIs DEF TypeInv
  <2>12. CutName(Names[e]) = NoName <=> Names[e] = NoName BY <2>11, CutNameIs
  <2> QED BY <2>7, <2>8, <2>10, <2>11, <2>12 DEF NameAt
<1> QED BY <1>1, <1>2

(* The positions of a scan are in a row.                                   *)
LEMMA BeforeIs ==
  ASSUME NEW d, NEW p \in Places(d), NEW q \in Places(d)
  PROVE  p = q \/ Before(p, q) \/ Before(q, p)
<1>1. /\ p[1] \in Int /\ q[1] \in Int /\ p[2] \in Int /\ q[2] \in Int
      /\ p = <<p[1], p[2]>> /\ q = <<q[1], q[2]>>
  BY DEF Places, Slot
<1> QED BY <1>1 DEF Before

(* FindFile finds the entry made for an 8.3 name.                          *)
LEMMA FindFileFinds ==
  ASSUME TypeInv, Volume(fat, Names, Firsts), NEW path \in Path, Is83(path[2]),
         NEW p \in Places(path[1]), Names[Spot(fat, path[1], p)] = path[2]
  PROVE  FindFile(path) = {EntryAt(path[1], p)}
<1>1. PICK d \in Directory, name \in Name : path[1] = d /\ path[2] = name BY DEF Path
<1> DEFINE Match(q) == NameIsEqual(NameAt(d, q), NextPathElement(name))
<1>2. name # NoName /\ Hides(name, name) BY <1>1, NameAssumption, Finds83
<1>3. \A q \in Places(d) : /\ q \in Spots /\ Walk(fat, d, q[1]) \in Cluster
                           /\ NameAt(d, q) = CutName(Names[Spot(fat, d, q)])
                           /\ NameAt(d, q) = NoName <=> Names[Spot(fat, d, q)] = NoName
  BY PlacesAre
<1>4. Scanned(fat, Names, d) BY DEF Volume, Scans
<1>5. \A q \in Places(d) : Match(q) <=> Hides(Names[Spot(fat, d, q)], name)
  BY <1>3 DEF Hides
<1>6. p \in Places(d) /\ Names[Spot(fat, d, p)] = name /\ Match(p) BY <1>1, <1>2, <1>5
<1>7. \A q \in Places(d) : Stops(NameAt(d, q), path) <=> NameAt(d, q) = NoName \/ Match(q)
  BY <1>1 DEF Stops
<1> HIDE DEF Match
<1>8. ASSUME NEW q \in Places(d), Before(q, p) PROVE ~Stops(NameAt(d, q), path)
  <2>1. Names[Spot(fat, d, q)] # NoName /\ ~Hides(Names[Spot(fat, d, q)], name)
    BY <1>2, <1>3, <1>4, <1>6, <1>8 DEF Scanned
  <2> QED BY <1>3, <1>5, <1>7, <2>1
<1>9. ASSUME NEW r \in Places(d), Match(r),
             \A q \in Places(d) : Before(q, r) => ~Stops(NameAt(d, q), path)
      PROVE  r = p
  <2>1. ~Before(p, r) BY <1>6, <1>7, <1>9
  <2>2. ~Before(r, p) BY <1>7, <1>8, <1>9
  <2> QED BY <1>6, <2>1, <2>2, BeforeIs
<1>10. {r \in Places(d) : /\ Match(r)
                          /\ \A q \in Places(d) : Before(q, r) => ~Stops(NameAt(d, q), path)}
       = {p}
  BY <1>6, <1>8, <1>9
<1> QED BY <1>1, <1>10 DEF FindFile, Match

LEMMA FindFileIs ==
  ASSUME TypeInv, Volume(fat, Names, Firsts), NEW path \in Path, NEW e \in FindFile(path)
  PROVE  e \in File /\ Names[e] # NoName
<1>1. PICK p \in Places(path[1]) :
        e = EntryAt(path[1], p) /\ NameIsEqual(NameAt(path[1], p), NextPathElement(path[2]))
  BY DEF FindFile
<1>2. path[1] \in Directory /\ path[2] \in Name BY DEF Path
<1>3. PICK d \in Directory : d = path[1] BY <1>2
<1>4. NameAt(d, p) # NoName BY <1>1, <1>2, <1>3, HidesIs
<1>5. p \in Spots /\ Walk(fat, d, p[1]) \in Cluster BY <1>1, <1>3, PlacesAre
<1>6. /\ EntryAt(d, p) = Spot(fat, d, p) /\ EntryAt(d, p) \in File
      /\ NameAt(d, p) = NoName <=> Names[Spot(fat, d, p)] = NoName
  BY <1>5, PlacesAre
<1> QED BY <1>1, <1>3, <1>4, <1>6

(* Some place of a scan is the first of its kind.                          *)
LEMMA FirstPlace ==
  ASSUME NEW d, NEW W \in SUBSET Places(d), W # {}
  PROVE  \E p \in W : \A q \in W : ~Before(q, p)
<1> DEFINE T == {n \in Nat : \E q \in W : q[1] = n}
<1>1. \A q \in W : q[1] \in Nat /\ q[2] \in Nat
  BY DEF Places, Slot
<1>2. T # {} /\ T \in SUBSET Nat BY <1>1
<1>3. PICK n \in T : \A m \in T : n <= m
  <2> HIDE DEF T
  <2> QED BY <1>2, LeastNat
<1> DEFINE U == {i \in Nat : \E q \in W : q[1] = n /\ q[2] = i}
<1>4. U # {} /\ U \in SUBSET Nat BY <1>1
<1>5. PICK i \in U : \A j \in U : i <= j
  <2> HIDE DEF U
  <2> QED BY <1>4, LeastNat
<1>6. PICK p \in W : p[1] = n /\ p[2] = i OBVIOUS
<1>7. ASSUME NEW r \in W, Before(r, p) PROVE FALSE
  <2>1. r[1] \in T /\ r[1] \in Nat /\ r[2] \in Nat BY <1>1
  <2>2. n <= r[1] BY <1>3, <2>1
  <2>3. r[1] = n /\ r[2] < i BY <1>1, <1>6, <1>7, <2>1, <2>2 DEF Before
  <2>4. r[2] \in U BY <2>1, <2>3
  <2> QED BY <1>5, <2>1, <2>3, <2>4
<1> QED BY <1>7

(* If FindFile finds nothing, no entry before the first unused one holds   *)
(* the name.                                                               *)
LEMMA NoneFound ==
  ASSUME NEW path, FindFile(path) = {}, NEW p \in Places(path[1]),
         \A q \in Places(path[1]) : q = p \/ Before(q, p) => NameAt(path[1], q) # NoName
  PROVE  ~NameIsEqual(NameAt(path[1], p), NextPathElement(path[2]))
<1>1. PICK d, name : d = path[1] /\ name = NextPathElement(path[2]) OBVIOUS
<1> DEFINE W == {q \in Places(d) : NameIsEqual(NameAt(d, q), name)}
<1> SUFFICES ASSUME p \in W PROVE FALSE BY <1>1
<1>2. PICK r \in W : \A q \in W : ~Before(q, r)
  <2>1. W \in SUBSET Places(d) /\ W # {} OBVIOUS
  <2> HIDE DEF W
  <2> QED BY <2>1, FirstPlace
<1>3. r \in Places(d) /\ p \in Places(d) /\ (r = p \/ Before(r, p)) BY <1>1, <1>2, BeforeIs
<1>4. ASSUME NEW q \in Places(d), Before(q, r) PROVE ~Stops(NameAt(d, q), path)
  <2>1. q \notin W BY <1>2, <1>4
  <2>2. Before(q, p)
    <3>1. /\ p[1] \in Int /\ q[1] \in Int /\ p[2] \in Int /\ q[2] \in Int
          /\ r[1] \in Int /\ r[2] \in Int
      BY <1>3 DEF Places, Slot
    <3> QED BY <1>3, <1>4, <3>1 DEF Before
  <2>3. NameAt(d, q) # NoName BY <1>1, <2>2
  <2> QED BY <1>1, <2>1, <2>3 DEF Stops
<1>5. EntryAt(d, r) \in FindFile(path) BY <1>1, <1>3, <1>4 DEF FindFile
<1> QED BY <1>5

(* A directory without an unused entry is full.                            *)
LEMMA NoneUnused ==
  ASSUME NEW d, UnusedEntry(d) = {}, NEW p \in Places(d)
  PROVE  NameAt(d, p) # NoName
<1> SUFFICES ASSUME NameAt(d, p) = NoName PROVE FALSE OBVIOUS
<1> DEFINE W == {q \in Places(d) : NameAt(d, q) = NoName}
<1>1. PICK q \in W : \A r \in W : ~Before(r, q)
  <2>1. W \in SUBSET Places(d) /\ W # {} OBVIOUS
  <2> HIDE DEF W
  <2> QED BY <2>1, FirstPlace
<1>2. EntryAt(d, q) \in UnusedEntry(d) BY <1>1 DEF UnusedEntry
<1> QED BY <1>2

-----------------------------------------------------------------------------
(* The properties.                                                         *)

LEMMA OwnedOnce ==
  ASSUME TypeInv, Volume(fat, Names, Firsts)
  PROVE  ClustersOwnedOnce
<1>1. PICK A : A = StartsOf(Firsts) OBVIOUS
<1>2. Owned(fat, A) /\ Roots(Names, Firsts) BY <1>1 DEF Volume
<1>3. \A e \in File : Firsts[e] = Entry(e).first BY DEF Firsts
<1>4. \A c \in Cluster : StartsChain(c) <=> c \in A
  BY <1>1, <1>3 DEF StartsChain, StartsOf
<1>5. \A e, f \in File : Entry(e).first = Entry(f).first /\ Entry(e).first # 0 =>
        e = f /\ Entry(e).first \notin Directory
  BY <1>2, <1>3 DEF Roots
<1> QED BY <1>2, <1>4, <1>5 DEF ClustersOwnedOnce, Owned

LEMMA Found ==
  ASSUME IInv
  PROVE  FilesAreFound
<1>0. TypeInv /\ Volume(fat, Names, Firsts) BY DEF IInv
<1>1. ASSUME NEW e \in File, Entry(e).asked # NoName, Is83(Entry(e).asked)
      PROVE  \E d \in Directory : FindFile(<<d, Entry(e).asked>>) = {e}
  <2>1. Names[e] = Entry(e).asked /\ Entry(e).asked \in Name
    BY <1>0, <1>1, EntryIs DEF TypeInv
  <2>2. InDirectory(fat, e[1]) BY <1>0, <1>1, <2>1 DEF Volume, Scans
  <2>3. PICK d \in Directory, k \in Nat : Walk(fat, d, k) = e[1] BY <2>2 DEF InDirectory
  <2>4. e[1] \in Cluster /\ e[2] \in Slot /\ e = <<e[1], e[2]>> BY DEF File
  <2>5. PICK p : p = <<k, e[2]>> OBVIOUS
  <2>6. p \in Spots /\ Walk(fat, d, p[1]) \in Cluster /\ Spot(fat, d, p) = e
    BY <2>3, <2>4, <2>5 DEF Spots, Spot
  <2>7. p \in Places(d) /\ EntryAt(d, p) = e BY <1>0, <2>6, PlacesAre
  <2>8. PICK path : path = <<d, Entry(e).asked>> OBVIOUS
  <2>9. path \in Path /\ path[1] = d /\ path[2] = Entry(e).asked BY <2>1, <2>8 DEF Path
  <2>10. /\ p \in Places(path[1]) /\ Names[Spot(fat, path[1], p)] = path[2]
         /\ Is83(path[2])
    BY <1>1, <2>1, <2>6, <2>7, <2>9
  <2>11. FindFile(path) = {EntryAt(path[1], p)} BY <1>0, <2>9, <2>10, FindFileFinds
  <2> QED BY <2>7, <2>8, <2>9, <2>11
<1>2. ASSUME NEW x \in Fd, fds[x] # Closed PROVE Entry(fds[x].fat_entry).name # NoName
  <2>1. fds[x].fat_entry \in File BY <1>0, <1>2 DEF TypeInv, Descriptor
  <2>2. Names[fds[x].fat_entry] # NoName BY <1>2 DEF IInv, Valid
  <2>3. PICK e \in File : e = fds[x].fat_entry BY <2>1
  <2>4. Entry(e).name = CutName(Names[e]) /\ Names[e] \in Name \cup {NoName}
    BY <1>0, EntryIs DEF TypeInv
  <2> QED BY <2>2, <2>3, <2>4, CutNameIs
<1> QED BY <1>1, <1>2 DEF FilesAreFound

-----------------------------------------------------------------------------
(* Offsets and clusters.                                                   *)

LEMMA Times ==
  ASSUME NEW k \in Nat
  PROVE  /\ k * bytes_per_cluster \in Nat /\ bytes_per_cluster \in Nat \ {0}
         /\ (k + 1) * bytes_per_cluster = k * bytes_per_cluster + bytes_per_cluster
<1>1. bytes_per_cluster \in Nat \ {0} BY SizesAssumption
<1> QED BY <1>1

LEMMA DivIs ==
  ASSUME NEW a \in Nat
  PROVE  /\ a \div bytes_per_cluster \in Nat /\ a % bytes_per_cluster \in Sector
         /\ a = (a \div bytes_per_cluster) * bytes_per_cluster + (a % bytes_per_cluster)
<1>1. PICK b : b = bytes_per_cluster OBVIOUS
<1>2. b \in Nat \ {0} BY <1>1, SizesAssumption
<1>3. a \div b \in Nat /\ a % b \in 0 .. b - 1 /\ a = (a \div b) * b + (a % b) BY <1>2
<1> QED BY <1>1, <1>3 DEF Sector

LEMMA DivOf ==
  ASSUME NEW q \in Nat, NEW r \in Sector, NEW a, a = q * bytes_per_cluster + r
  PROVE  a \div bytes_per_cluster = q /\ a % bytes_per_cluster = r
<1>1. PICK b : b = bytes_per_cluster OBVIOUS
<1>2. b \in Nat \ {0} /\ r \in 0 .. b - 1 BY <1>1, SizesAssumption DEF Sector
<1>3. q * b \in Nat BY <1>2
<1>4. a \in Nat /\ a = q * b + r BY <1>1, <1>2, <1>3
<1>5. PICK x, y : x = a \div b /\ y = a % b OBVIOUS
<1>6. x \in Nat /\ y \in 0 .. b - 1 /\ a = x * b + y BY <1>1, <1>4, <1>5, DivIs DEF Sector
<1>7. ASSUME NEW m \in Nat, NEW n \in Nat, m < n PROVE m * b + b <= n * b
  <2>1. PICK t \in Nat : n = m + 1 + t
    <3>1. n - m - 1 \in Nat /\ n = m + 1 + (n - m - 1) BY <1>7
    <3> QED BY <3>1
  <2>2. n * b = m * b + b + t * b BY <1>2, <2>1
  <2>3. t * b \in Nat /\ m * b \in Nat BY <1>2
  <2> QED BY <1>2, <2>2, <2>3
<1>8. x = q
  <2>1. x * b \in Nat /\ q * b \in Nat BY <1>2, <1>6
  <2>2. CASE x < q
    <3>1. x * b + b <= q * b BY <1>6, <1>7, <2>2
    <3> QED BY <1>2, <1>4, <1>6, <2>1, <3>1
  <2>3. CASE q < x
    <3>1. q * b + b <= x * b BY <1>6, <1>7, <2>3
    <3> QED BY <1>2, <1>4, <1>6, <2>1, <3>1
  <2> QED BY <1>6, <2>2, <2>3
<1>9. y = r BY <1>2, <1>3, <1>4, <1>6, <1>8
<1> QED BY <1>1, <1>5, <1>8, <1>9

(* The byte n behind byte b.                                               *)
LEMMA DivSum ==
  ASSUME NEW b \in Nat, NEW n \in Nat
  PROVE  LET off == (b % bytes_per_cluster) + n
         IN  /\ (b + n) \div bytes_per_cluster
                  = b \div bytes_per_cluster + off \div bytes_per_cluster
             /\ (b + n) % bytes_per_cluster = off % bytes_per_cluster
<1>1. PICK off : off = (b % bytes_per_cluster) + n OBVIOUS
<1>2. PICK x, y : x = b \div bytes_per_cluster /\ y = off \div bytes_per_cluster OBVIOUS
<1>3. PICK r : r = off % bytes_per_cluster OBVIOUS
<1>4. /\ x \in Nat /\ b % bytes_per_cluster \in Nat
      /\ b = x * bytes_per_cluster + (b % bytes_per_cluster)
  BY <1>2, DivIs, SizesAssumption DEF Sector
<1>5. off \in Nat BY <1>1, <1>4
<1>6. y \in Nat /\ r \in Sector /\ off = y * bytes_per_cluster + r BY <1>2, <1>3, <1>5, DivIs
<1>7. (x + y) * bytes_per_cluster = x * bytes_per_cluster + y * bytes_per_cluster
  BY <1>4, <1>6, SizesAssumption
<1>8. b + n = (x + y) * bytes_per_cluster + r
  <2>1. x * bytes_per_cluster \in Nat /\ y * bytes_per_cluster \in Nat BY <1>4, <1>6, Times
  <2>2. r \in Nat BY <1>6, SizesAssumption DEF Sector
  <2> QED BY <1>1, <1>4, <1>6, <1>7, <2>1, <2>2
<1>9. x + y \in Nat BY <1>4, <1>6
<1>10. (b + n) \div bytes_per_cluster = x + y /\ (b + n) % bytes_per_cluster = r
  BY <1>6, <1>8, <1>9, DivOf
<1> QED BY <1>1, <1>2, <1>3, <1>10

LEMMA WalkSum ==
  ASSUME NEW F, NEW a, NEW i \in Nat, NEW j \in Nat
  PROVE  Walk(F, Walk(F, a, i), j) = Walk(F, a, i + j)
<1>0. PICK c : c = Walk(F, a, i) OBVIOUS
<1> DEFINE T == {k \in Nat : Walk(F, c, k) = Walk(F, a, i + k)}
<1>1. 0 \in T
  <2>1. i + 0 = i /\ Walk(F, c, 0) = c BY WalkIs
  <2> QED BY <1>0, <2>1
<1>2. ASSUME NEW k \in T PROVE k + 1 \in T
  <2>1. k \in Nat /\ Walk(F, c, k) = Walk(F, a, i + k) BY <1>2
  <2>2. PICK l \in Nat : l = i + k /\ i + (k + 1) = l + 1 BY <2>1
  <2>3. Walk(F, c, k + 1) = After(F, Walk(F, c, k)) BY <2>1, WalkIs
  <2>4. Walk(F, a, l + 1) = After(F, Walk(F, a, l)) BY WalkIs
  <2> QED BY <2>1, <2>2, <2>3, <2>4
<1>3. T = Nat
  <2>1. T \in SUBSET Nat OBVIOUS
  <2> HIDE DEF T
  <2> QED BY <1>1, <1>2, <2>1, Induction
<1> QED BY <1>0, <1>3

(* Writing n bytes, going to the next cluster and extending the chain.     *)
LEMMA WritesFurther ==
  ASSUME NEW F, NEW a, NEW c, NEW off \in Nat, NEW b \in Nat, NEW x \in BOOLEAN,
         WritesAt(F, a, c, off, b, x), NEW n \in Nat
  PROVE  WritesAt(F, a, c, off + n, b + n, x)
<1>1. PICK k \in Nat : /\ Walk(F, a, k) = c /\ b <= k * bytes_per_cluster + off
                       /\ x => b = k * bytes_per_cluster + off
  BY DEF WritesAt
<1>2. PICK m \in Nat : m = k * bytes_per_cluster BY Times
<1>3. b <= m + off /\ (x => b = m + off) BY <1>1, <1>2
<1>4. b + n <= m + (off + n) /\ (x => b + n = m + (off + n)) BY <1>3
<1> QED BY <1>1, <1>2, <1>4 DEF WritesAt

LEMMA WritesNext ==
  ASSUME NEW F, NEW a, NEW c, NEW b \in Nat, NEW x \in BOOLEAN,
         WritesAt(F, a, c, bytes_per_cluster, b, x)
  PROVE  WritesAt(F, a, After(F, c), 0, b, x)
<1>1. PICK k \in Nat : /\ Walk(F, a, k) = c
                       /\ b <= k * bytes_per_cluster + bytes_per_cluster
                       /\ x => b = k * bytes_per_cluster + bytes_per_cluster
  BY DEF WritesAt
<1>2. Walk(F, a, k + 1) = After(F, c) BY <1>1, WalkIs
<1>3. PICK m \in Nat : m = (k + 1) * bytes_per_cluster /\ m + 0 = m
                       /\ m = k * bytes_per_cluster + bytes_per_cluster
  <2>1. k * bytes_per_cluster \in Nat /\ bytes_per_cluster \in Nat BY Times
  <2>2. (k + 1) * bytes_per_cluster = k * bytes_per_cluster + bytes_per_cluster BY Times
  <2>3. k * bytes_per_cluster + bytes_per_cluster \in Nat BY <2>1
  <2> QED BY <2>2, <2>3
<1>4. k + 1 \in Nat /\ b <= (k + 1) * bytes_per_cluster + 0
      /\ (x => b = (k + 1) * bytes_per_cluster + 0)
  BY <1>1, <1>3
<1> QED BY <1>2, <1>4 DEF WritesAt

LEMMA WritesExtended ==
  ASSUME NEW F, NEW G, NEW w \in Cluster, NEW s, NEW n, Appended(F, G, w, s, n),
         NEW A, Owned(F, A), NEW a \in A, NEW b \in Nat, NEW x \in BOOLEAN,
         WritesAt(F, a, w, bytes_per_cluster, b, x)
  PROVE  WritesAt(G, a, s[n], 0, b, x /\ n = 1)
<1>1. PICK k \in Nat : /\ Walk(F, a, k) = w
                       /\ b <= k * bytes_per_cluster + bytes_per_cluster
                       /\ x => b = k * bytes_per_cluster + bytes_per_cluster
  BY DEF WritesAt
<1>2. Walk(G, a, k + 1) = s[1] BY <1>1, AppendAfter
<1>3. n \in Nat \ {0} /\ n \in 1 .. n BY DEF Appended
<1>4. PICK l : l = k + 1 OBVIOUS
<1>5. l \in Nat /\ Walk(G, a, l) = s[1] BY <1>2, <1>4
<1>6. Walk(G, a, l + n - 1) = s[n] BY <1>3, <1>5, AppendRow
<1>7. PICK j \in Nat : j = n - 1 BY <1>3
<1>8. l + n - 1 = k + 1 + j /\ k + 1 + j \in Nat BY <1>3, <1>4, <1>7
<1>9. (k + 1 + j) * bytes_per_cluster
        = k * bytes_per_cluster + bytes_per_cluster + j * bytes_per_cluster
  BY SizesAssumption
<1>10. PICK m \in Nat, t \in Nat : m = k * bytes_per_cluster + bytes_per_cluster
                                   /\ t = j * bytes_per_cluster
  <2>1. k * bytes_per_cluster \in Nat /\ j * bytes_per_cluster \in Nat /\ bytes_per_cluster \in Nat
    BY <1>7, Times
  <2>2. k * bytes_per_cluster + bytes_per_cluster \in Nat BY <2>1
  <2> QED BY <2>1, <2>2
<1>11. n = 1 => t = 0 BY <1>7, <1>10, SizesAssumption
<1>12. b <= m + t + 0 /\ (x /\ n = 1 => b = m + t + 0) BY <1>1, <1>10, <1>11
<1>13. b <= (k + 1 + j) * bytes_per_cluster + 0
       /\ (x /\ n = 1 => b = (k + 1 + j) * bytes_per_cluster + 0)
  BY <1>9, <1>10, <1>12
<1> QED BY <1>6, <1>8, <1>13 DEF WritesAt

-----------------------------------------------------------------------------
(* What a step leaves of the rest.                                         *)

Grown(F, N, R, G, M, Q) ==
  \A e \in File :
    /\ N[e] # NoName => M[e] # NoName
    /\ R[e] # 0 => /\ Q[e] = R[e]
                   /\ \A k \in Nat : Walk(F, R[e], k) \in Cluster =>
                                       Walk(G, R[e], k) = Walk(F, R[e], k)

LEMMA SameGrows == \A F, N, R : Grown(F, N, R, F, N, R)
BY DEF Grown

LEMMA AppendGrows ==
  ASSUME NEW F, NEW N, NEW R, Volume(F, N, R), NEW G, NEW w, NEW s, NEW n,
         Appended(F, G, w, s, n), NEW e \in File, R[e] # 0, NEW k \in Nat,
         Walk(F, R[e], k) \in Cluster
  PROVE  Walk(G, R[e], k) = Walk(F, R[e], k)
<1>1. PICK A : A = StartsOf(R) OBVIOUS
<1>2. PICK a : a = R[e] OBVIOUS
<1>3. Owned(F, A) /\ a \in A BY <1>1, <1>2, StartsFacts DEF Volume
<1>4. Walk(F, a, k) \in Cluster BY <1>2
<1>5. Walk(G, a, k) = Walk(F, a, k) BY <1>3, <1>4, AppendKeeps
<1> QED BY <1>2, <1>5

LEMMA FitsKept ==
  ASSUME NEW F, NEW N, NEW R, NEW G, NEW M, NEW Q, Grown(F, N, R, G, M, Q),
         NEW S, Fits(F, R, S)
  PROVE  Fits(G, Q, S)
<1>1. ASSUME NEW e \in File, S[e] # 0
      PROVE  /\ Q[e] # 0
             /\ \E k \in Nat : /\ Walk(G, Q[e], k) \in Cluster
                               /\ S[e] <= k * bytes_per_cluster + bytes_per_cluster
  <2>1. PICK k \in Nat : /\ Walk(F, R[e], k) \in Cluster
                         /\ S[e] <= k * bytes_per_cluster + bytes_per_cluster
    BY <1>1 DEF Fits
  <2>2. R[e] # 0 BY <1>1 DEF Fits
  <2>3. Q[e] = R[e] /\ Walk(G, R[e], k) = Walk(F, R[e], k) BY <2>1, <2>2 DEF Grown
  <2> QED BY <2>1, <2>2, <2>3
<1> QED BY <1>1 DEF Fits

LEMMA ValidKept ==
  ASSUME NEW F, NEW N, NEW R, NEW G, NEW M, NEW Q, Grown(F, N, R, G, M, Q),
         NEW H, NEW J, H \subseteq J, NEW D \in Descriptor, Valid(F, N, R, H, D)
  PROVE  Valid(G, M, Q, J, D)
<1>1. D.fat_entry \in File /\ D.wr_cluster \in Cluster \cup {0} BY DEF Descriptor
<1>2. PICK e \in File : e = D.fat_entry BY <1>1
<1>3. M[e] # NoName BY <1>2 DEF Grown, Valid
<1>4. ASSUME D.wr_cluster # 0
      PROVE  Q[e] # 0 /\ WritesAt(G, Q[e], D.wr_cluster, D.wr_cluster_off, D.wr_off + D.total, e \notin J)
  <2>1. R[e] # 0 /\ WritesAt(F, R[e], D.wr_cluster, D.wr_cluster_off, D.wr_off + D.total, e \notin H)
    BY <1>2, <1>4 DEF Valid
  <2>2. PICK k \in Nat : /\ Walk(F, R[e], k) = D.wr_cluster
                         /\ D.wr_off + D.total <= k * bytes_per_cluster + D.wr_cluster_off
                         /\ e \notin H => D.wr_off + D.total = k * bytes_per_cluster + D.wr_cluster_off
    BY <2>1 DEF WritesAt
  <2>3. Q[e] = R[e] /\ Walk(G, R[e], k) = Walk(F, R[e], k) BY <1>1, <1>4, <2>1, <2>2 DEF Grown
  <2> QED BY <2>1, <2>2, <2>3 DEF WritesAt
<1>5. ASSUME D.rd_cluster \in Cluster
      PROVE  Q[e] # 0 /\ ReadsAt(G, Q[e], D.rd_cluster, D.rd_cluster_off, D.rd_off)
  <2>1. R[e] # 0 /\ ReadsAt(F, R[e], D.rd_cluster, D.rd_cluster_off, D.rd_off)
    BY <1>2, <1>5 DEF Valid
  <2>2. PICK k : k = D.rd_off \div bytes_per_cluster OBVIOUS
  <2>3. D.rd_off \in Nat BY DEF Descriptor
  <2>4. k \in Nat BY <2>2, <2>3, DivIs
  <2>5. Walk(F, R[e], k) = D.rd_cluster BY <2>1, <2>2 DEF ReadsAt
  <2>6. Q[e] = R[e] /\ Walk(G, R[e], k) = Walk(F, R[e], k) BY <1>5, <2>1, <2>4, <2>5 DEF Grown
  <2> QED BY <2>1, <2>2, <2>5, <2>6 DEF ReadsAt
<1> QED BY <1>2, <1>3, <1>4, <1>5 DEF Valid

(* The descriptor of the step becomes r, the others stay.                  *)
LEMMA PutFd ==
  ASSUME TypeInv, NEW d \in Fd, NEW r, fds' = [fds EXCEPT ![d] = r]
  PROVE  fds'[d] = r /\ \A x \in Fd : x # d => fds'[x] = fds[x]
BY DEF TypeInv

LEMMA IInvIf ==
  ASSUME IInv, fat' \in [Cluster -> Link],
         sector' \in [Cluster -> [Sector -> Byte \cup {Blank}]],
         dir' \in [Cluster -> [Slot -> EntryType]], holed' \subseteq File, holed \subseteq holed',
         Volume(fat', Names', Firsts'), Grown(fat, Names, Firsts, fat', Names', Firsts'),
         Fits(fat', Firsts', Sizes'), Unwritten(fat', sector'),
         NEW d \in Fd, NEW r \in Descriptor \cup {Closed}, fds' = [fds EXCEPT ![d] = r],
         r # Closed => Valid(fat', Names', Firsts', holed', r)
  PROVE  IInv'
<1>1. TypeInv BY DEF IInv
<1>2. TypeInv' BY <1>1 DEF TypeInv
<1>3. fds'[d] = r /\ \A x \in Fd : x # d => fds'[x] = fds[x] BY <1>1, PutFd
<1>4. ASSUME NEW x \in Fd, x # d, fds[x] # Closed
      PROVE  Valid(fat', Names', Firsts', holed', fds[x])
  <2>1. PICK D \in Descriptor : D = fds[x] BY <1>1, <1>4 DEF TypeInv
  <2>2. Valid(fat, Names, Firsts, holed, D) BY <1>4, <2>1 DEF IInv
  <2>3. PICK F, N, R, H : F = fat /\ N = Names /\ R = Firsts /\ H = holed OBVIOUS
  <2>4. PICK G, M, Q, J : G = fat' /\ M = Names' /\ Q = Firsts' /\ J = holed' OBVIOUS
  <2>5. Valid(F, N, R, H, D) /\ Grown(F, N, R, G, M, Q) /\ H \subseteq J
    BY <2>2, <2>3, <2>4
  <2>6. Valid(G, M, Q, J, D) BY <2>5, ValidKept
  <2> QED BY <2>1, <2>4, <2>6
<1>5. ASSUME NEW x \in Fd, fds'[x] # Closed
      PROVE  Valid(fat', Names', Firsts', holed', fds'[x])
  BY <1>3, <1>4, <1>5
<1> QED BY <1>2, <1>5 DEF IInv

-----------------------------------------------------------------------------
(* The invariant holds in the beginning.                                   *)

LEMMA Sizes0 ==
  /\ MaxOffset \in Nat /\ bytes_per_cluster \in Nat \ {0} /\ 0 \in 0 .. bytes_per_cluster
  /\ EntriesPerCluster \in Nat \ {0} /\ 0 \in Slot /\ Slot \subseteq Nat
BY SizesAssumption DEF Slot

LEMMA NoEntryType == NoEntry \in EntryType /\ NoEntry.asked = NoName /\ NoEntry.first = 0 /\ NoEntry.size = 0
BY DEF NoEntry, EntryType, CutName

LEMMA InitInv == Init => IInv
<1> SUFFICES ASSUME Init PROVE IInv OBVIOUS
<1>1. /\ fat = [c \in Cluster |-> IF c \in Directory THEN kEndOfClusterchain ELSE Free]
      /\ sector = [c \in Cluster |-> BlankSector]
      /\ dir = [c \in Cluster |-> [i \in Slot |-> NoEntry]]
      /\ fds = [d \in Fd |-> Closed] /\ holed = {}
  BY DEF Init, BlankSector, Sector
<1>2. fat \in [Cluster -> Link] BY <1>1 DEF Link
<1>3. dir \in [Cluster -> [Slot -> EntryType]] BY <1>1, NoEntryType
<1>4. TypeInv BY <1>1, <1>2, <1>3 DEF TypeInv, BlankSector
<1>5. \A e \in File : Names[e] = NoName /\ Firsts[e] = 0 /\ Sizes[e] = 0
  <2>1. \A e \in File : Entry(e) = NoEntry BY <1>1 DEF Entry, File
  <2> QED BY <2>1, NoEntryType DEF Names, Firsts, Sizes
<1>6. StartsOf(Firsts) = Directory BY <1>5, LinkFacts DEF StartsOf
<1>7. Owned(fat, Directory) BY <1>1, <1>2, LinkFacts DEF Owned
<1>8. Roots(Names, Firsts)
  <2>1. Names \in [File -> Name \cup {NoName}] /\ Firsts \in [File -> Cluster \cup {0}]
    <3>1. \A e \in File : Entry(e).asked \in Name \cup {NoName} /\ Entry(e).first \in Cluster \cup {0}
      BY <1>3, EntryIs
    <3> QED BY <3>1 DEF Names, Firsts
  <2> QED BY <1>5, <2>1, LinkFacts DEF Roots
<1>9. Scans(fat, Names)
  <2>1. ASSUME NEW d \in Directory, NEW p \in Spots, Walk(fat, d, p[1]) \in Cluster
        PROVE  Names[Spot(fat, d, p)] = NoName
    <3>1. Spot(fat, d, p) \in File BY <2>1 DEF Spots, Spot, File
    <3> QED BY <1>5, <3>1
  <2> QED BY <1>5, <2>1 DEF Scans, Scanned
<1>10. Fits(fat, Firsts, Sizes) BY <1>5, Sizes0 DEF Fits
<1>11. Unwritten(fat, sector) BY <1>1 DEF Unwritten
<1>12. Volume(fat, Names, Firsts) BY <1>6, <1>7, <1>8, <1>9 DEF Volume
<1> QED BY <1>1, <1>4, <1>10, <1>11, <1>12 DEF IInv

-----------------------------------------------------------------------------
(* Every call keeps it.                                                    *)

LEMMA PutEntry ==
  ASSUME dir \in [Cluster -> [Slot -> EntryType]], NEW e \in File, NEW r \in EntryType,
         dir' = [dir EXCEPT ![e[1]][e[2]] = r]
  PROVE  /\ dir' \in [Cluster -> [Slot -> EntryType]]
         /\ Names' = [Names EXCEPT ![e] = r.asked]
         /\ Firsts' = [Firsts EXCEPT ![e] = r.first]
         /\ Sizes' = [Sizes EXCEPT ![e] = r.size]
<1>1. e[1] \in Cluster /\ e[2] \in Slot /\ e = <<e[1], e[2]>> BY DEF File
<1>2. PICK c \in Cluster, i \in Slot : c = e[1] /\ i = e[2] BY <1>1
<1>3. dir' = [dir EXCEPT ![c] = [dir[c] EXCEPT ![i] = r]] BY <1>2
<1>4. [dir[c] EXCEPT ![i] = r] \in [Slot -> EntryType] OBVIOUS
<1>5. dir' \in [Cluster -> [Slot -> EntryType]] BY <1>3, <1>4
<1>6. ASSUME NEW f \in File PROVE dir'[f[1]][f[2]] = IF f = e THEN r ELSE dir[f[1]][f[2]]
  <2>1. f[1] \in Cluster /\ f[2] \in Slot /\ f = <<f[1], f[2]>> BY DEF File
  <2>2. CASE f[1] = c /\ f[2] = i
    <3>1. f = e BY <1>1, <1>2, <2>1, <2>2
    <3>2. dir'[c][i] = r BY <1>3
    <3> QED BY <2>2, <3>1, <3>2
  <2>3. CASE f[1] = c /\ f[2] # i
    <3>1. f # e BY <1>2, <2>3
    <3>2. dir'[c][f[2]] = dir[c][f[2]] BY <1>3, <2>1, <2>3
    <3> QED BY <2>3, <3>1, <3>2
  <2>4. CASE f[1] # c
    <3>1. f # e BY <1>2, <2>4
    <3>2. dir'[f[1]] = dir[f[1]] BY <1>3, <2>1, <2>4
    <3> QED BY <3>1, <3>2
  <2> QED BY <2>2, <2>3, <2>4
<1>7. Names' = [Names EXCEPT ![e] = r.asked]
  <2>1. Names' = [f \in File |-> dir'[f[1]][f[2]].asked] BY DEF Names, Entry
  <2>2. Names = [f \in File |-> dir[f[1]][f[2]].asked] BY DEF Names, Entry
  <2>3. \A f \in File : dir'[f[1]][f[2]].asked = IF f = e THEN r.asked ELSE dir[f[1]][f[2]].asked BY <1>6
  <2> QED BY <2>1, <2>2, <2>3
<1>8. Firsts' = [Firsts EXCEPT ![e] = r.first]
  <2>1. Firsts' = [f \in File |-> dir'[f[1]][f[2]].first] BY DEF Firsts, Entry
  <2>2. Firsts = [f \in File |-> dir[f[1]][f[2]].first] BY DEF Firsts, Entry
  <2>3. \A f \in File : dir'[f[1]][f[2]].first = IF f = e THEN r.first ELSE dir[f[1]][f[2]].first BY <1>6
  <2> QED BY <2>1, <2>2, <2>3
<1>9. Sizes' = [Sizes EXCEPT ![e] = r.size]
  <2>1. Sizes' = [f \in File |-> dir'[f[1]][f[2]].size] BY DEF Sizes, Entry
  <2>2. Sizes = [f \in File |-> dir[f[1]][f[2]].size] BY DEF Sizes, Entry
  <2>3. \A f \in File : dir'[f[1]][f[2]].size = IF f = e THEN r.size ELSE dir[f[1]][f[2]].size BY <1>6
  <2> QED BY <2>1, <2>2, <2>3
<1> QED BY <1>5, <1>7, <1>8, <1>9

LEMMA NewDescriptorIs ==
  ASSUME NEW e \in File, NEW F, NEW N, NEW R, NEW H, N[e] # NoName
  PROVE  NewDescriptor(e) \in Descriptor /\ Valid(F, N, R, H, NewDescriptor(e))
<1>1. PICK D : D = NewDescriptor(e) OBVIOUS
<1>2. /\ D = [fat_entry |-> e, rd_off |-> 0, rd_cluster |-> 0, rd_cluster_off |-> 0,
              wr_off |-> 0, wr_cluster |-> 0, wr_cluster_off |-> 0, buf |-> NoCall, total |-> 0]
      /\ 0 \in Link /\ 0 \notin Cluster
  BY <1>1, LinkFacts DEF NewDescriptor, Link
<1>3. D \in Descriptor BY <1>2, Sizes0 DEF Descriptor
<1>4. Valid(F, N, R, H, D) BY <1>2, Sizes0 DEF Valid
<1> QED BY <1>1, <1>3, <1>4

LEMMA NewEntryIs ==
  ASSUME NEW path \in Path
  PROVE  /\ NewEntry(path) \in EntryType /\ NewEntry(path).asked = path[2]
         /\ NewEntry(path).first = 0 /\ NewEntry(path).size = 0
         /\ path[1] \in Directory /\ path[2] \in Name /\ path[2] # NoName
<1>1. path[1] \in Directory /\ path[2] \in Name BY DEF Path
<1>2. path[2] # NoName BY <1>1, NameAssumption
<1>3. PICK f, n, r : f = SetFileName(path[2]) /\ n = path[2] /\ r = NewEntry(path) OBVIOUS
<1>4. CutName(path[2]) = SetFileName(path[2]) BY <1>2 DEF CutName
<1>5. f \in [1 .. 11 -> Char] \cup {NoName} /\ n \in Name \cup {NoName}
  BY <1>1, <1>3, <1>4, CutNameIs
<1>6. r = [NoEntry EXCEPT !.name = f, !.asked = n] BY <1>3 DEF NewEntry
<1>7. r.name = f /\ r.asked = n /\ r.first = 0 /\ r.size = 0 BY <1>6 DEF NoEntry
<1>8. r \in EntryType
  <2>1. r \in [name : [1 .. 11 -> Char] \cup {NoName}, asked : Name \cup {NoName},
              first : Cluster \cup {0}, size : Nat]
    BY <1>5, <1>6, NoEntryType DEF EntryType
  <2>2. r.name = CutName(r.asked) BY <1>3, <1>4, <1>7
  <2> QED BY <2>1, <2>2 DEF EntryType
<1> QED BY <1>1, <1>2, <1>3, <1>7, <1>8

(* An entry without a name has neither clusters nor a size.                *)
LEMMA UnnamedIs ==
  ASSUME IInv, NEW e \in File, Names[e] = NoName
  PROVE  Firsts[e] = 0 /\ Sizes[e] = 0
BY DEF IInv, Volume, Roots, Fits

(* Some clusters have been appended, or none.                              *)
Extended(F, G) == G = F \/ \E w, s, n : Appended(F, G, w, s, n)

(* What CreateFile has done when it returns e.                             *)
Created(e) ==
  /\ fat' \in [Cluster -> Link] /\ dir' \in [Cluster -> [Slot -> EntryType]]
  /\ Names'[e] # NoName /\ Firsts' = Firsts /\ Sizes' = Sizes
  /\ Volume(fat', Names', Firsts') /\ Grown(fat, Names, Firsts, fat', Names', Firsts')
  /\ Unwritten(fat', sector)
  /\ Extended(fat, fat')

LEMMA FunctionsAre ==
  ASSUME dir \in [Cluster -> [Slot -> EntryType]]
  PROVE  /\ Names \in [File -> Name \cup {NoName}] /\ Firsts \in [File -> Cluster \cup {0}]
         /\ Sizes \in [File -> Nat]
<1>1. \A e \in File : /\ Entry(e).asked \in Name \cup {NoName} /\ Entry(e).first \in Cluster \cup {0}
                      /\ Entry(e).size \in Nat
  BY EntryIs
<1> QED BY <1>1 DEF Names, Firsts, Sizes

LEMMA CreatedInPlace ==
  ASSUME IInv, NEW path \in Path, NEW e \in File, FindFile(path) = {}, CreateInPlace(path, e)
  PROVE  Created(e)
<1>0. TypeInv /\ Volume(fat, Names, Firsts) /\ dir \in [Cluster -> [Slot -> EntryType]]
      /\ fat \in [Cluster -> Link] /\ fat' = fat
  BY DEF IInv, TypeInv, CreateInPlace
<1>1. PICK r \in EntryType : /\ r = NewEntry(path) /\ r.asked = path[2] /\ r.first = 0 /\ r.size = 0
  BY NewEntryIs
<1>2. PICK d \in Directory, name \in Name : d = path[1] /\ name = path[2] /\ name # NoName BY NewEntryIs
<1>3. /\ dir' \in [Cluster -> [Slot -> EntryType]]
      /\ Names' = [Names EXCEPT ![e] = name]
      /\ Firsts' = [Firsts EXCEPT ![e] = 0] /\ Sizes' = [Sizes EXCEPT ![e] = 0]
  <2>1. dir' = [dir EXCEPT ![e[1]][e[2]] = r] BY <1>1 DEF CreateInPlace
  <2>2. /\ Names' = [Names EXCEPT ![e] = r.asked] /\ Firsts' = [Firsts EXCEPT ![e] = r.first]
        /\ Sizes' = [Sizes EXCEPT ![e] = r.size] /\ dir' \in [Cluster -> [Slot -> EntryType]]
    BY <1>0, <2>1, PutEntry
  <2> QED BY <1>1, <1>2, <2>2
<1>4. PICK p \in Places(d) : /\ e = EntryAt(d, p) /\ NameAt(d, p) = NoName
                             /\ \A q \in Places(d) : Before(q, p) => NameAt(d, q) # NoName
  BY <1>2 DEF CreateInPlace, UnusedEntry
<1>5. p \in Spots /\ Walk(fat, d, p[1]) \in Cluster /\ e = Spot(fat, d, p) /\ Names[e] = NoName
  BY <1>0, <1>4, PlacesAre
<1>6. ASSUME NEW q \in Spots, Before(q, p)
      PROVE  Names[Spot(fat, d, q)] # NoName /\ ~Hides(Names[Spot(fat, d, q)], name)
  <2>1. q[1] \in 0 .. p[1] /\ p[1] \in Nat BY <1>5, <1>6 DEF Spots, Before
  <2>2. Walk(fat, d, q[1]) \in Cluster BY <1>5, <2>1, WalkStarts
  <2>3. /\ q \in Places(d) /\ NameAt(d, q) = CutName(Names[Spot(fat, d, q)])
        /\ NameAt(d, q) = NoName <=> Names[Spot(fat, d, q)] = NoName
    BY <1>0, <2>2, PlacesAre
  <2>4. ASSUME NEW x \in Places(d), x = q \/ Before(x, q) PROVE NameAt(d, x) # NoName
    <3>1. /\ p[1] \in Int /\ q[1] \in Int /\ p[2] \in Int /\ q[2] \in Int
          /\ x[1] \in Int /\ x[2] \in Int
      BY <2>3 DEF Places, Slot
    <3>2. Before(x, p) BY <1>6, <2>4, <3>1 DEF Before
    <3> QED BY <1>4, <3>2
  <2>5. ~NameIsEqual(NameAt(d, q), NextPathElement(name)) BY <1>2, <2>3, <2>4, NoneFound
  <2> QED BY <1>4, <1>6, <2>3, <2>5 DEF Hides
<1>7. Firsts' = Firsts /\ Sizes' = Sizes
  <2>1. Firsts[e] = 0 /\ Sizes[e] = 0 BY <1>5, UnnamedIs
  <2>2. Firsts \in [File -> Cluster \cup {0}] /\ Sizes \in [File -> Nat] BY <1>0, FunctionsAre
  <2> QED BY <1>3, <2>1, <2>2
<1>8. Names'[e] = name /\ \A f \in File : f # e => Names'[f] = Names[f]
  <2>1. Names \in [File -> Name \cup {NoName}] BY <1>0, FunctionsAre
  <2> QED BY <1>3, <2>1
<1>9. Volume(fat, Names', Firsts)
  <2>1. PICK F, N, R, M : F = fat /\ N = Names /\ R = Firsts /\ M = Names' OBVIOUS
  <2>2. /\ Volume(F, N, R) /\ p \in Spots /\ Walk(F, d, p[1]) \in Cluster /\ e = Spot(F, d, p)
        /\ N[e] = NoName /\ M = [N EXCEPT ![e] = name]
        /\ \A q \in Spots : Before(q, p) =>
             N[Spot(F, d, q)] # NoName /\ ~Hides(N[Spot(F, d, q)], name)
    BY <1>0, <1>3, <1>5, <1>6, <2>1
  <2>3. Volume(F, M, R) BY <2>2, VolumeNames
  <2> QED BY <2>1, <2>3
<1>10. Grown(fat, Names, Firsts, fat, Names', Firsts) BY <1>2, <1>8 DEF Grown
<1> QED BY <1>0, <1>2, <1>3, <1>7, <1>8, <1>9, <1>10 DEF Created, Extended, IInv

LEMMA AppendUnwritten ==
  ASSUME NEW F, NEW G, NEW w, NEW s, NEW n, Appended(F, G, w, s, n),
         NEW c \in Cluster, G[c] = Free
  PROVE  F[c] = Free /\ \A i \in 1 .. n : s[i] # c
<1>1. \A i \in 1 .. n : s[i] # c BY AppendFacts
<1>2. ASSUME F[c] # Free PROVE FALSE
  <2>1. c = w BY <1>2, AppendFacts
  <2>2. G[c] = s[1] /\ 1 \in 1 .. n BY <2>1, AppendFacts, LinkFacts DEF Appended
  <2>3. s[1] \in Cluster BY <2>2, AppendFacts
  <2> QED BY <2>2, <2>3, LinkFacts
<1> QED BY <1>1, <1>2

LEMMA CreatedInNewCluster ==
  ASSUME IInv, NEW path \in Path, NEW e \in File, FindFile(path) = {}, CreateInNewCluster(path, e)
  PROVE  Created(e)
<1>0. TypeInv /\ Volume(fat, Names, Firsts) /\ dir \in [Cluster -> [Slot -> EntryType]]
      /\ fat \in [Cluster -> Link] /\ Unwritten(fat, sector)
  BY DEF IInv, TypeInv
<1>1. PICK r \in EntryType : /\ r = NewEntry(path) /\ r.asked = path[2] /\ r.first = 0 /\ r.size = 0
  BY NewEntryIs
<1>2. PICK d \in Directory, name \in Name : d = path[1] /\ name = path[2] /\ name # NoName BY NewEntryIs
<1>3. PICK eoc \in Cluster, s \in FreeClusters(1) :
        /\ \E n \in 0 .. Clusters - 1 : Behind(d, n) = eoc
        /\ fat[eoc] = kEndOfClusterchain
        /\ e[1] = s[1]
        /\ fat' = ExtendCluster(eoc, s)
        /\ dir' = [dir EXCEPT ![s[1]] = [i \in Slot |-> IF i = 0 THEN r ELSE NoEntry]]
  BY <1>1, <1>2 DEF CreateInNewCluster
<1>4. PICK m \in Nat : Walk(fat, d, m) = eoc
  <2>1. PICK n \in 0 .. Clusters - 1 : Behind(d, n) = eoc BY <1>3
  <2> QED BY <2>1, BehindWalks
<1>5. Appended(fat, fat', eoc, s, 1)
  <2>1. 1 \in Nat \ {0} OBVIOUS
  <2> QED BY <1>0, <1>3, <2>1, ExtendClusterIs
<1>6. s[1] \in Cluster /\ fat[s[1]] = Free /\ e = <<s[1], 0>>
  <2>1. 1 \in 1 .. 1 OBVIOUS
  <2>2. s[1] \in Cluster /\ fat[s[1]] = Free BY <1>5, <2>1 DEF Appended
  <2>3. e[2] = 0 /\ e = <<e[1], e[2]>> BY DEF CreateInNewCluster, File
  <2> QED BY <1>3, <2>2, <2>3
<1>7. PICK A : A = StartsOf(Firsts) OBVIOUS
<1>8. Owned(fat, A) /\ Directory \subseteq A BY <1>0, <1>7, StartsFacts DEF Volume
<1>9. fat' \in [Cluster -> Link] BY <1>5 DEF Appended
\* The new cluster's entries were unused.
<1>10. ASSUME NEW i \in Slot PROVE <<s[1], i>> \in File /\ Names[<<s[1], i>>] = NoName
  <2>1. PICK f \in File : f = <<s[1], i>> BY <1>6 DEF File
  <2>2. ASSUME Names[f] # NoName PROVE FALSE
    <3>1. InDirectory(fat, s[1]) BY <1>0, <2>1, <2>2 DEF Volume, Scans
    <3>2. PICK b \in Directory, k \in Nat : Walk(fat, b, k) = s[1] BY <3>1 DEF InDirectory
    <3>3. b \in A BY <1>8
    <3>4. fat[s[1]] # Free BY <1>6, <1>8, <3>2, <3>3, WalkUsed
    <3> QED BY <1>6, <3>4
  <2> QED BY <2>1, <2>2
<1>11. dir' \in [Cluster -> [Slot -> EntryType]]
  <2>1. [i \in Slot |-> IF i = 0 THEN r ELSE NoEntry] \in [Slot -> EntryType] BY NoEntryType
  <2> QED BY <1>0, <1>3, <2>1
<1>12. ASSUME NEW f \in File
       PROVE  dir'[f[1]][f[2]] = IF f = e THEN r
                                 ELSE IF f[1] = s[1] THEN NoEntry ELSE dir[f[1]][f[2]]
  <2>1. f[1] \in Cluster /\ f[2] \in Slot /\ f = <<f[1], f[2]>> BY DEF File
  <2>2. CASE f[1] = s[1]
    <3>1. dir'[s[1]] = [i \in Slot |-> IF i = 0 THEN r ELSE NoEntry] BY <1>0, <1>3, <1>6
    <3>2. f = e <=> f[2] = 0 BY <1>6, <2>1, <2>2
    <3> QED BY <2>1, <2>2, <3>1, <3>2
  <2>3. CASE f[1] # s[1]
    <3>1. dir'[f[1]] = dir[f[1]] BY <1>0, <1>3, <2>1, <2>3
    <3>2. f # e BY <1>6, <2>3
    <3> QED BY <2>3, <3>1, <3>2
  <2> QED BY <2>2, <2>3
<1>13. ASSUME NEW f \in File
       PROVE  /\ Names'[f] = IF f = e THEN name ELSE Names[f]
              /\ Firsts'[f] = Firsts[f] /\ Sizes'[f] = Sizes[f]
  <2>1. /\ Names'[f] = dir'[f[1]][f[2]].asked /\ Firsts'[f] = dir'[f[1]][f[2]].first
        /\ Sizes'[f] = dir'[f[1]][f[2]].size
    BY DEF Names, Firsts, Sizes, Entry
  <2>2. /\ Names[f] = dir[f[1]][f[2]].asked /\ Firsts[f] = dir[f[1]][f[2]].first
        /\ Sizes[f] = dir[f[1]][f[2]].size
    BY DEF Names, Firsts, Sizes, Entry
  <2>3. CASE f[1] = s[1]
    <3>1. f[2] \in Slot /\ f = <<s[1], f[2]>> BY <2>3 DEF File
    <3>2. Names[f] = NoName BY <1>10, <3>1
    <3>3. Firsts[f] = 0 /\ Sizes[f] = 0 BY <3>2, UnnamedIs
    <3> QED BY <1>1, <1>2, <1>12, <2>1, <2>3, <3>2, <3>3, NoEntryType
  <2>4. CASE f[1] # s[1]
    <3>1. f # e BY <1>6, <2>4
    <3> QED BY <1>12, <2>1, <2>2, <2>4, <3>1
  <2> QED BY <2>3, <2>4
<1>14. Names' = [Names EXCEPT ![e] = name] /\ Firsts' = Firsts /\ Sizes' = Sizes
  <2>1. /\ Names = [f \in File |-> Names[f]] /\ Firsts = [f \in File |-> Firsts[f]]
        /\ Sizes = [f \in File |-> Sizes[f]]
    BY DEF Names, Firsts, Sizes
  <2>2. /\ Names' = [f \in File |-> Names'[f]] /\ Firsts' = [f \in File |-> Firsts'[f]]
        /\ Sizes' = [f \in File |-> Sizes'[f]]
    BY DEF Names, Firsts, Sizes
  <2>3. Names' = [Names EXCEPT ![e] = name] BY <1>13, <2>1, <2>2
  <2>4. Firsts' = Firsts BY <1>13, <2>1, <2>2
  <2>5. Sizes' = Sizes BY <1>13, <2>1, <2>2
  <2> QED BY <2>3, <2>4, <2>5
<1>15. PICK p : p = <<m + 1, 0>> OBVIOUS
<1>16. Volume(fat', Names', Firsts) /\ Grown(fat, Names, Firsts, fat', Names', Firsts)
  <2>1. PICK F, N, R, M, G : F = fat /\ N = Names /\ R = Firsts /\ M = Names' /\ G = fat' OBVIOUS
  <2>2. Volume(F, N, R) /\ Appended(F, G, eoc, s, 1) /\ M = [N EXCEPT ![e] = name]
    BY <1>0, <1>5, <1>14, <2>1
  <2>3. Volume(G, N, R) BY <2>2, VolumeGrows
  <2>4. Walk(G, d, m + 1) = s[1]
    <3>1. Owned(F, A) /\ d \in A /\ Walk(F, d, m) = eoc BY <1>4, <1>8, <2>1
    <3> QED BY <2>2, <3>1, AppendAfter
  <2>5. /\ p \in Spots /\ p[1] = m + 1 /\ p[2] = 0 /\ Walk(G, d, p[1]) \in Cluster
        /\ e = Spot(G, d, p) /\ N[e] = NoName
    <3>1. p \in Spots /\ p[1] = m + 1 /\ p[2] = 0 BY <1>15, Sizes0 DEF Spots
    <3>2. e = Spot(G, d, p) BY <1>6, <2>4, <3>1 DEF Spot
    <3>3. N[e] = NoName BY <1>6, <1>10, <2>1, Sizes0
    <3> QED BY <1>6, <2>4, <3>1, <3>2, <3>3
  <2>6. ASSUME NEW q \in Spots, Before(q, p) 
        PROVE  N[Spot(G, d, q)] # NoName /\ ~Hides(N[Spot(G, d, q)], name)
    <3>1. q[1] \in 0 .. m /\ q[1] \in Nat
      <4>1. q[1] \in Nat /\ q[2] \in Nat BY DEF Spots, Slot
      <4>2. q[1] < m + 1 BY <2>5, <2>6, <4>1 DEF Before
      <4> QED BY <4>1, <4>2
    <3>2. Walk(F, d, m) \in Cluster BY <1>4, <2>1
    <3>3. Walk(F, d, q[1]) \in Cluster BY <3>1, <3>2, WalkStarts
    <3>4. Walk(G, d, q[1]) = Walk(F, d, q[1])
      <4>1. Owned(F, A) /\ d \in A BY <1>8, <2>1
      <4> QED BY <2>2, <3>1, <3>3, <4>1, AppendKeeps
    <3>5. /\ q \in Places(d) /\ NameAt(d, q) = CutName(N[Spot(F, d, q)])
          /\ NameAt(d, q) = NoName <=> N[Spot(F, d, q)] = NoName
      <4>1. Walk(fat, d, q[1]) \in Cluster BY <2>1, <3>3
      <4> QED BY <1>0, <2>1, <4>1, PlacesAre
    <3>6. \A x \in Places(d) : NameAt(d, x) # NoName BY <1>2, NoneUnused DEF CreateInNewCluster
    <3>7. ~NameIsEqual(NameAt(d, q), NextPathElement(name)) BY <1>2, <3>5, <3>6, NoneFound
    <3> QED BY <3>4, <3>5, <3>6, <3>7 DEF Spot, Hides
  <2>7. Volume(G, M, R) BY <2>2, <2>3, <2>5, <2>6, VolumeNames
  <2>8. ASSUME NEW f \in File, N[f] # NoName PROVE M[f] # NoName
    <3>1. M[f] = IF f = e THEN name ELSE N[f] BY <1>13, <2>1
    <3> QED BY <1>2, <2>8, <3>1
  <2>9. Grown(F, N, R, G, M, R) BY <2>2, <2>8, AppendGrows DEF Grown
  <2> QED BY <2>1, <2>7, <2>9
<1>17. Unwritten(fat', sector) BY <1>0, <1>5, AppendUnwritten DEF Unwritten
<1>18. Names'[e] # NoName BY <1>2, <1>13
<1> QED BY <1>5, <1>9, <1>11, <1>14, <1>16, <1>17, <1>18 DEF Created, Extended

LEMMA SameNames ==
  ASSUME UNCHANGED dir
  PROVE  Names' = Names /\ Firsts' = Firsts /\ Sizes' = Sizes
BY DEF Names, Firsts, Sizes, Entry

LEMMA OpenFileIs ==
  ASSUME IInv, NEW d \in Fd, NEW path \in Path, OpenFile(d, path)
  PROVE  \E e \in File : Created(e) /\ fds' = [fds EXCEPT ![d] = NewDescriptor(e)]
<1>0. TypeInv /\ Volume(fat, Names, Firsts) /\ dir \in [Cluster -> [Slot -> EntryType]]
      /\ fat \in [Cluster -> Link] /\ Unwritten(fat, sector)
  BY DEF IInv, TypeInv
<1>1. PICK e \in File :
        /\ \/ e \in FindFile(path) /\ UNCHANGED <<fat, dir>>
           \/ FindFile(path) = {} /\ (CreateInPlace(path, e) \/ CreateInNewCluster(path, e))
        /\ fds' = [fds EXCEPT ![d] = NewDescriptor(e)]
  BY DEF OpenFile
<1>2. Created(e)
  <2>1. CASE e \in FindFile(path) /\ UNCHANGED <<fat, dir>>
    <3>1. Names[e] # NoName BY <1>0, <2>1, FindFileIs
    <3>2. Names' = Names /\ Firsts' = Firsts /\ Sizes' = Sizes /\ fat' = fat /\ dir' = dir
      BY <2>1, SameNames
    <3> QED BY <1>0, <3>1, <3>2, SameGrows DEF Created, Extended
  <2>2. CASE FindFile(path) = {} /\ CreateInPlace(path, e) BY <2>2, CreatedInPlace
  <2>3. CASE FindFile(path) = {} /\ CreateInNewCluster(path, e) BY <2>3, CreatedInNewCluster
  <2> QED BY <1>1, <2>1, <2>2, <2>3
<1> QED BY <1>1, <1>2

LEMMA OpenFileKeeps ==
  ASSUME IInv, NEW d \in Fd, NEW path \in Path, OpenFile(d, path)
  PROVE  IInv'
<1>0. TypeInv /\ Volume(fat, Names, Firsts) /\ dir \in [Cluster -> [Slot -> EntryType]]
      /\ fat \in [Cluster -> Link] /\ Unwritten(fat, sector) /\ Fits(fat, Firsts, Sizes)
      /\ sector \in [Cluster -> [Sector -> Byte \cup {Blank}]] /\ holed \subseteq File
  BY DEF IInv, TypeInv
<1>1. PICK e \in File : Created(e) /\ fds' = [fds EXCEPT ![d] = NewDescriptor(e)]
  BY OpenFileIs
<1>2. sector' = sector /\ holed' = holed BY DEF OpenFile
<1>3. Created(e) BY <1>1
<1>4. PICK r : r = NewDescriptor(e) OBVIOUS
<1>5. r \in Descriptor /\ Valid(fat', Names', Firsts', holed', r)
  <2>1. PICK G, M, Q, J : G = fat' /\ M = Names' /\ Q = Firsts' /\ J = holed' OBVIOUS
  <2>2. M[e] # NoName BY <1>3, <2>1 DEF Created
  <2>3. r \in Descriptor /\ Valid(G, M, Q, J, r) BY <1>4, <2>2, NewDescriptorIs
  <2> QED BY <2>1, <2>3
<1>6. Fits(fat', Firsts', Sizes')
  <2>1. PICK F, N, R, G, M, Q, S :
          F = fat /\ N = Names /\ R = Firsts /\ G = fat' /\ M = Names' /\ Q = Firsts' /\ S = Sizes
    OBVIOUS
  <2>2. Grown(F, N, R, G, M, Q) /\ Fits(F, R, S) BY <1>0, <1>3, <2>1 DEF Created
  <2>3. Fits(G, Q, S) BY <2>2, FitsKept
  <2> QED BY <1>3, <2>1, <2>3 DEF Created
<1>7. fds' = [fds EXCEPT ![d] = r] BY <1>1, <1>4
<1> QED BY <1>0, <1>2, <1>3, <1>5, <1>6, <1>7, IInvIf DEF Created

(* A step that leaves the volume alone.                                    *)
LEMMA IInvReads ==
  ASSUME IInv, UNCHANGED <<fat, sector, dir, holed>>,
         NEW d \in Fd, NEW r \in Descriptor \cup {Closed}, fds' = [fds EXCEPT ![d] = r],
         r # Closed => Valid(fat, Names, Firsts, holed, r)
  PROVE  IInv'
<1>1. /\ Volume(fat, Names, Firsts) /\ dir \in [Cluster -> [Slot -> EntryType]]
      /\ fat \in [Cluster -> Link] /\ Unwritten(fat, sector) /\ Fits(fat, Firsts, Sizes)
      /\ sector \in [Cluster -> [Sector -> Byte \cup {Blank}]] /\ holed \subseteq File
  BY DEF IInv, TypeInv
<1>2. Names' = Names /\ Firsts' = Firsts /\ Sizes' = Sizes BY SameNames
<1>3. Grown(fat, Names, Firsts, fat, Names, Firsts) BY SameGrows
<1> QED BY <1>1, <1>2, <1>3, IInvIf

LEMMA CloseKeeps ==
  ASSUME IInv, NEW d \in Fd, Close(d)
  PROVE  IInv'
BY IInvReads DEF Close

(* A descriptor that is open.                                              *)
LEMMA Opened ==
  ASSUME IInv, NEW d \in Fd, fds[d] # Closed
  PROVE  /\ fds[d] \in Descriptor /\ Valid(fat, Names, Firsts, holed, fds[d])
         /\ fds[d].fat_entry \in File
         /\ Entry(fds[d].fat_entry).first = Firsts[fds[d].fat_entry]
         /\ Firsts[fds[d].fat_entry] \in Cluster \cup {0}
         /\ Entry(fds[d].fat_entry).size = Sizes[fds[d].fat_entry]
         /\ Sizes[fds[d].fat_entry] \in Nat
         /\ Entry(fds[d].fat_entry).asked \in Name
<1>1. TypeInv /\ Valid(fat, Names, Firsts, holed, fds[d]) BY DEF IInv
<1>2. fds[d] \in Descriptor BY <1>1 DEF TypeInv
<1>3. fds[d].fat_entry \in File BY <1>2 DEF Descriptor
<1>4. PICK e \in File : e = fds[d].fat_entry BY <1>3
<1>5. /\ Names[e] = Entry(e).asked /\ Firsts[e] = Entry(e).first /\ Sizes[e] = Entry(e).size
      /\ Entry(e).asked \in Name \cup {NoName} /\ Entry(e).first \in Cluster \cup {0}
      /\ Entry(e).size \in Nat
  BY <1>1, EntryIs DEF TypeInv
<1>6. Names[e] # NoName BY <1>1, <1>4 DEF Valid
<1> QED BY <1>1, <1>2, <1>4, <1>5, <1>6

LEMMA NumClusterIs ==
  ASSUME NEW bytes \in Nat \ {0}
  PROVE  /\ NumCluster(bytes) \in Nat \ {0}
         /\ bytes <= bytes_per_cluster <=> NumCluster(bytes) = 1
<1>1. PICK b : b = bytes_per_cluster OBVIOUS
<1>2. b \in Nat \ {0} BY <1>1, SizesAssumption
<1>3. PICK x : x = bytes + b - 1 OBVIOUS
<1>4. x \in Nat /\ x >= b BY <1>2, <1>3
<1>5. PICK q, r : q = x \div b /\ r = x % b OBVIOUS
<1>6. q \in Nat /\ r \in 0 .. b - 1 /\ x = q * b + r BY <1>1, <1>4, <1>5, DivIs DEF Sector
<1>7. q # 0
  <2>1. q = 0 => q * b = 0 BY <1>2
  <2> QED BY <1>2, <1>4, <1>6, <2>1
<1>8. ASSUME bytes <= b PROVE q = 1
  <2>1. x - b \in 0 .. b - 1 /\ x = 1 * b + (x - b) BY <1>2, <1>3, <1>4, <1>8
  <2>2. PICK y : y = x - b OBVIOUS
  <2>3. y \in Sector /\ x = 1 * bytes_per_cluster + y /\ 1 \in Nat BY <1>1, <2>1, <2>2 DEF Sector
  <2>4. x \div bytes_per_cluster = 1 BY <2>3, DivOf
  <2> QED BY <1>1, <1>5, <2>4
<1>9. ASSUME q = 1 PROVE bytes <= b
  <2>1. q * b = b BY <1>2, <1>9
  <2> QED BY <1>2, <1>3, <1>6, <2>1
<1>10. NumCluster(bytes) = q BY <1>1, <1>3, <1>5 DEF NumCluster
<1> QED BY <1>1, <1>6, <1>7, <1>8, <1>9, <1>10

LEMMA FreeClustersAre ==
  ASSUME NEW n \in Nat \ {0}, NEW s \in FreeClusters(n)
  PROVE  Len(s) = n /\ s \in Seq(Cluster) /\ s[Len(s)] = s[n]
<1>1. s \in [1 .. n -> Cluster] BY DEF FreeClusters
<1> QED BY <1>1

LEMMA AtStart ==
  ASSUME NEW F, NEW a, NEW x
  PROVE  WritesAt(F, a, a, 0, 0, x) /\ ReadsAt(F, a, a, 0, 0)
<1>1. Walk(F, a, 0) = a BY WalkIs
<1>2. 0 * bytes_per_cluster = 0 BY SizesAssumption
<1>3. 0 \div bytes_per_cluster = 0 /\ 0 % bytes_per_cluster = 0
  <2>1. 0 \in Sector /\ 0 = 0 * bytes_per_cluster + 0 /\ 0 \in Nat BY <1>2, SizesAssumption DEF Sector
  <2> QED BY <2>1, DivOf
<1> QED BY <1>1, <1>2, <1>3 DEF WritesAt, ReadsAt

(* The buffer and the first cluster of a Write that begins.                *)
Beginning(D, cluster, buf) == [D EXCEPT !.wr_cluster = cluster, !.buf = buf]

LEMMA BeginningIs ==
  ASSUME NEW F, NEW N, NEW R, NEW H, NEW D \in Descriptor, Valid(F, N, R, H, D), D.buf = NoCall,
         NEW cluster \in Cluster, NEW buf \in Buffer, D.wr_off + Len(buf) <= MaxOffset,
         cluster = IF D.wr_cluster = 0 THEN R[D.fat_entry] ELSE D.wr_cluster
  PROVE  /\ Beginning(D, cluster, buf) \in Descriptor
         /\ Valid(F, N, R, H, Beginning(D, cluster, buf))
<1>0. 0 \notin Cluster /\ buf # NoCall /\ Len(buf) \in Nat /\ buf \in Seq(Byte)
  BY LinkFacts, BufferAssumption
<1>1. PICK E : E = Beginning(D, cluster, buf) OBVIOUS
<1>2. /\ E.fat_entry = D.fat_entry /\ E.rd_off = D.rd_off /\ E.rd_cluster = D.rd_cluster
      /\ E.rd_cluster_off = D.rd_cluster_off /\ E.wr_off = D.wr_off /\ E.wr_cluster = cluster
      /\ E.wr_cluster_off = D.wr_cluster_off /\ E.buf = buf /\ E.total = D.total
      /\ E \in Descriptor
  BY <1>1 DEF Beginning, Descriptor
<1>3. D.total = 0 BY DEF Valid
<1>4. R[E.fat_entry] # 0
  BY <1>0, <1>2 DEF Valid
<1>5. WritesAt(F, R[E.fat_entry], cluster, E.wr_cluster_off, E.wr_off + E.total, E.fat_entry \notin H)
  <2>1. CASE D.wr_cluster = 0
    <3>1. cluster = R[E.fat_entry] /\ E.wr_cluster_off = 0 /\ E.wr_off = 0 /\ E.total = 0
      BY <1>2, <2>1 DEF Valid
    <3>2. E.wr_off + E.total = 0 BY <3>1
    <3> QED BY <3>1, <3>2, AtStart
  <2>2. CASE D.wr_cluster # 0 BY <1>2, <2>2 DEF Valid
  <2> QED BY <2>1, <2>2
<1>6. D.wr_off \in Nat BY DEF Descriptor
<1> QED BY <1>0, <1>1, <1>2, <1>3, <1>4, <1>5, <1>6 DEF Valid

(* The first Write of a descriptor finds the first cluster or makes one.   *)
Begun(d, D, buf, c) ==
  /\ fds' = [fds EXCEPT ![d] = Beginning(D, c, buf)]
  /\ \/ /\ c = IF D.wr_cluster = 0 THEN Firsts[D.fat_entry] ELSE D.wr_cluster
        /\ UNCHANGED <<fat, dir>>
     \/ /\ D.wr_cluster = 0 /\ Firsts[D.fat_entry] = 0
        /\ dir' \in [Cluster -> [Slot -> EntryType]]
        /\ Names' = Names /\ Sizes' = Sizes /\ Firsts' = [Firsts EXCEPT ![D.fat_entry] = c]
        /\ \E s, n : Appended(fat, fat', 0, s, n) /\ c = s[1]

LEMMA BeginWriteIs ==
  ASSUME IInv, NEW d \in Fd, NEW buf \in Buffer, BeginWrite(d, buf)
  PROVE  \E D \in Descriptor, c \in Cluster :
           /\ D = fds[d] /\ D.buf = NoCall /\ D.wr_off + Len(buf) <= MaxOffset
           /\ Begun(d, D, buf, c)
<1>0. /\ TypeInv /\ Volume(fat, Names, Firsts) /\ dir \in [Cluster -> [Slot -> EntryType]]
      /\ fat \in [Cluster -> Link] /\ Unwritten(fat, sector) /\ Fits(fat, Firsts, Sizes)
      /\ sector \in [Cluster -> [Sector -> Byte \cup {Blank}]] /\ holed \subseteq File
      /\ fds \in [Fd -> Descriptor \cup {Closed}]
  BY DEF IInv, TypeInv
<1>1. fds[d] # Closed /\ fds[d].buf = NoCall BY DEF BeginWrite, Idle
<1>2. PICK D \in Descriptor : D = fds[d] BY <1>1, Opened
<1>3. PICK e \in File : e = D.fat_entry BY <1>1, <1>2, Opened
<1>4. /\ Valid(fat, Names, Firsts, holed, D) /\ D.buf = NoCall
      /\ Entry(e).first = Firsts[e] /\ Firsts[e] \in Cluster \cup {0} /\ Entry(e).asked \in Name
  BY <1>1, <1>2, <1>3, Opened
<1>5. buf \in Seq(Byte) /\ Len(buf) \in Nat BY BufferAssumption
<1>6. D.wr_off + Len(buf) <= MaxOffset
  <2>1. D.wr_off + Len(buf) <= MaxBytes[Entry(e).asked] BY <1>2, <1>3 DEF BeginWrite
  <2>2. MaxBytes[Entry(e).asked] \in 0 .. MaxOffset /\ MaxOffset \in Nat BY <1>4, SizesAssumption
  <2>3. D.wr_off \in Nat BY DEF Descriptor
  <2> QED BY <1>5, <2>1, <2>2, <2>3
<1>7. PICK cluster : cluster = IF D.wr_cluster = 0 THEN Firsts[e] ELSE D.wr_cluster OBVIOUS
<1>8. cluster \in Cluster \cup {0} /\ D.wr_cluster \in Cluster \cup {0} BY <1>4, <1>7 DEF Descriptor
<1>9. PICK n : n = IF buf = <<>> THEN 1 ELSE NumCluster(Len(buf)) OBVIOUS
<1>10. n \in Nat \ {0} BY <1>5, <1>9, NumClusterIs
<1>12. \/ /\ cluster # 0
          /\ fds' = [fds EXCEPT ![d].wr_cluster = cluster, ![d].buf = buf]
          /\ UNCHANGED <<fat, dir>>
       \/ /\ cluster = 0
          /\ \E s \in FreeClusters(n) :
               /\ fat' = Linked(s)
               /\ dir' = [dir EXCEPT ![e[1]][e[2]].first = s[1]]
               /\ fds' = [fds EXCEPT ![d].wr_cluster = s[1], ![d].buf = buf]
  BY <1>2, <1>3, <1>4, <1>7, <1>9 DEF BeginWrite
<1>13. ASSUME NEW c \in Cluster, fds' = [fds EXCEPT ![d].wr_cluster = c, ![d].buf = buf]
       PROVE  fds' = [fds EXCEPT ![d] = Beginning(D, c, buf)]
  BY <1>0, <1>2, <1>13 DEF Beginning
<1>14. CASE cluster # 0
  <2>1. cluster \in Cluster /\ fds' = [fds EXCEPT ![d].wr_cluster = cluster, ![d].buf = buf]
        /\ UNCHANGED <<fat, dir>>
    BY <1>8, <1>12, <1>14
  <2>2. fds' = [fds EXCEPT ![d] = Beginning(D, cluster, buf)] BY <1>13, <2>1
  <2>3. cluster = IF D.wr_cluster = 0 THEN Firsts[D.fat_entry] ELSE D.wr_cluster BY <1>3, <1>7
  <2>4. Begun(d, D, buf, cluster) BY <2>1, <2>2, <2>3 DEF Begun
  <2> QED BY <1>2, <1>4, <1>6, <2>1, <2>4
<1>15. CASE cluster = 0
  <2>1. PICK s \in FreeClusters(n) :
          /\ fat' = Linked(s)
          /\ dir' = [dir EXCEPT ![e[1]][e[2]].first = s[1]]
          /\ fds' = [fds EXCEPT ![d].wr_cluster = s[1], ![d].buf = buf]
    BY <1>12, <1>15
  <2>2. Appended(fat, fat', 0, s, n) BY <1>0, <1>10, <2>1, LinkedIs
  <2>3. s[1] \in Cluster /\ 1 \in 1 .. n BY <2>2, AppendFacts
  <2>4. D.wr_cluster = 0 /\ Firsts[e] = 0 BY <1>7, <1>8, <1>15, LinkFacts
  <2>5. PICK r \in EntryType : /\ r = [Entry(e) EXCEPT !.first = s[1]] /\ r.asked = Entry(e).asked
                               /\ r.first = s[1] /\ r.size = Entry(e).size
    <3>1. PICK x \in EntryType : x = Entry(e) BY <1>0, EntryIs
    <3>2. PICK c \in Cluster : c = s[1] BY <2>3
    <3>3. PICK y : y = [x EXCEPT !.first = c] OBVIOUS
    <3>4. y \in EntryType /\ y.asked = x.asked /\ y.first = c /\ y.size = x.size
      BY <3>3 DEF EntryType
    <3> QED BY <3>1, <3>2, <3>3, <3>4
  <2>6. dir' = [dir EXCEPT ![e[1]][e[2]] = r]
    <3>1. e[1] \in Cluster /\ e[2] \in Slot BY DEF File
    <3> QED BY <1>0, <2>1, <2>5, <3>1 DEF Entry
  <2>7. /\ dir' \in [Cluster -> [Slot -> EntryType]]
        /\ Names' = Names /\ Firsts' = [Firsts EXCEPT ![e] = s[1]] /\ Sizes' = Sizes
    <3>1. /\ dir' \in [Cluster -> [Slot -> EntryType]]
          /\ Names' = [Names EXCEPT ![e] = r.asked] /\ Firsts' = [Firsts EXCEPT ![e] = r.first]
          /\ Sizes' = [Sizes EXCEPT ![e] = r.size]
      BY <1>0, <2>6, PutEntry
    <3>2. r.asked = Names[e] /\ r.size = Sizes[e] BY <1>0, <2>5, EntryIs
    <3>3. /\ Names \in [File -> Name \cup {NoName}] /\ Sizes \in [File -> Nat]
      BY <1>0, FunctionsAre
    <3> QED BY <2>5, <3>1, <3>2, <3>3
  <2>8. PICK c \in Cluster : c = s[1] BY <2>3
  <2>9. fds' = [fds EXCEPT ![d] = Beginning(D, c, buf)] BY <1>13, <2>1, <2>8
  <2>10. Firsts' = [Firsts EXCEPT ![D.fat_entry] = c] BY <1>3, <2>7, <2>8
  <2>11. D.wr_cluster = 0 /\ Firsts[D.fat_entry] = 0 BY <1>3, <2>4
  <2>12. Begun(d, D, buf, c) BY <2>2, <2>7, <2>8, <2>9, <2>10, <2>11 DEF Begun
  <2> QED BY <1>2, <1>4, <1>6, <2>12
<1> QED BY <1>14, <1>15

LEMMA BeginWriteKeeps ==
  ASSUME IInv, NEW d \in Fd, NEW buf \in Buffer, BeginWrite(d, buf)
  PROVE  IInv'
<1>0. /\ TypeInv /\ Volume(fat, Names, Firsts) /\ dir \in [Cluster -> [Slot -> EntryType]]
      /\ fat \in [Cluster -> Link] /\ Unwritten(fat, sector) /\ Fits(fat, Firsts, Sizes)
      /\ sector \in [Cluster -> [Sector -> Byte \cup {Blank}]] /\ holed \subseteq File
  BY DEF IInv, TypeInv
<1>1. PICK D \in Descriptor, c \in Cluster :
        /\ D = fds[d] /\ D.buf = NoCall /\ D.wr_off + Len(buf) <= MaxOffset
        /\ Begun(d, D, buf, c)
  BY BeginWriteIs
<1>2. fds[d] # Closed BY DEF BeginWrite, Idle
<1>3. PICK e \in File : e = D.fat_entry BY <1>1, <1>2, Opened
<1>4. Valid(fat, Names, Firsts, holed, D) BY <1>1, <1>2, Opened
<1>5. UNCHANGED <<sector, opens, holed>> BY DEF BeginWrite
<1>6. PICK r : r = Beginning(D, c, buf) OBVIOUS
<1>7. fds' = [fds EXCEPT ![d] = r] BY <1>1, <1>6 DEF Begun
<1>8. PICK F, N, R, H : F = fat /\ N = Names /\ R = Firsts /\ H = holed OBVIOUS
<1>9. CASE /\ c = IF D.wr_cluster = 0 THEN Firsts[D.fat_entry] ELSE D.wr_cluster
           /\ UNCHANGED <<fat, dir>>
  <2>1. Valid(F, N, R, H, D) BY <1>4, <1>8
  <2>2. c = IF D.wr_cluster = 0 THEN R[D.fat_entry] ELSE D.wr_cluster BY <1>8, <1>9
  <2>3. r \in Descriptor /\ Valid(F, N, R, H, r) BY <1>1, <1>6, <2>1, <2>2, BeginningIs
  <2>4. Valid(fat, Names, Firsts, holed, r) BY <1>8, <2>3
  <2> QED BY <1>5, <1>7, <1>9, <2>3, <2>4, IInvReads
<1>10. CASE /\ D.wr_cluster = 0 /\ Firsts[D.fat_entry] = 0
            /\ dir' \in [Cluster -> [Slot -> EntryType]]
            /\ Names' = Names /\ Sizes' = Sizes /\ Firsts' = [Firsts EXCEPT ![D.fat_entry] = c]
            /\ \E s, n : Appended(fat, fat', 0, s, n) /\ c = s[1]
  <2>1. PICK s, n : Appended(fat, fat', 0, s, n) /\ c = s[1] BY <1>10
  <2>2. Firsts \in [File -> Cluster \cup {0}] BY <1>0, FunctionsAre
  <2>3. Firsts'[e] = c /\ \A f \in File : f # e => Firsts'[f] = Firsts[f] BY <1>3, <1>10, <2>2
  <2>4. PICK G, Q, S : G = fat' /\ Q = Firsts' /\ S = Sizes OBVIOUS
  <2>5. /\ Volume(F, N, R) /\ Appended(F, G, 0, s, n) /\ N[e] # NoName /\ R[e] = 0
        /\ Q = [R EXCEPT ![e] = s[1]] /\ Fits(F, R, S) /\ Valid(F, N, R, H, D)
    BY <1>0, <1>3, <1>4, <1>8, <1>10, <2>1, <2>4 DEF Valid
  <2>6. Volume(G, N, Q) BY <2>5, VolumeStarts
  <2>7. Grown(F, N, R, G, N, Q)
    <3>1. \A f \in File : R[f] # 0 => Q[f] = R[f] BY <1>3, <1>8, <1>10, <2>3, <2>4
    <3> QED BY <2>5, <3>1, AppendGrows DEF Grown
  <2>8. Fits(G, Q, S) BY <2>5, <2>7, FitsKept
  <2>9. Valid(G, N, Q, H, D)
    <3>1. H \subseteq H OBVIOUS
    <3> QED BY <2>5, <2>7, <3>1, ValidKept
  <2>10. r \in Descriptor /\ Valid(G, N, Q, H, r)
    <3>1. c = IF D.wr_cluster = 0 THEN Q[D.fat_entry] ELSE D.wr_cluster
      BY <1>3, <1>10, <2>3, <2>4
    <3> QED BY <1>1, <1>6, <2>9, <3>1, BeginningIs
  <2>11. Unwritten(fat', sector) BY <1>0, <2>1, AppendUnwritten DEF Unwritten
  <2>12. fat' \in [Cluster -> Link] BY <2>1 DEF Appended
  <2>13. /\ Volume(fat', Names', Firsts') /\ Grown(fat, Names, Firsts, fat', Names', Firsts')
         /\ Fits(fat', Firsts', Sizes') /\ Valid(fat', Names', Firsts', holed', r)
    BY <1>5, <1>8, <1>10, <2>4, <2>6, <2>7, <2>8, <2>10
  <2> QED BY <1>0, <1>5, <1>7, <1>10, <2>10, <2>11, <2>12, <2>13, IInvIf
<1> QED BY <1>1, <1>9, <1>10 DEF Begun

(* n bytes of a descriptor's buffer are stored from offset off of c.       *)
Storing(D, c, off, n) ==
  [D EXCEPT !.wr_cluster = c, !.wr_cluster_off = off + n, !.total = D.total + n]

LEMMA BufferIs ==
  ASSUME NEW D \in Descriptor, D.buf # NoCall
  PROVE  D.buf \in Seq(Byte) /\ Len(D.buf) \in Nat /\ D.total \in Nat /\ D.wr_off \in Nat
<1>1. D.buf \in Buffer /\ D.total \in Nat /\ D.wr_off \in Nat BY DEF Descriptor
<1>2. D.buf \in Seq(Byte) BY <1>1, BufferAssumption
<1> QED BY <1>1, <1>2

(* What a pass of the loop of Write has stored.                            *)
Stored(D, c, off, n) ==
  /\ n \in Nat /\ off + n <= bytes_per_cluster /\ D.total + n <= Len(D.buf)
  /\ off < bytes_per_cluster /\ D.total < Len(D.buf) => n # 0
  /\ sector' \in [Cluster -> [Sector -> Byte \cup {Blank}]]
  /\ \A b \in Cluster : b # c => sector'[b] = sector[b]
  /\ \A i \in Sector : sector'[c][i] = IF off <= i /\ i < off + n THEN D.buf[D.total + i - off + 1]
                                       ELSE sector[c][i]

LEMMA StoreIs ==
  ASSUME TypeInv, NEW d \in Fd, NEW D \in Descriptor, D = fds[d], D.buf # NoCall,
         D.total <= Len(D.buf), NEW c \in Cluster, NEW off \in 0 .. bytes_per_cluster,
         Store(d, c, off)
  PROVE  \E n : Stored(D, c, off, n) /\ fds' = [fds EXCEPT ![d] = Storing(D, c, off, n)]
<1>1. D.buf \in Seq(Byte) /\ Len(D.buf) \in Nat /\ D.total \in Nat BY BufferIs
<1>2. PICK left : left = Len(D.buf) - D.total OBVIOUS
<1>3. PICK n : n = IF left < bytes_per_cluster - off THEN left ELSE bytes_per_cluster - off OBVIOUS
<1>4. bytes_per_cluster \in Nat \ {0} /\ off \in Nat BY SizesAssumption
<1>5. /\ n \in Nat /\ off + n <= bytes_per_cluster /\ D.total + n <= Len(D.buf)
      /\ off < bytes_per_cluster /\ D.total < Len(D.buf) => n # 0
  <2>1. PICK b \in Nat, o \in Nat, l \in Nat, t \in Nat :
             b = bytes_per_cluster /\ o = off /\ l = Len(D.buf) /\ t = D.total
    BY <1>1, <1>4
  <2>2. left = l - t /\ t <= l /\ o <= b BY <1>2, <2>1
  <2>3. CASE left < b - o
    <3>1. n = l - t BY <1>3, <2>1, <2>2, <2>3
    <3>2. n \in Nat /\ o + n <= b /\ t + n <= l /\ (o < b /\ t < l => n # 0)
      BY <2>2, <2>3, <3>1
    <3> QED BY <2>1, <3>2
  <2>4. CASE ~(left < b - o)
    <3>1. n = b - o BY <1>3, <2>1, <2>4
    <3>2. n \in Nat /\ o + n <= b /\ t + n <= l /\ (o < b /\ t < l => n # 0)
      BY <2>2, <2>4, <3>1
    <3> QED BY <2>1, <3>2
  <2> QED BY <2>3, <2>4
<1>6. PICK sec \in [Sector -> Byte \cup {Blank}] : sec = sector[c] BY DEF TypeInv
<1>7. DOMAIN sector[c] = Sector BY <1>6
<1>8. PICK new : new = [i \in Sector |-> IF i \in off .. off + n - 1
                                         THEN D.buf[D.total + i - off + 1] ELSE sec[i]]
  OBVIOUS
<1>9. sector' = [sector EXCEPT ![c] = new]
  <2>1. sector' = [sector EXCEPT ![c] =
           [i \in DOMAIN @ |-> IF i \in off .. off + n - 1
                               THEN D.buf[D.total + i - off + 1] ELSE @[i]]]
    BY <1>2, <1>3 DEF Store
  <2>2. [i \in DOMAIN sector[c] |-> IF i \in off .. off + n - 1
                                    THEN D.buf[D.total + i - off + 1] ELSE sector[c][i]] = new
    BY <1>6, <1>7, <1>8
  <2> QED BY <2>1, <2>2
<1>10. ASSUME NEW i \in Sector, off <= i, i < off + n PROVE D.buf[D.total + i - off + 1] \in Byte
  <2>1. i \in Nat BY DEF Sector
  <2>2. D.total + i - off + 1 \in 1 .. Len(D.buf) BY <1>1, <1>4, <1>5, <1>10, <2>1
  <2> QED BY <1>1, <2>2
<1>11. \A i \in Sector : i \in off .. off + n - 1 <=> off <= i /\ i < off + n
  BY <1>4, <1>5 DEF Sector
<1>12. new \in [Sector -> Byte \cup {Blank}] BY <1>6, <1>8, <1>10, <1>11
<1>13. sector \in [Cluster -> [Sector -> Byte \cup {Blank}]] BY DEF TypeInv
<1>14. /\ sector' \in [Cluster -> [Sector -> Byte \cup {Blank}]] /\ sector'[c] = new
       /\ \A b \in Cluster : b # c => sector'[b] = sector[b]
  BY <1>9, <1>12, <1>13
<1>15. \A i \in Sector : sector'[c][i] = IF off <= i /\ i < off + n THEN D.buf[D.total + i - off + 1]
                                         ELSE sector[c][i]
  BY <1>6, <1>8, <1>11, <1>14
<1>16. fds' = [fds EXCEPT ![d] = Storing(D, c, off, n)]
  <2>1. fds' = [fds EXCEPT ![d].wr_cluster = c, ![d].wr_cluster_off = off + n, ![d].total = @ + n]
    BY <1>2, <1>3 DEF Store
  <2>2. fds \in [Fd -> Descriptor \cup {Closed}] BY DEF TypeInv
  <2> QED BY <2>1, <2>2 DEF Storing
<1> QED BY <1>5, <1>14, <1>15, <1>16 DEF Stored

LEMMA StoringIs ==
  ASSUME NEW F, NEW N, NEW R, NEW H, NEW D \in Descriptor, Valid(F, N, R, H, D), D.buf # NoCall,
         NEW c \in Cluster, NEW off \in 0 .. bytes_per_cluster, NEW n \in Nat,
         off + n <= bytes_per_cluster, D.total + n <= Len(D.buf),
         WritesAt(F, R[D.fat_entry], c, off, D.wr_off + D.total, D.fat_entry \notin H)
  PROVE  Storing(D, c, off, n) \in Descriptor /\ Valid(F, N, R, H, Storing(D, c, off, n))
<1>0. 0 \notin Cluster BY LinkFacts
<1>1. Len(D.buf) \in Nat /\ D.total \in Nat /\ D.wr_off \in Nat /\ off \in Nat /\ bytes_per_cluster \in Nat
  BY BufferIs, SizesAssumption
<1>2. PICK E : E = Storing(D, c, off, n) OBVIOUS
<1>3. PICK o, t : o = off + n /\ t = D.total + n OBVIOUS
<1>4. o \in 0 .. bytes_per_cluster /\ t \in Nat BY <1>1, <1>3
<1>5. E = [D EXCEPT !.wr_cluster = c, !.wr_cluster_off = o, !.total = t]
  BY <1>2, <1>3 DEF Storing
<1>6. /\ E.fat_entry = D.fat_entry /\ E.rd_off = D.rd_off /\ E.rd_cluster = D.rd_cluster
      /\ E.rd_cluster_off = D.rd_cluster_off /\ E.wr_off = D.wr_off /\ E.wr_cluster = c
      /\ E.wr_cluster_off = o /\ E.buf = D.buf /\ E.total = t /\ E \in Descriptor
  BY <1>4, <1>5 DEF Descriptor
<1>7. D.wr_cluster # 0 /\ D.wr_off + Len(D.buf) <= MaxOffset /\ R[D.fat_entry] # 0
  BY DEF Valid
<1>8. D.wr_off + t <= MaxOffset BY <1>1, <1>3, <1>7, SizesAssumption
<1>9. WritesAt(F, R[D.fat_entry], c, o, D.wr_off + t, D.fat_entry \notin H)
  <2>1. PICK x \in BOOLEAN : x = (D.fat_entry \notin H) OBVIOUS
  <2>2. PICK b \in Nat : b = D.wr_off + D.total BY <1>1
  <2>3. PICK a : a = R[D.fat_entry] OBVIOUS
  <2>4. WritesAt(F, a, c, off, b, x) BY <2>1, <2>2, <2>3
  <2>5. WritesAt(F, a, c, off + n, b + n, x) BY <1>1, <2>4, WritesFurther
  <2>6. b + n = D.wr_off + t BY <1>1, <1>3, <2>2
  <2> QED BY <1>3, <2>1, <2>3, <2>5, <2>6
<1>10. t <= Len(D.buf) BY <1>3
<1>11. Valid(F, N, R, H, E)
  BY <1>0, <1>6, <1>7, <1>8, <1>9, <1>10 DEF Valid
<1> QED BY <1>2, <1>6, <1>11

(* The cluster of a write position is in use.                              *)
LEMMA WritesUsed ==
  ASSUME NEW F, NEW N, NEW R, Volume(F, N, R), NEW e \in File, R[e] # 0,
         NEW c, NEW off, NEW b, NEW x, WritesAt(F, R[e], c, off, b, x)
  PROVE  c \in Cluster \cup {kEndOfClusterchain} /\ (c \in Cluster => F[c] # Free)
<1>1. PICK k \in Nat : Walk(F, R[e], k) = c BY DEF WritesAt
<1>2. PICK A : A = StartsOf(R) OBVIOUS
<1>3. PICK a : a = R[e] OBVIOUS
<1>4. Owned(F, A) /\ a \in A BY <1>2, <1>3, StartsFacts DEF Volume
<1>5. /\ Walk(F, a, k) \in Cluster \cup {kEndOfClusterchain}
      /\ Walk(F, a, k) \in Cluster => F[Walk(F, a, k)] # Free
  BY <1>4, WalkUsed
<1> QED BY <1>1, <1>3, <1>5

(* A pass of the loop of Write that stores from offset off of c.           *)
Chunk(d, D, c, off) ==
  /\ Store(d, c, off)
  /\ off < bytes_per_cluster /\ D.total < Len(D.buf)
  /\ fat' \in [Cluster -> Link]
  /\ Volume(fat', Names, Firsts) /\ Grown(fat, Names, Firsts, fat', Names, Firsts)
  /\ Extended(fat, fat')
  /\ holed' \subseteq File /\ holed \subseteq holed'
  /\ \/ holed' = holed
     \/ Len(D.buf) - D.total > bytes_per_cluster /\ holed' = holed \cup {D.fat_entry}
  /\ WritesAt(fat', Firsts[D.fat_entry], c, off, D.wr_off + D.total, D.fat_entry \notin holed')

LEMMA ChunkKeeps ==
  ASSUME IInv, NEW d \in Fd, NEW D \in Descriptor, D = fds[d], D # Closed, D.buf # NoCall, dir' = dir,
         NEW c \in Cluster, NEW off \in 0 .. bytes_per_cluster, Chunk(d, D, c, off)
  PROVE  IInv'
<1>0. /\ TypeInv /\ dir \in [Cluster -> [Slot -> EntryType]] /\ Unwritten(fat, sector)
      /\ Fits(fat, Firsts, Sizes)
  BY DEF IInv, TypeInv
<1>1. Valid(fat, Names, Firsts, holed, D) /\ D.fat_entry \in File BY Opened
<1>2. D.total <= Len(D.buf) /\ D.wr_cluster # 0 /\ Firsts[D.fat_entry] # 0
  BY <1>1 DEF Valid
<1>3. PICK n : Stored(D, c, off, n) /\ fds' = [fds EXCEPT ![d] = Storing(D, c, off, n)]
  BY <1>0, <1>2, StoreIs DEF Chunk
<1>4. PICK r : r = Storing(D, c, off, n) OBVIOUS
<1>5. Names' = Names /\ Firsts' = Firsts /\ Sizes' = Sizes BY SameNames
<1>6. PICK F, N, R, H : F = fat /\ N = Names /\ R = Firsts /\ H = holed OBVIOUS
<1>7. PICK G, J, S : G = fat' /\ J = holed' /\ S = Sizes OBVIOUS
<1>8. Grown(F, N, R, G, N, R) /\ H \subseteq J /\ Valid(F, N, R, H, D) /\ Fits(F, R, S) /\ Volume(G, N, R)
      /\ WritesAt(G, R[D.fat_entry], c, off, D.wr_off + D.total, D.fat_entry \notin J)
  BY <1>0, <1>1, <1>6, <1>7 DEF Chunk
<1>9. Valid(G, N, R, J, D) BY <1>8, ValidKept
<1>10. n \in Nat /\ off + n <= bytes_per_cluster /\ D.total + n <= Len(D.buf) BY <1>3 DEF Stored
<1>11. r \in Descriptor /\ Valid(G, N, R, J, r) BY <1>4, <1>8, <1>9, <1>10, StoringIs
<1>12. Fits(G, R, S) BY <1>8, FitsKept
<1>13. Unwritten(fat', sector')
  <2>1. PICK e \in File : e = D.fat_entry BY <1>1
  <2>2. R[e] # 0 /\ WritesAt(G, R[e], c, off, D.wr_off + D.total, D.fat_entry \notin J)
    BY <1>2, <1>6, <1>8, <2>1
  <2>3. G[c] # Free BY <1>8, <2>2, WritesUsed
  <2>4. ASSUME NEW b \in Cluster, fat'[b] = Free PROVE sector'[b] = BlankSector
    <3>1. b # c /\ fat[b] = Free
      <4>1. CASE fat' = fat BY <1>7, <2>3, <2>4, <4>1
      <4>2. CASE \E w, s, m : Appended(fat, fat', w, s, m)
        <5>1. PICK w, s, m : Appended(fat, fat', w, s, m) BY <4>2
        <5>2. fat[b] = Free BY <2>4, <5>1, AppendUnwritten
        <5> QED BY <1>7, <2>3, <2>4, <5>2
      <4> QED BY <4>1, <4>2 DEF Chunk, Extended
    <3>2. sector'[b] = sector[b] BY <1>3, <3>1 DEF Stored
    <3> QED BY <1>0, <3>1, <3>2 DEF Unwritten
  <2> QED BY <2>4 DEF Unwritten
<1>14. sector' \in [Cluster -> [Sector -> Byte \cup {Blank}]] BY <1>3 DEF Stored
<1>15. fds' = [fds EXCEPT ![d] = r] BY <1>3, <1>4
<1>16. Volume(fat', Names', Firsts') /\ Fits(fat', Firsts', Sizes')
       /\ Grown(fat, Names, Firsts, fat', Names', Firsts') /\ Valid(fat', Names', Firsts', holed', r)
  <2>1. Volume(fat', Names, Firsts) /\ Grown(fat, Names, Firsts, fat', Names, Firsts) BY DEF Chunk
  <2> QED BY <1>5, <1>6, <1>7, <1>11, <1>12, <2>1
<1> QED BY <1>0, <1>11, <1>13, <1>14, <1>15, <1>16, IInvIf DEF Chunk

LEMMA WriteChunkIs ==
  ASSUME IInv, NEW d \in Fd, WriteChunk(d)
  PROVE  \E D \in Descriptor, c \in Cluster, off \in 0 .. bytes_per_cluster :
           D = fds[d] /\ D # Closed /\ D.buf # NoCall /\ Chunk(d, D, c, off)
<1>0. /\ TypeInv /\ Volume(fat, Names, Firsts) /\ dir \in [Cluster -> [Slot -> EntryType]]
      /\ fat \in [Cluster -> Link] /\ holed \subseteq File
  BY DEF IInv, TypeInv
<1>1. fds[d] # Closed /\ fds[d].buf # NoCall BY DEF WriteChunk, Writing
<1>2. PICK D \in Descriptor : D = fds[d] BY <1>1, Opened
<1>3. PICK e \in File : e = D.fat_entry BY <1>1, <1>2, Opened
<1>4. Valid(fat, Names, Firsts, holed, D) /\ D # Closed /\ D.buf # NoCall BY <1>1, <1>2, Opened
<1>5. /\ D.wr_cluster \in Cluster /\ D.wr_cluster_off \in 0 .. bytes_per_cluster
      /\ D.total \in Nat /\ Len(D.buf) \in Nat /\ D.wr_off \in Nat /\ D.wr_cluster # 0
  BY <1>4, BufferIs DEF Valid, Descriptor
<1>6. PICK F, N, R, H : F = fat /\ N = Names /\ R = Firsts /\ H = holed OBVIOUS
<1>7. PICK w \in Cluster, b \in Nat, x \in BOOLEAN :
        w = D.wr_cluster /\ b = D.wr_off + D.total /\ x = (e \notin H)
  <2>1. PICK b \in Nat : b = D.wr_off + D.total BY <1>5
  <2>2. PICK x \in BOOLEAN : x = (e \notin H) BY Zenon
  <2> QED BY <1>5, <2>1, <2>2
<1>8. R[e] # 0 /\ Volume(F, N, R) /\ WritesAt(F, R[e], w, D.wr_cluster_off, b, x)
  BY <1>0, <1>3, <1>4, <1>5, <1>6, <1>7 DEF Valid
<1>9. PICK left \in Nat \ {0} : left = Len(D.buf) - D.total
  <2>1. Len(D.buf) - D.total > 0 BY <1>2 DEF WriteChunk
  <2> QED BY <1>5, <2>1
<1>10. PICK next : next = NextCluster(w) OBVIOUS
<1>11. next = After(F, w) /\ next = fat[w] BY <1>6, <1>10 DEF NextCluster, After
<1>12. Grown(fat, Names, Firsts, fat, Names, Firsts) BY SameGrows
<1>13. D.total < Len(D.buf) BY <1>5, <1>9
<1>14. 0 \in 0 .. bytes_per_cluster /\ 0 < bytes_per_cluster BY Sizes0
<1>15. \/ /\ D.wr_cluster_off < bytes_per_cluster
          /\ Store(d, w, D.wr_cluster_off)
          /\ UNCHANGED <<fat, holed>>
       \/ /\ D.wr_cluster_off = bytes_per_cluster
          /\ next # kEndOfClusterchain
          /\ Store(d, next, 0)
          /\ UNCHANGED <<fat, holed>>
       \/ /\ D.wr_cluster_off = bytes_per_cluster
          /\ next = kEndOfClusterchain
          /\ \E s \in FreeClusters(NumCluster(left)) :
               /\ fat' = ExtendCluster(w, s)
               /\ Store(d, s[Len(s)], 0)
               /\ holed' = IF Len(s) > 1 THEN holed \cup {e} ELSE holed
  BY <1>2, <1>3, <1>7, <1>9, <1>10 DEF WriteChunk
<1>16. CASE D.wr_cluster_off < bytes_per_cluster /\ Store(d, w, D.wr_cluster_off) /\ UNCHANGED <<fat, holed>>
  <2>1. WritesAt(fat', Firsts[D.fat_entry], w, D.wr_cluster_off, D.wr_off + D.total, D.fat_entry \notin holed')
    BY <1>3, <1>6, <1>7, <1>8, <1>16
  <2>2. Volume(fat', Names, Firsts) /\ Grown(fat, Names, Firsts, fat', Names, Firsts)
        /\ fat' \in [Cluster -> Link] /\ holed' \subseteq File /\ holed \subseteq holed'
    BY <1>0, <1>12, <1>16
  <2>3. Chunk(d, D, w, D.wr_cluster_off) BY <1>13, <1>16, <2>1, <2>2 DEF Chunk, Extended
  <2> QED BY <1>2, <1>4, <1>5, <2>3
<1>17. CASE /\ D.wr_cluster_off = bytes_per_cluster /\ next # kEndOfClusterchain
            /\ Store(d, next, 0) /\ UNCHANGED <<fat, holed>>
  <2>1. WritesAt(F, R[e], next, 0, b, x)
    <3>1. PICK a : a = R[e] OBVIOUS
    <3>2. WritesAt(F, a, w, bytes_per_cluster, b, x) BY <1>8, <1>17, <3>1
    <3>3. WritesAt(F, a, After(F, w), 0, b, x) BY <3>2, WritesNext
    <3> QED BY <1>11, <3>1, <3>3
  <2>2. next \in Cluster BY <1>8, <1>17, <2>1, WritesUsed
  <2>3. WritesAt(fat', Firsts[D.fat_entry], next, 0, D.wr_off + D.total, D.fat_entry \notin holed')
    BY <1>3, <1>6, <1>7, <1>17, <2>1
  <2>4. Volume(fat', Names, Firsts) /\ Grown(fat, Names, Firsts, fat', Names, Firsts)
        /\ fat' \in [Cluster -> Link] /\ holed' \subseteq File /\ holed \subseteq holed'
    BY <1>0, <1>12, <1>17
  <2>5. Chunk(d, D, next, 0) BY <1>13, <1>14, <1>17, <2>3, <2>4 DEF Chunk, Extended
  <2> QED BY <1>2, <1>4, <1>14, <2>2, <2>5
<1>18. CASE /\ D.wr_cluster_off = bytes_per_cluster /\ next = kEndOfClusterchain
            /\ \E s \in FreeClusters(NumCluster(left)) :
                 /\ fat' = ExtendCluster(w, s)
                 /\ Store(d, s[Len(s)], 0)
                 /\ holed' = IF Len(s) > 1 THEN holed \cup {e} ELSE holed
  <2>1. PICK m : m = NumCluster(left) OBVIOUS
  <2>2. m \in Nat \ {0} BY <2>1, NumClusterIs
  <2>3. PICK s \in FreeClusters(m) :
          /\ fat' = ExtendCluster(w, s)
          /\ Store(d, s[Len(s)], 0)
          /\ holed' = IF Len(s) > 1 THEN holed \cup {e} ELSE holed
    BY <1>18, <2>1
  <2>4. Len(s) = m BY <2>2, FreeClustersAre
  <2>5. Appended(fat, fat', w, s, m)
    <3>1. fat[w] = kEndOfClusterchain BY <1>11, <1>18
    <3> QED BY <1>0, <2>2, <2>3, <3>1, ExtendClusterIs
  <2>6. PICK c \in Cluster : c = s[m]
    <3>1. m \in 1 .. m /\ s[m] \in Cluster BY <2>5, AppendFacts
    <3> QED BY <3>1
  <2>7. PICK G, J : G = fat' /\ J = holed' OBVIOUS
  <2>8. Appended(F, G, w, s, m) BY <1>6, <2>5, <2>7
  <2>9. WritesAt(G, R[e], c, 0, b, x /\ m = 1)
    <3>1. PICK A, a : A = StartsOf(R) /\ a = R[e] OBVIOUS
    <3>2. Owned(F, A) /\ a \in A BY <1>8, <3>1, StartsFacts DEF Volume
    <3>3. WritesAt(F, a, w, bytes_per_cluster, b, x) BY <1>8, <1>18, <3>1
    <3>4. WritesAt(G, a, s[m], 0, b, x /\ m = 1) BY <2>8, <3>2, <3>3, WritesExtended
    <3> QED BY <2>6, <3>1, <3>4
  <2>10. WritesAt(G, R[e], c, 0, b, e \notin J)
    <3>1. J = IF m > 1 THEN H \cup {e} ELSE H BY <1>6, <2>3, <2>4, <2>7
    <3>2. ASSUME e \notin J PROVE x /\ m = 1
      <4>1. ~(m > 1) BY <3>1, <3>2
      <4>2. J = H BY <3>1, <4>1
      <4>3. m = 1 BY <2>2, <4>1
      <4> QED BY <1>7, <3>2, <4>2, <4>3
    <3> QED BY <2>9, <3>2 DEF WritesAt
  <2>11. WritesAt(fat', Firsts[D.fat_entry], c, 0, D.wr_off + D.total, D.fat_entry \notin holed')
    BY <1>3, <1>6, <1>7, <2>7, <2>10
  <2>12. Volume(G, N, R) BY <1>8, <2>8, VolumeGrows
  <2>13. Grown(F, N, R, G, N, R) BY <1>8, <2>8, AppendGrows DEF Grown
  <2>14. /\ Volume(fat', Names, Firsts) /\ Grown(fat, Names, Firsts, fat', Names, Firsts)
         /\ fat' \in [Cluster -> Link] /\ holed' \subseteq File /\ holed \subseteq holed'
    BY <1>0, <1>6, <2>3, <2>5, <2>7, <2>12, <2>13 DEF Appended
  <2>15. \/ holed' = holed
         \/ Len(D.buf) - D.total > bytes_per_cluster /\ holed' = holed \cup {D.fat_entry}
    <3>1. CASE m = 1 BY <2>3, <2>4, <3>1
    <3>2. CASE m # 1
      <4>1. left > bytes_per_cluster BY <2>1, <3>2, NumClusterIs, SizesAssumption
      <4>2. m > 1 BY <2>2, <3>2
      <4> QED BY <1>3, <1>9, <2>3, <2>4, <4>1, <4>2
    <3> QED BY <3>1, <3>2
  <2>16. Store(d, c, 0) BY <2>3, <2>4, <2>6
  <2>17. Chunk(d, D, c, 0) BY <1>13, <1>14, <2>5, <2>11, <2>14, <2>15, <2>16 DEF Chunk, Extended
  <2> QED BY <1>2, <1>4, <1>14, <2>17
<1> QED BY <1>15, <1>16, <1>17, <1>18

LEMMA WriteChunkKeeps ==
  ASSUME IInv, NEW d \in Fd, WriteChunk(d)
  PROVE  IInv'
<1>1. PICK D \in Descriptor, c \in Cluster, off \in 0 .. bytes_per_cluster :
        D = fds[d] /\ D # Closed /\ D.buf # NoCall /\ Chunk(d, D, c, off)
  BY WriteChunkIs
<1>2. dir' = dir BY DEF WriteChunk
<1> QED BY <1>1, <1>2, ChunkKeeps

(* What the end of a Write does, at position end.                          *)
Ended(D, end) == [D EXCEPT !.wr_off = end, !.buf = NoCall, !.total = 0]

LEMMA EndWriteIs ==
  ASSUME IInv, NEW d \in Fd, EndWrite(d)
  PROVE  \E D \in Descriptor, end \in Nat :
           /\ D = fds[d] /\ D.buf # NoCall /\ D.total = Len(D.buf) /\ end = D.wr_off + D.total
           /\ fds' = [fds EXCEPT ![d] = Ended(D, end)]
           /\ dir' \in [Cluster -> [Slot -> EntryType]] /\ Names' = Names /\ Firsts' = Firsts
           /\ Sizes' = [Sizes EXCEPT ![D.fat_entry] = end]
<1>1. dir \in [Cluster -> [Slot -> EntryType]] /\ fds \in [Fd -> Descriptor \cup {Closed}]
  BY DEF IInv, TypeInv
<1>2. fds[d] # Closed /\ fds[d].buf # NoCall BY DEF EndWrite, Writing
<1>3. PICK D \in Descriptor : D = fds[d] BY <1>2, Opened
<1>4. PICK e \in File : e = D.fat_entry BY <1>2, <1>3, Opened
<1>5. PICK end \in Nat : end = D.wr_off + D.total BY <1>2, <1>3, BufferIs
<1>6. D.total = Len(D.buf) BY <1>3 DEF EndWrite
<1>7. fds' = [fds EXCEPT ![d] = Ended(D, end)]
  <2>1. fds' = [fds EXCEPT ![d].wr_off = end, ![d].buf = NoCall, ![d].total = 0]
    BY <1>3, <1>5 DEF EndWrite
  <2> QED BY <1>1, <1>3, <2>1 DEF Ended
<1>8. PICK y \in EntryType : y = Entry(e) BY <1>1, EntryIs
<1>9. PICK z : z = [y EXCEPT !.size = end] OBVIOUS
<1>10. z \in EntryType /\ z.asked = y.asked /\ z.first = y.first /\ z.size = end
  BY <1>9 DEF EntryType
<1>11. dir' = [dir EXCEPT ![e[1]][e[2]] = z]
  <2>1. dir' = [dir EXCEPT ![e[1]][e[2]].size = end] BY <1>3, <1>4, <1>5 DEF EndWrite
  <2>2. e[1] \in Cluster /\ e[2] \in Slot BY DEF File
  <2> QED BY <1>1, <1>8, <1>9, <2>1, <2>2 DEF Entry
<1>12. /\ dir' \in [Cluster -> [Slot -> EntryType]]
       /\ Names' = [Names EXCEPT ![e] = z.asked] /\ Firsts' = [Firsts EXCEPT ![e] = z.first]
       /\ Sizes' = [Sizes EXCEPT ![e] = z.size]
  BY <1>1, <1>10, <1>11, PutEntry
<1>13. z.asked = Names[e] /\ z.first = Firsts[e] BY <1>1, <1>8, <1>10, EntryIs
<1>14. Names \in [File -> Name \cup {NoName}] /\ Firsts \in [File -> Cluster \cup {0}]
  BY <1>1, FunctionsAre
<1>15. Names' = Names /\ Firsts' = Firsts /\ Sizes' = [Sizes EXCEPT ![e] = end]
  BY <1>10, <1>12, <1>13, <1>14
<1> QED BY <1>2, <1>3, <1>4, <1>5, <1>6, <1>7, <1>12, <1>15

LEMMA EndWriteKeeps ==
  ASSUME IInv, NEW d \in Fd, EndWrite(d)
  PROVE  IInv'
<1>0. /\ TypeInv /\ Volume(fat, Names, Firsts) /\ dir \in [Cluster -> [Slot -> EntryType]]
      /\ fat \in [Cluster -> Link] /\ Unwritten(fat, sector) /\ Fits(fat, Firsts, Sizes)
      /\ sector \in [Cluster -> [Sector -> Byte \cup {Blank}]] /\ holed \subseteq File
  BY DEF IInv, TypeInv
<1>1. fds[d] # Closed /\ fds[d].buf # NoCall BY DEF EndWrite, Writing
<1>2. PICK D \in Descriptor, end \in Nat :
        /\ D = fds[d] /\ D.buf # NoCall /\ D.total = Len(D.buf) /\ end = D.wr_off + D.total
        /\ fds' = [fds EXCEPT ![d] = Ended(D, end)]
        /\ dir' \in [Cluster -> [Slot -> EntryType]] /\ Names' = Names /\ Firsts' = Firsts
        /\ Sizes' = [Sizes EXCEPT ![D.fat_entry] = end]
  BY EndWriteIs
<1>3. PICK e \in File : e = D.fat_entry BY <1>1, <1>2, Opened
<1>4. Valid(fat, Names, Firsts, holed, D) /\ D # Closed /\ D.buf # NoCall BY <1>1, <1>2, Opened
<1>5. /\ D.wr_cluster \in Cluster /\ D.wr_cluster_off \in 0 .. bytes_per_cluster
      /\ D.total \in Nat /\ D.wr_off \in Nat /\ D.wr_cluster # 0 /\ bytes_per_cluster \in Nat
  BY <1>4, BufferIs, SizesAssumption DEF Valid, Descriptor
<1>6. end <= MaxOffset BY <1>2, <1>4 DEF Valid
<1>7. UNCHANGED <<fat, sector, opens, holed>> BY DEF EndWrite
<1>8. PICK r : r = Ended(D, end) OBVIOUS
<1>9. fds' = [fds EXCEPT ![d] = r] BY <1>2, <1>8
<1>10. /\ r.fat_entry = e /\ r.rd_off = D.rd_off /\ r.rd_cluster = D.rd_cluster
       /\ r.rd_cluster_off = D.rd_cluster_off /\ r.wr_off = end /\ r.wr_cluster = D.wr_cluster
       /\ r.wr_cluster_off = D.wr_cluster_off /\ r.buf = NoCall /\ r.total = 0
       /\ r \in Descriptor
  BY <1>3, <1>8 DEF Descriptor, Ended
<1>11. PICK F, N, R, H : F = fat /\ N = Names /\ R = Firsts /\ H = holed OBVIOUS
<1>12. Valid(F, N, R, H, D) /\ Volume(F, N, R) BY <1>0, <1>4, <1>11
<1>13. R[e] # 0 /\ N[e] # NoName
       /\ WritesAt(F, R[e], D.wr_cluster, D.wr_cluster_off, end, e \notin H)
  BY <1>2, <1>3, <1>5, <1>12 DEF Valid
<1>14. Valid(F, N, R, H, r)
  <2>1. r.wr_off + r.total = end BY <1>10
  <2> QED BY <1>3, <1>5, <1>6, <1>10, <1>12, <1>13, <2>1 DEF Valid
<1>15. /\ dir' \in [Cluster -> [Slot -> EntryType]] /\ Names' = Names /\ Firsts' = Firsts
       /\ Sizes' = [Sizes EXCEPT ![e] = end]
  BY <1>2, <1>3
<1>16. Fits(fat', Firsts', Sizes')
  <2>1. Sizes \in [File -> Nat] BY <1>0, FunctionsAre
  <2>2. PICK S : S = Sizes' OBVIOUS
  <2>3. S[e] = end /\ \A f \in File : f # e => S[f] = Sizes[f] BY <1>15, <2>1, <2>2
  <2>4. \E k \in Nat : Walk(F, R[e], k) \in Cluster /\ end <= k * bytes_per_cluster + bytes_per_cluster
    <3>1. PICK k \in Nat : Walk(F, R[e], k) = D.wr_cluster
                           /\ end <= k * bytes_per_cluster + D.wr_cluster_off
      BY <1>13 DEF WritesAt
    <3>2. PICK m \in Nat : m = k * bytes_per_cluster BY Times
    <3>3. end <= m + bytes_per_cluster BY <1>5, <3>1, <3>2
    <3> QED BY <1>5, <3>1, <3>2, <3>3
  <2>5. Fits(F, R, Sizes) BY <1>0, <1>11
  <2>6. Fits(F, R, S)
    <3>1. ASSUME NEW f \in File
          PROVE  /\ S[f] <= MaxOffset
                 /\ S[f] # 0 => /\ R[f] # 0
                                /\ \E k \in Nat : /\ Walk(F, R[f], k) \in Cluster
                                                  /\ S[f] <= k * bytes_per_cluster + bytes_per_cluster
      <4>1. CASE f = e BY <1>6, <1>13, <2>3, <2>4, <4>1
      <4>2. CASE f # e
        <5>1. S[f] = Sizes[f] BY <2>3, <4>2
        <5> QED BY <2>5, <5>1 DEF Fits
      <4> QED BY <4>1, <4>2
    <3> QED BY <3>1 DEF Fits
  <2> QED BY <1>7, <1>11, <1>15, <2>2, <2>6
<1>17. Grown(fat, Names, Firsts, fat, Names, Firsts) BY SameGrows
<1>18. Valid(fat', Names', Firsts', holed', r) BY <1>7, <1>11, <1>14, <1>15
<1> QED BY <1>0, <1>7, <1>9, <1>10, <1>15, <1>16, <1>17, <1>18, IInvIf

LEMMA LengthIs ==
  ASSUME NEW e, Entry(e).size \in Nat, NEW offset \in Nat, NEW len \in Nat
  PROVE  /\ Length(e, offset, len) \in Nat
         /\ offset <= Entry(e).size => offset + Length(e, offset, len) <= Entry(e).size
BY DEF Length

(* The descriptor that has read n bytes of the chain.                      *)
Reading(F, D, cluster, n) ==
  [D EXCEPT !.rd_off = D.rd_off + n,
            !.rd_cluster = Walk(F, cluster, (D.rd_cluster_off + n) \div bytes_per_cluster),
            !.rd_cluster_off = (D.rd_cluster_off + n) % bytes_per_cluster]

(* Where the n bytes behind a read position are.                           *)
LEMMA ReadsFurther ==
  ASSUME NEW F, NEW a, NEW c, NEW off, NEW b \in Nat, ReadsAt(F, a, c, off, b), NEW n \in Nat
  PROVE  ReadsAt(F, a, Walk(F, c, (off + n) \div bytes_per_cluster), (off + n) % bytes_per_cluster, b + n)
<1>1. PICK k : k = b \div bytes_per_cluster OBVIOUS
<1>2. Walk(F, a, k) = c /\ off = b % bytes_per_cluster BY <1>1 DEF ReadsAt
<1>3. k \in Nat /\ off \in Nat BY <1>1, <1>2, DivIs, SizesAssumption DEF Sector
<1>4. PICK o \in Nat : o = off + n BY <1>3
<1>5. PICK m : m = o \div bytes_per_cluster OBVIOUS
<1>6. m \in Nat BY <1>5, DivIs
<1>7. Walk(F, c, m) = Walk(F, a, k + m) BY <1>2, <1>3, <1>6, WalkSum
<1>8. (b + n) \div bytes_per_cluster = k + m /\ (b + n) % bytes_per_cluster = o % bytes_per_cluster
  <2>1. PICK y : y = (b % bytes_per_cluster) + n OBVIOUS
  <2>2. /\ (b + n) \div bytes_per_cluster = b \div bytes_per_cluster + y \div bytes_per_cluster
        /\ (b + n) % bytes_per_cluster = y % bytes_per_cluster
    BY <2>1, DivSum
  <2>3. y = o BY <1>2, <1>4, <2>1
  <2> QED BY <1>1, <1>5, <2>2, <2>3
<1> QED BY <1>4, <1>5, <1>7, <1>8 DEF ReadsAt

LEMMA WalkAtEnd ==
  ASSUME NEW F, NEW n \in Nat
  PROVE  Walk(F, kEndOfClusterchain, n) = kEndOfClusterchain
<1>1. Walk(F, kEndOfClusterchain, 0) = kEndOfClusterchain BY WalkIs
<1>2. CASE n = 0 BY <1>1, <1>2
<1>3. CASE n # 0
  <2>1. 0 < n BY <1>3
  <2>2. PICK c : c = kEndOfClusterchain OBVIOUS
  <2>3. Walk(F, c, 0) \notin Cluster BY <1>1, <2>2, LinkFacts
  <2>4. Walk(F, c, n) = kEndOfClusterchain BY <2>1, <2>3, WalkEnds
  <2> QED BY <2>2, <2>4
<1> QED BY <1>2, <1>3

LEMMA ReadingIs ==
  ASSUME NEW F, NEW N, NEW R, Volume(F, N, R), NEW S, Fits(F, R, S),
         NEW H, NEW D \in Descriptor, Valid(F, N, R, H, D),
         NEW cluster, cluster = IF D.rd_cluster = 0 THEN R[D.fat_entry] ELSE D.rd_cluster,
         NEW n \in Nat, R[D.fat_entry] = 0 /\ D.rd_cluster = 0 => n = 0
  PROVE  /\ Reading(F, D, cluster, n) \in Descriptor
         /\ Valid(F, N, R, H, Reading(F, D, cluster, n))
<1>0. /\ F \in [Cluster -> Link] /\ D.rd_off \in Nat /\ D.rd_cluster_off \in Nat
      /\ D.rd_cluster \in Link
  BY DEF Volume, Owned, Descriptor
<1>1. PICK e \in File : e = D.fat_entry BY DEF Descriptor
<1>2. PICK a : e = D.fat_entry /\ a = R[e] BY <1>1
<1>3. a \in Cluster \cup {0} BY <1>2 DEF Volume, Roots
<1>4. cluster \in Link BY <1>0, <1>2, <1>3, LinkFacts DEF Link
<1>5. PICK o \in Nat, b \in Nat : o = D.rd_cluster_off + n /\ b = D.rd_off + n BY <1>0
<1>6. PICK k, c, m : /\ k = o \div bytes_per_cluster /\ m = o % bytes_per_cluster
                     /\ c = Walk(F, cluster, k)
  OBVIOUS
<1>7. k \in Nat /\ m \in Sector /\ m \in Nat BY <1>6, DivIs, SizesAssumption DEF Sector
<1>8. c \in Link BY <1>0, <1>4, <1>6, <1>7, WalkType
<1>9. PICK r : r = Reading(F, D, cluster, n) OBVIOUS
<1>10. r = [D EXCEPT !.rd_off = b, !.rd_cluster = c, !.rd_cluster_off = m]
  BY <1>5, <1>6, <1>9 DEF Reading
<1>11. /\ r.fat_entry = e /\ r.rd_off = b /\ r.rd_cluster = c /\ r.rd_cluster_off = m
       /\ r.wr_off = D.wr_off /\ r.wr_cluster = D.wr_cluster
       /\ r.wr_cluster_off = D.wr_cluster_off /\ r.buf = D.buf /\ r.total = D.total
       /\ r \in Descriptor
  BY <1>2, <1>7, <1>8, <1>10 DEF Descriptor
<1>12. /\ c = 0 => b = 0 /\ m = 0
       /\ c \in Cluster => a # 0 /\ ReadsAt(F, a, c, m, b)
  <2>1. CASE cluster \in Cluster
    <3>1. a # 0 /\ ReadsAt(F, a, cluster, D.rd_cluster_off, D.rd_off)
      <4>1. CASE D.rd_cluster = 0
        <5>1. cluster = a /\ D.rd_off = 0 /\ D.rd_cluster_off = 0 BY <1>2, <4>1 DEF Valid
        <5> QED BY <2>1, <5>1, AtStart, LinkFacts
      <4>2. CASE D.rd_cluster # 0
        <5>1. cluster = D.rd_cluster BY <4>2
        <5> QED BY <1>2, <2>1, <5>1 DEF Valid
      <4> QED BY <4>1, <4>2
    <3>2. ReadsAt(F, a, c, m, b)
      <4>1. PICK p \in Nat, q \in Nat : p = D.rd_cluster_off /\ q = D.rd_off BY <1>0
      <4>2. ReadsAt(F, a, Walk(F, cluster, (p + n) \div bytes_per_cluster), (p + n) % bytes_per_cluster, q + n)
        BY <3>1, <4>1, ReadsFurther
      <4> QED BY <1>5, <1>6, <4>1, <4>2
    <3>3. c # 0
      <4>1. PICK l : l = b \div bytes_per_cluster OBVIOUS
      <4>2. l \in Nat BY <4>1, DivIs
      <4>3. Walk(F, a, l) = c BY <3>2, <4>1 DEF ReadsAt
      <4>4. PICK A : A = StartsOf(R) OBVIOUS
      <4>5. Owned(F, A) /\ a \in A BY <1>2, <3>1, <4>4, StartsFacts DEF Volume
      <4>6. Walk(F, a, l) \in Cluster \cup {kEndOfClusterchain} BY <4>2, <4>5, WalkUsed
      <4> QED BY <4>3, <4>6, LinkFacts
    <3> QED BY <3>1, <3>2, <3>3
  <2>2. CASE cluster = kEndOfClusterchain
    <3>1. c = kEndOfClusterchain BY <1>6, <1>7, <2>2, WalkAtEnd
    <3> QED BY <3>1, LinkFacts
  <2>3. CASE cluster = 0
    <3>1. D.rd_cluster = 0 /\ a = 0 BY <1>2, <2>3
    <3>2. n = 0 /\ D.rd_off = 0 /\ D.rd_cluster_off = 0 BY <1>2, <3>1 DEF Valid
    <3>3. o = 0 /\ b = 0 BY <1>5, <3>2
    <3>4. ReadsAt(F, a, a, 0, 0) BY AtStart
    <3>5. k = 0 /\ m = 0
      <4>1. 0 * bytes_per_cluster = 0 /\ 0 \in Sector BY SizesAssumption DEF Sector
      <4>2. 0 \in Nat /\ o = 0 * bytes_per_cluster + 0 BY <3>3, <4>1
      <4> QED BY <1>6, <4>1, <4>2, DivOf
    <3>6. c = 0 BY <1>6, <2>3, <3>5, WalkIs
    <3> QED BY <3>3, <3>5, <3>6, LinkFacts
  <2> QED BY <1>4, <2>1, <2>2, <2>3 DEF Link, Free
<1>13. Valid(F, N, R, H, r) BY <1>2, <1>11, <1>12 DEF Valid
<1> QED BY <1>9, <1>11, <1>13

LEMMA ReadIs ==
  ASSUME IInv, NEW d \in Fd, NEW len \in Count, Read(d, len), NEW D \in Descriptor, D = fds[d]
  PROVE  \E cluster : \E n \in Nat :
           /\ n = Length(D.fat_entry, D.rd_off, len)
           /\ cluster = IF D.rd_cluster = 0 THEN Firsts[D.fat_entry] ELSE D.rd_cluster
           /\ Firsts[D.fat_entry] = 0 /\ D.rd_cluster = 0 => n = 0
           /\ fds' = [fds EXCEPT ![d] = Reading(fat, D, cluster, n)]
           /\ out' = [i \in 1 .. n |-> ByteAt(cluster, D.rd_cluster_off + i - 1)]
<1>1. fds[d] # Closed BY DEF Read, Idle
<1>2. PICK e \in File : e = D.fat_entry BY <1>1, Opened
<1>3. /\ Valid(fat, Names, Firsts, holed, D) /\ Entry(e).first = Firsts[e]
      /\ Entry(e).size = Sizes[e] /\ Sizes[e] \in Nat
  BY <1>1, <1>2, Opened
<1>4. D.rd_off \in Nat /\ len \in Nat BY CountAssumption DEF Descriptor
<1>5. PICK n : n = Length(e, D.rd_off, len) OBVIOUS
<1>6. n \in Nat BY <1>3, <1>4, <1>5, LengthIs
<1>7. PICK cluster : cluster = IF D.rd_cluster = 0 THEN Firsts[e] ELSE D.rd_cluster OBVIOUS
<1>8. ASSUME Firsts[e] = 0, D.rd_cluster = 0 PROVE n = 0
  <2>1. D.rd_off = 0 BY <1>3, <1>8 DEF Valid
  <2>2. Sizes[e] = 0 BY <1>8 DEF IInv, Fits
  <2>3. 0 + n <= 0
    <3>1. D.rd_off <= Entry(e).size => D.rd_off + n <= Entry(e).size BY <1>3, <1>4, <1>5, LengthIs
    <3> QED BY <1>3, <2>1, <2>2, <3>1
  <2> QED BY <1>6, <2>3
<1>9. PICK o, k, m : /\ o = D.rd_cluster_off + n /\ k = o \div bytes_per_cluster
                     /\ m = o % bytes_per_cluster
  OBVIOUS
<1>10. Behind(cluster, k) = Walk(fat, cluster, k) BY BehindWalks
<1>11. fds' = [fds EXCEPT ![d].rd_off = @ + n, ![d].rd_cluster = Behind(cluster, k),
                          ![d].rd_cluster_off = m]
  BY <1>2, <1>3, <1>5, <1>7, <1>9 DEF Read
<1>12. fds' = [fds EXCEPT ![d] = Reading(fat, D, cluster, n)]
  <2>1. fds \in [Fd -> Descriptor \cup {Closed}] BY DEF IInv, TypeInv
  <2>2. Reading(fat, D, cluster, n) =
          [D EXCEPT !.rd_off = D.rd_off + n, !.rd_cluster = Behind(cluster, k), !.rd_cluster_off = m]
    BY <1>9, <1>10 DEF Reading
  <2> QED BY <1>11, <2>1, <2>2
<1>13. out' = [i \in 1 .. n |-> ByteAt(cluster, D.rd_cluster_off + i - 1)]
  BY <1>2, <1>3, <1>5, <1>7 DEF Read
<1> QED BY <1>2, <1>5, <1>6, <1>7, <1>8, <1>12, <1>13

LEMMA ReadKeeps ==
  ASSUME IInv, NEW d \in Fd, NEW len \in Count, Read(d, len)
  PROVE  IInv'
<1>1. fds[d] # Closed BY DEF Read, Idle
<1>2. PICK D \in Descriptor : D = fds[d] BY <1>1, Opened
<1>3. Valid(fat, Names, Firsts, holed, D) BY <1>1, <1>2, Opened
<1>4. PICK cluster : \E n \in Nat :
        /\ cluster = IF D.rd_cluster = 0 THEN Firsts[D.fat_entry] ELSE D.rd_cluster
        /\ Firsts[D.fat_entry] = 0 /\ D.rd_cluster = 0 => n = 0
        /\ fds' = [fds EXCEPT ![d] = Reading(fat, D, cluster, n)]
  BY <1>2, ReadIs
<1>5. PICK n \in Nat :
        /\ cluster = IF D.rd_cluster = 0 THEN Firsts[D.fat_entry] ELSE D.rd_cluster
        /\ Firsts[D.fat_entry] = 0 /\ D.rd_cluster = 0 => n = 0
        /\ fds' = [fds EXCEPT ![d] = Reading(fat, D, cluster, n)]
  BY <1>4
<1>6. PICK F, N, R, H, S : F = fat /\ N = Names /\ R = Firsts /\ H = holed /\ S = Sizes OBVIOUS
<1>7. Volume(F, N, R) /\ Fits(F, R, S) /\ Valid(F, N, R, H, D) BY <1>3, <1>6 DEF IInv
<1>8. PICK r : r = Reading(F, D, cluster, n) OBVIOUS
<1>9. r \in Descriptor /\ Valid(F, N, R, H, r)
  <2>1. cluster = IF D.rd_cluster = 0 THEN R[D.fat_entry] ELSE D.rd_cluster BY <1>5, <1>6
  <2>2. R[D.fat_entry] = 0 /\ D.rd_cluster = 0 => n = 0 BY <1>5, <1>6
  <2> QED BY <1>7, <1>8, <2>1, <2>2, ReadingIs
<1>10. fds' = [fds EXCEPT ![d] = r] /\ Valid(fat, Names, Firsts, holed, r) BY <1>5, <1>6, <1>8, <1>9
<1>11. UNCHANGED <<fat, sector, dir, holed>> BY DEF Read
<1> QED BY <1>9, <1>10, <1>11, IInvReads

LEMMA Stays ==
  ASSUME IInv, UNCHANGED <<fat, sector, dir, fds, holed>>
  PROVE  IInv'
<1>1. Names' = Names /\ Firsts' = Firsts /\ Sizes' = Sizes BY SameNames
<1>2. TypeInv' BY DEF IInv, TypeInv
<1> QED BY <1>1, <1>2 DEF IInv

LEMMA NextInv == IInv /\ [Next]_vars => IInv'
<1> SUFFICES ASSUME IInv, [Next]_vars PROVE IInv' OBVIOUS
<1>1. ASSUME NEW d \in Fd, NEW path \in Path, OpenFile(d, path) PROVE IInv' BY <1>1, OpenFileKeeps
<1>2. ASSUME NEW d \in Fd, Close(d) PROVE IInv' BY <1>2, CloseKeeps
<1>3. ASSUME NEW d \in Fd, NEW buf \in Buffer, BeginWrite(d, buf) PROVE IInv' BY <1>3, BeginWriteKeeps
<1>4. ASSUME NEW d \in Fd, WriteChunk(d) PROVE IInv' BY <1>4, WriteChunkKeeps
<1>5. ASSUME NEW d \in Fd, EndWrite(d) PROVE IInv' BY <1>5, EndWriteKeeps
<1>6. ASSUME NEW d \in Fd, NEW len \in Count, Read(d, len) PROVE IInv' BY <1>6, ReadKeeps
<1>7. ASSUME NEW d \in Fd, NEW len \in Count, NEW offset \in PageOffset, Load(d, len, offset) PROVE IInv'
  <2>1. UNCHANGED <<fat, sector, dir, fds, holed>> BY <1>7 DEF Load
  <2> QED BY <2>1, Stays
<1>8. CASE UNCHANGED vars
  <2>1. UNCHANGED <<fat, sector, dir, fds, holed>> BY <1>8 DEF vars
  <2> QED BY <2>1, Stays
<1> QED BY <1>1, <1>2, <1>3, <1>4, <1>5, <1>6, <1>7, <1>8 DEF Next

LEMMA Invariant == Spec => []IInv
<1> QED BY InitInv, NextInv, PTL DEF Spec

-----------------------------------------------------------------------------
(* The bytes of a chain c, where F are the links and S the sectors.        *)

ByteIn(F, S, c, i) ==
  LET k == Walk(F, c, i \div bytes_per_cluster)
  IN  IF k \in Cluster THEN S[k][i % bytes_per_cluster] ELSE Blank

LEMMA ByteAtIs == \A c, i : ByteAt(c, i) = ByteIn(fat, sector, c, i)
BY BehindWalks DEF ByteAt, ByteIn

(* Behind a new cluster come new ones only.                                *)
LEMMA NewNext ==
  ASSUME NEW F, NEW G, NEW w, NEW s, NEW n, Appended(F, G, w, s, n),
         NEW c \in Cluster, F[c] = Free, G[c] \in Cluster
  PROVE  F[G[c]] = Free
<1>1. PICK i \in 1 .. n : s[i] = c BY AppendFacts, LinkFacts
<1>2. n \in Nat /\ i # n BY <1>1, LinkFacts DEF Appended
<1>3. i + 1 \in 1 .. n BY <1>2
<1>4. G[c] = s[i + 1] BY <1>1, <1>2 DEF Appended
<1> QED BY <1>3, <1>4 DEF Appended

LEMMA RowFree ==
  ASSUME NEW F, NEW G, NEW w, NEW s, NEW n, Appended(F, G, w, s, n),
         NEW q \in Nat, Walk(G, s[1], q) \in Cluster
  PROVE  F[Walk(G, s[1], q)] = Free
<1> DEFINE T == {k \in Nat : Walk(G, s[1], k) \in Cluster => F[Walk(G, s[1], k)] = Free}
<1>1. 0 \in T
  <2>1. 1 \in 1 .. n BY AppendFacts
  <2>2. Walk(G, s[1], 0) = s[1] BY WalkIs
  <2>3. F[s[1]] = Free BY <2>1 DEF Appended
  <2> QED BY <2>2, <2>3
<1>2. ASSUME NEW k \in T PROVE k + 1 \in T
  <2>1. PICK c : c = Walk(G, s[1], k) OBVIOUS
  <2>2. k \in Nat /\ (c \in Cluster => F[c] = Free) BY <2>1
  <2>3. Walk(G, s[1], k + 1) = After(G, c) BY <2>1, <2>2, WalkIs
  <2>4. ASSUME After(G, c) \in Cluster PROVE F[After(G, c)] = Free
    <3>1. c \in Cluster /\ After(G, c) = G[c] BY <2>4, LinkFacts DEF After
    <3> QED BY <2>2, <2>4, <3>1, NewNext
  <2> QED BY <2>2, <2>3, <2>4
<1>3. T = Nat
  <2>1. T \in SUBSET Nat OBVIOUS
  <2> HIDE DEF T
  <2> QED BY <1>1, <1>2, <2>1, Induction
<1> QED BY <1>3

(* A chain has the clusters it had and then new ones.                      *)
LEMMA WalkGrown ==
  ASSUME NEW F, NEW G, NEW w, NEW s, NEW n, Appended(F, G, w, s, n),
         NEW a, NEW q \in Nat, Walk(G, a, q) \in Cluster
  PROVE  Walk(F, a, q) = Walk(G, a, q) \/ F[Walk(G, a, q)] = Free
<1> DEFINE T == {k \in Nat : Walk(G, a, k) \in Cluster =>
                   Walk(F, a, k) = Walk(G, a, k) \/ F[Walk(G, a, k)] = Free}
<1>1. 0 \in T BY WalkIs
<1>2. ASSUME NEW k \in T PROVE k + 1 \in T
  <2>1. PICK c, b : c = Walk(G, a, k) /\ b = Walk(F, a, k) OBVIOUS
  <2>2. k \in Nat /\ (c \in Cluster => b = c \/ F[c] = Free) BY <2>1
  <2>3. Walk(G, a, k + 1) = After(G, c) /\ Walk(F, a, k + 1) = After(F, b) BY <2>1, <2>2, WalkIs
  <2>4. ASSUME After(G, c) \in Cluster
        PROVE  After(F, b) = After(G, c) \/ F[After(G, c)] = Free
    <3>1. c \in Cluster /\ After(G, c) = G[c] BY <2>4, LinkFacts DEF After
    <3>2. CASE F[c] = Free BY <2>4, <3>1, <3>2, NewNext
    <3>3. CASE F[c] # Free /\ c = w
      <4>1. G[c] = s[1] /\ 1 \in 1 .. n BY <3>1, <3>3, AppendFacts, LinkFacts DEF Appended
      <4>2. F[s[1]] = Free BY <4>1 DEF Appended
      <4> QED BY <3>1, <4>1, <4>2
    <3>4. CASE F[c] # Free /\ c # w
      <4>1. G[c] = F[c] BY <3>1, <3>4, AppendFacts
      <4>2. b = c /\ After(F, b) = F[c] BY <2>2, <3>1, <3>4 DEF After
      <4> QED BY <3>1, <4>1, <4>2
    <3> QED BY <3>2, <3>3, <3>4
  <2> QED BY <2>2, <2>3, <2>4
<1>3. T = Nat
  <2>1. T \in SUBSET Nat OBVIOUS
  <2> HIDE DEF T
  <2> QED BY <1>1, <1>2, <2>1, Induction
<1> QED BY <1>3

(* So appending clusters changes no byte of any chain.                     *)
LEMMA BytesGrown ==
  ASSUME NEW F, NEW G, NEW w, NEW s, NEW n, Appended(F, G, w, s, n),
         NEW A, Owned(F, A), NEW a \in A, NEW S, Unwritten(F, S), NEW i \in Nat
  PROVE  ByteIn(G, S, a, i) = ByteIn(F, S, a, i)
<1>1. PICK q \in Nat, r \in Sector : q = i \div bytes_per_cluster /\ r = i % bytes_per_cluster
  BY DivIs
<1>2. PICK k, l : k = Walk(F, a, q) /\ l = Walk(G, a, q) OBVIOUS
<1>3. /\ ByteIn(F, S, a, i) = IF k \in Cluster THEN S[k][r] ELSE Blank
      /\ ByteIn(G, S, a, i) = IF l \in Cluster THEN S[l][r] ELSE Blank
  BY <1>1, <1>2 DEF ByteIn
<1>4. CASE k \in Cluster
  <2>1. l = k BY <1>2, <1>4, AppendKeeps
  <2> QED BY <1>3, <2>1
<1>5. CASE k \notin Cluster /\ l \in Cluster
  <2>1. F[l] = Free BY <1>2, <1>5, WalkGrown
  <2>2. S[l][r] = Blank BY <1>5, <2>1 DEF Unwritten, BlankSector
  <2> QED BY <1>3, <1>5, <2>2
<1>6. CASE k \notin Cluster /\ l \notin Cluster BY <1>3, <1>6
<1> QED BY <1>4, <1>5, <1>6

LEMMA BytesBegun ==
  ASSUME NEW F, NEW G, NEW w, NEW s, NEW n, Appended(F, G, w, s, n),
         NEW S, Unwritten(F, S), NEW i \in Nat
  PROVE  ByteIn(G, S, s[1], i) = Blank
<1>1. PICK q \in Nat, r \in Sector : q = i \div bytes_per_cluster /\ r = i % bytes_per_cluster
  BY DivIs
<1>2. PICK l : l = Walk(G, s[1], q) OBVIOUS
<1>3. ByteIn(G, S, s[1], i) = IF l \in Cluster THEN S[l][r] ELSE Blank BY <1>1, <1>2 DEF ByteIn
<1>4. ASSUME l \in Cluster PROVE S[l][r] = Blank
  <2>1. F[l] = Free BY <1>2, <1>4, RowFree
  <2> QED BY <1>4, <2>1 DEF Unwritten, BlankSector
<1> QED BY <1>3, <1>4

(* S becomes T, and differs in cluster c only.                             *)
Elsewhere(S, T, c) == \A b \in Cluster : b # c => T[b] = S[b]

(* S becomes T: n bytes of buf from t on are written at offset off of c.   *)
Overwritten(S, T, c, off, n, buf, t) ==
  /\ \A b \in Cluster : b # c => T[b] = S[b]
  /\ \A i \in Sector : T[c][i] = IF off <= i /\ i < off + n THEN buf[t + i - off + 1] ELSE S[c][i]

LEMMA StoredIs == \A D, c, off, n : Stored(D, c, off, n) => Overwritten(sector, sector', c, off, n, D.buf, D.total)
BY DEF Stored, Overwritten

(* A write to another chain changes no byte of this one, ...               *)
LEMMA OthersStay ==
  ASSUME NEW G, NEW A, Owned(G, A), NEW a \in A, NEW z \in A, z # a,
         NEW k \in Nat, NEW c \in Cluster, Walk(G, a, k) = c,
         NEW S, NEW T, Elsewhere(S, T, c), NEW i \in Nat
  PROVE  ByteIn(G, T, z, i) = ByteIn(G, S, z, i)
<1>1. PICK q \in Nat, r \in Sector : q = i \div bytes_per_cluster /\ r = i % bytes_per_cluster
  BY DivIs
<1>2. PICK l : l = Walk(G, z, q) OBVIOUS
<1>3. /\ ByteIn(G, T, z, i) = IF l \in Cluster THEN T[l][r] ELSE Blank
      /\ ByteIn(G, S, z, i) = IF l \in Cluster THEN S[l][r] ELSE Blank
  BY <1>1, <1>2 DEF ByteIn
<1>4. ASSUME l \in Cluster PROVE T[l] = S[l]
  <2>1. l # c BY <1>2, <1>4, WalkOnce
  <2> QED BY <1>4, <2>1 DEF Elsewhere
<1> QED BY <1>3, <1>4

LEMMA RowsApart ==
  ASSUME NEW m \in Nat, NEW n \in Nat, m < n
  PROVE  m * bytes_per_cluster + bytes_per_cluster <= n * bytes_per_cluster
<1>1. PICK b \in Nat : b = bytes_per_cluster BY SizesAssumption
<1>2. PICK t \in Nat : n = m + 1 + t
  <2>1. n - m - 1 \in Nat /\ n = m + 1 + (n - m - 1) OBVIOUS
  <2> QED BY <2>1
<1>3. n * b = m * b + b + t * b BY <1>2
<1>4. t * b \in Nat /\ m * b \in Nat OBVIOUS
<1> QED BY <1>1, <1>3, <1>4

(* ... and in this one those of the row, and no others.                    *)
ByteStored(G, S, T, a, b, n, buf, t, i) ==
  /\ b <= i /\ i < b + n => ByteIn(G, T, a, i) = buf[t + i - b + 1]
  /\ ~(b <= i /\ i < b + n) => ByteIn(G, T, a, i) = ByteIn(G, S, a, i)

LEMMA StoredBytes ==
  ASSUME NEW G, NEW A, Owned(G, A), NEW a \in A, NEW c \in Cluster,
         NEW off \in Nat, NEW b \in Nat, WritesAt(G, a, c, off, b, TRUE),
         NEW n \in Nat, off + n <= bytes_per_cluster,
         NEW S, NEW T, NEW buf, NEW t \in Nat, Overwritten(S, T, c, off, n, buf, t), NEW i \in Nat
  PROVE  ByteStored(G, S, T, a, b, n, buf, t, i)
<1>1. PICK k \in Nat : Walk(G, a, k) = c /\ b = k * bytes_per_cluster + off BY DEF WritesAt
<1>2. PICK q \in Nat, r \in Sector : q = i \div bytes_per_cluster /\ r = i % bytes_per_cluster
                                     /\ i = q * bytes_per_cluster + r
  BY DivIs
<1>3. PICK l : l = Walk(G, a, q) OBVIOUS
<1>4. /\ ByteIn(G, T, a, i) = IF l \in Cluster THEN T[l][r] ELSE Blank
      /\ ByteIn(G, S, a, i) = IF l \in Cluster THEN S[l][r] ELSE Blank
  BY <1>2, <1>3 DEF ByteIn
<1>5. PICK p \in Nat : p = bytes_per_cluster BY SizesAssumption
<1>6. r \in Nat /\ r < p BY <1>5, SizesAssumption DEF Sector
<1>7. PICK x \in Nat, y \in Nat : x = q * bytes_per_cluster /\ y = k * bytes_per_cluster BY Times
<1>8. i = x + r /\ b = y + off /\ off + n <= p BY <1>1, <1>2, <1>5, <1>7
<1>9. CASE q = k
  <2>1. x = y /\ l = c BY <1>1, <1>3, <1>7, <1>9
  <2>2. (off <= r /\ r < off + n) <=> (b <= i /\ i < b + n) BY <1>6, <1>8, <2>1
  <2>3. t + i - b + 1 = t + r - off + 1 BY <1>6, <1>8, <2>1
  <2>4. T[c][r] = IF off <= r /\ r < off + n THEN buf[t + r - off + 1] ELSE S[c][r]
    BY DEF Overwritten
  <2> QED BY <1>4, <2>1, <2>2, <2>3, <2>4 DEF ByteStored
<1>10. CASE q # k
  <2>1. ASSUME l \in Cluster PROVE T[l] = S[l]
    <3>1. l # c BY <1>1, <1>3, <1>10, <2>1, WalkOnce
    <3> QED BY <2>1, <3>1 DEF Overwritten
  <2>2. ~(b <= i /\ i < b + n)
    <3>1. CASE q < k
      <4>1. x + p <= y BY <1>5, <1>7, <3>1, RowsApart
      <4> QED BY <1>6, <1>8, <4>1
    <3>2. CASE k < q
      <4>1. y + p <= x BY <1>5, <1>7, <3>2, RowsApart
      <4> QED BY <1>6, <1>8, <4>1
    <3> QED BY <1>10, <3>1, <3>2
  <2> QED BY <1>4, <2>1, <2>2 DEF ByteStored
<1> QED BY <1>9, <1>10

(* What is read behind a read position is what is in the file there.       *)
LEMMA BytesRead ==
  ASSUME NEW F, NEW S, NEW a, NEW c, NEW off, NEW b \in Nat, ReadsAt(F, a, c, off, b), NEW i \in Nat,
         NEW x, x = off + i, NEW y, y = b + i
  PROVE  ByteIn(F, S, c, x) = ByteIn(F, S, a, y)
<1>1. ReadsAt(F, a, Walk(F, c, (off + i) \div bytes_per_cluster), (off + i) % bytes_per_cluster, b + i)
  BY ReadsFurther
<1> QED BY <1>1 DEF ReadsAt, ByteIn

-----------------------------------------------------------------------------
(* What Files sees.                                                        *)

BodyIn(F, S, R, H, e) ==
  [i \in 0 .. MaxOffset - 1 |-> IF e \in H \/ R[e] = 0 THEN Blank ELSE ByteIn(F, S, R[e], i)]

LEMMA BodiesAre == Bodies = [e \in File |-> BodyIn(fat, sector, Firsts, holed, e)]
<1>1. ASSUME NEW e \in File PROVE Body(e) = BodyIn(fat, sector, Firsts, holed, e)
  <2>1. Firsts[e] = Entry(e).first BY DEF Firsts
  <2>2. \A i : ByteAt(Entry(e).first, i) = ByteIn(fat, sector, Firsts[e], i) BY <2>1, ByteAtIs
  <2> QED BY <2>1, <2>2 DEF Body, BodyIn
<1> QED BY <1>1 DEF Bodies

LEMMA NextBodiesAre == Bodies' = [e \in File |-> BodyIn(fat', sector', Firsts', holed', e)]
<1>1. (Bodies = [e \in File |-> BodyIn(fat, sector, Firsts, holed, e)])' BY BodiesAre, PTL
<1> QED BY <1>1

(* A body with the same bytes is the same.                                 *)
LEMMA BodyStays ==
  ASSUME NEW F, NEW S, NEW R, NEW H, NEW G, NEW T, NEW Q, NEW J, NEW e,
         e \in J <=> e \in H, Q[e] = R[e],
         \A i \in Nat : R[e] # 0 => ByteIn(G, T, R[e], i) = ByteIn(F, S, R[e], i)
  PROVE  BodyIn(G, T, Q, J, e) = BodyIn(F, S, R, H, e)
<1>1. ASSUME NEW i \in 0 .. MaxOffset - 1, R[e] # 0
      PROVE  ByteIn(G, T, R[e], i) = ByteIn(F, S, R[e], i)
  <2>1. i \in Nat OBVIOUS
  <2> QED BY <1>1, <2>1
<1> QED BY <1>1 DEF BodyIn

(* Appending clusters changes no file.                                     *)
LEMMA BodyGrown ==
  ASSUME NEW F, NEW N, NEW R, Volume(F, N, R), NEW S, Unwritten(F, S),
         NEW G, NEW w, NEW s, NEW n, Appended(F, G, w, s, n), NEW H, NEW Q,
         NEW e \in File, Q[e] = R[e]
  PROVE  BodyIn(G, S, Q, H, e) = BodyIn(F, S, R, H, e)
<1>1. ASSUME NEW i \in Nat, R[e] # 0 PROVE ByteIn(G, S, R[e], i) = ByteIn(F, S, R[e], i)
  <2>1. PICK A : A = StartsOf(R) OBVIOUS
  <2>2. PICK a : a = R[e] OBVIOUS
  <2>3. Owned(F, A) /\ a \in A BY <1>1, <2>1, <2>2, StartsFacts DEF Volume
  <2>4. ByteIn(G, S, a, i) = ByteIn(F, S, a, i) BY <2>3, BytesGrown
  <2> QED BY <2>2, <2>4
<1> QED BY <1>1, BodyStays

(* A descriptor that is open, as Files sees it.                            *)
SeenType == [file : File, rd : Nat, wr : Nat, todo : Seq(Byte) \cup {NoCall}, lost : BOOLEAN]

LEMMA SeenFields ==
  ASSUME NEW D \in Descriptor, NEW x, x = Seen(D)
  PROVE  /\ x # Closed /\ x \in SeenType
         /\ x.file = D.fat_entry /\ x.rd = D.rd_off /\ x.wr = D.wr_off + D.total
         /\ D.buf = NoCall => x.todo = NoCall
         /\ D.buf # NoCall => x.todo = SubSeq(D.buf, D.total + 1, Len(D.buf))
         /\ x.lost = (D.rd_cluster = kEndOfClusterchain)
<1>1. D \in [fat_entry : File, rd_off : Nat, rd_cluster : Nat, rd_cluster_off : Nat,
             wr_off : Nat, wr_cluster : Nat, wr_cluster_off : Nat,
             buf : Buffer \cup {NoCall}, total : Nat]
  <2>1. /\ Link \subseteq Nat /\ Cluster \cup {0} \subseteq Nat /\ 0 .. bytes_per_cluster \subseteq Nat
    BY LinkFacts, SizesAssumption DEF Link
  <2> QED BY <2>1 DEF Descriptor
<1>2. D # Closed BY <1>1, ClosedAssumption
<1>3. PICK todo : todo = IF D.buf = NoCall THEN NoCall ELSE SubSeq(D.buf, D.total + 1, Len(D.buf))
  OBVIOUS
<1>4. todo \in Seq(Byte) \cup {NoCall}
  <2>1. CASE D.buf = NoCall BY <1>3, <2>1
  <2>2. CASE D.buf # NoCall
    <3>1. D.buf \in Seq(Byte) /\ D.total \in Nat BY <2>2, BufferIs
    <3>2. PICK q \in Seq(Byte), t \in Nat : q = D.buf /\ t = D.total BY <3>1
    <3>3. SubSeq(q, t + 1, Len(q)) \in Seq(Byte) OBVIOUS
    <3> QED BY <1>3, <2>2, <3>2, <3>3
  <2> QED BY <2>1, <2>2
<1>5. PICK lost : lost = (D.rd_cluster = kEndOfClusterchain) OBVIOUS
<1>6. lost \in BOOLEAN BY <1>5
<1>7. D.fat_entry \in File /\ D.rd_off \in Nat /\ D.wr_off \in Nat /\ D.total \in Nat BY <1>1
<1>8. PICK r : r = [file |-> D.fat_entry, rd |-> D.rd_off, wr |-> D.wr_off + D.total,
                    todo |-> todo, lost |-> lost]
  OBVIOUS
<1>9. Seen(D) = r BY <1>2, <1>3, <1>5, <1>8 DEF Seen
<1>10. r \in [file : File, rd : Nat, wr : Nat, todo : Seq(Byte) \cup {NoCall}, lost : BOOLEAN]
  BY <1>4, <1>6, <1>7, <1>8
<1>11. r # Closed BY <1>10, ClosedAssumption
<1>12. /\ r.file = D.fat_entry /\ r.rd = D.rd_off /\ r.wr = D.wr_off + D.total
       /\ r.todo = todo /\ r.lost = lost
  BY <1>8
<1>13. D.buf = NoCall => todo = NoCall BY <1>3
<1>14. D.buf # NoCall => todo = SubSeq(D.buf, D.total + 1, Len(D.buf)) BY <1>3
<1>15. x = r BY <1>9
<1> QED BY <1>5, <1>10, <1>11, <1>12, <1>13, <1>14, <1>15 DEF SeenType

LEMMA DescriptorsAre ==
  ASSUME NEW d \in Fd PROVE Descriptors[d] = Seen(fds[d])
BY DEF Descriptors

LEMMA PutDescriptor ==
  ASSUME TypeInv, NEW d \in Fd, NEW r, fds' = [fds EXCEPT ![d] = r]
  PROVE  Descriptors' = [Descriptors EXCEPT ![d] = Seen(r)]
<1>1. Descriptors' = [x \in Fd |-> Seen(fds'[x])] BY DEF Descriptors, Seen
<1>2. fds \in [Fd -> Descriptor \cup {Closed}] BY DEF TypeInv
<1>3. Descriptors = [x \in Fd |-> Seen(fds[x])] BY DEF Descriptors
<1>4. \A x \in Fd : fds'[x] = IF x = d THEN r ELSE fds[x] BY <1>2
<1> QED BY <1>1, <1>3, <1>4

LEMMA RestIs ==
  ASSUME NEW q \in Seq(Byte), NEW t \in Nat, t <= Len(q)
  PROVE  /\ SubSeq(q, t + 1, Len(q)) \in Seq(Byte) /\ Len(SubSeq(q, t + 1, Len(q))) = Len(q) - t
         /\ \A i \in 1 .. Len(q) - t : SubSeq(q, t + 1, Len(q))[i] = q[t + i]
<1>1. PICK rest : rest = SubSeq(q, t + 1, Len(q)) OBVIOUS
<1>2. PICK l \in Nat : l = Len(q) OBVIOUS
<1>3. rest \in Seq(Byte) /\ Len(rest) = l - t /\ \A i \in 1 .. l - t : rest[i] = q[t + i]
  BY <1>1, <1>2
<1> QED BY <1>1, <1>2, <1>3

LEMMA SubSeqRest ==
  ASSUME NEW q \in Seq(Byte), NEW t \in Nat, NEW n \in Nat, t + n <= Len(q),
         NEW rest, rest = SubSeq(q, t + 1, Len(q))
  PROVE  /\ rest \in Seq(Byte) /\ Len(rest) = Len(q) - t /\ n <= Len(rest)
         /\ \A i \in 1 .. n : rest[i] = q[t + i]
         /\ SubSeq(rest, n + 1, Len(rest)) = SubSeq(q, t + n + 1, Len(q))
<1>1. PICK l \in Nat, m \in Nat, k \in Nat :
        l = Len(q) /\ m = t + n /\ k = l - t /\ m <= l /\ k - n = l - m /\ n <= k /\ t <= l
  <2>1. Len(q) \in Nat /\ t + n \in Nat /\ Len(q) - t \in Nat OBVIOUS
  <2> QED BY <2>1
<1>2. rest \in Seq(Byte) /\ Len(rest) = k /\ \A i \in 1 .. k : rest[i] = q[t + i]
  BY <1>1, RestIs
<1>3. PICK x, y : x = SubSeq(rest, n + 1, Len(rest)) /\ y = SubSeq(q, m + 1, Len(q)) OBVIOUS
<1>4. x \in Seq(Byte) /\ Len(x) = k - n /\ \A i \in 1 .. k - n : x[i] = rest[n + i]
  <2>1. n <= Len(rest) BY <1>1, <1>2, SMTT(30)
  <2>2. x \in Seq(Byte) /\ Len(x) = Len(rest) - n
        /\ \A i \in 1 .. Len(rest) - n : x[i] = rest[n + i]
    BY <1>2, <1>3, <2>1, RestIs
  <2> QED BY <1>2, <2>2
<1>5. y \in Seq(Byte) /\ Len(y) = l - m /\ \A i \in 1 .. l - m : y[i] = q[m + i]
  BY <1>1, <1>3, RestIs
<1>6. PICK z : z = k - n OBVIOUS
<1>7. ASSUME NEW i \in 1 .. z PROVE x[i] = y[i]
  <2>1. n + i \in 1 .. k /\ t + (n + i) = m + i /\ i \in 1 .. k - n /\ i \in 1 .. l - m
    BY <1>1, <1>6
  <2> QED BY <1>2, <1>4, <1>5, <2>1
<1>8. x = y
  <2>1. Len(x) = z /\ Len(y) = z BY <1>1, <1>4, <1>5, <1>6
  <2>2. x = [i \in 1 .. z |-> x[i]] BY <1>4, <2>1
  <2>3. y = [i \in 1 .. z |-> y[i]] BY <1>5, <2>1
  <2> QED BY <1>7, <2>2, <2>3
<1>9. Len(rest) = Len(q) - t /\ n <= Len(rest)
  <2>1. k = Len(q) - t /\ n <= k BY <1>1, SMTT(30)
  <2> QED BY <1>2, <2>1, Zenon
<1>10. \A i \in 1 .. n : rest[i] = q[t + i]
  <2>1. \A i \in 1 .. n : i \in 1 .. k BY <1>1, SMTT(30)
  <2> QED BY <1>2, <2>1, Zenon
<1>11. SubSeq(rest, n + 1, Len(rest)) = SubSeq(q, t + n + 1, Len(q))
  <2>1. m = t + n BY <1>1, Zenon
  <2> QED BY <1>3, <1>8, <2>1, Zenon
<1> QED BY <1>2, <1>9, <1>10, <1>11

-----------------------------------------------------------------------------
(* The calls that write no bytes do what they do to Files.                 *)

LEMMA StartRecord ==
  ASSUME NEW e \in File
  PROVE  Seen(NewDescriptor(e)) = [file |-> e, rd |-> 0, wr |-> 0, todo |-> NoCall, lost |-> FALSE]
<1>1. PICK D : D = NewDescriptor(e) OBVIOUS
<1>2. /\ D.fat_entry = e /\ D.rd_off = 0 /\ D.rd_cluster = 0 /\ D.wr_off = 0
      /\ D.buf = NoCall /\ D.total = 0
  BY <1>1 DEF NewDescriptor
<1>3. D \in Descriptor
  <2>1. 0 \in Link BY DEF Link, Free
  <2> QED BY <1>1, <2>1, Sizes0 DEF NewDescriptor, Descriptor
<1>4. (D.rd_cluster = kEndOfClusterchain) = FALSE BY <1>2, LinkFacts
<1>5. D.wr_off + D.total = 0 BY <1>2
<1>6. PICK x : x = Seen(D) OBVIOUS
<1>7. /\ x \in SeenType /\ x.file = e /\ x.rd = 0 /\ x.wr = 0 /\ x.todo = NoCall
      /\ x.lost = FALSE
  BY <1>2, <1>3, <1>4, <1>5, <1>6, SeenFields
<1> QED BY <1>1, <1>6, <1>7 DEF SeenType

LEMMA OpenRefines ==
  ASSUME IInv, NEW d \in Fd, NEW path \in Path, OpenFile(d, path)
  PROVE  Promise!Next
<1>1. PICK e \in File : Created(e) /\ fds' = [fds EXCEPT ![d] = NewDescriptor(e)] BY OpenFileIs
<1>2. /\ sector' = sector /\ holed' = holed /\ out' = <<>> /\ fds[d] = Closed
      /\ TypeInv /\ Volume(fat, Names, Firsts) /\ Unwritten(fat, sector)
  BY DEF OpenFile, IInv
<1>3. Firsts' = Firsts /\ Sizes' = Sizes BY <1>1 DEF Created
<1>4. Bodies' = Bodies
  <2>1. ASSUME NEW f \in File
        PROVE  BodyIn(fat', sector', Firsts', holed', f) = BodyIn(fat, sector, Firsts, holed, f)
    <3>1. CASE fat' = fat BY <1>2, <1>3, <3>1
    <3>2. CASE \E w, s, n : Appended(fat, fat', w, s, n)
      <4>1. PICK w, s, n : Appended(fat, fat', w, s, n) BY <3>2
      <4>2. BodyIn(fat', sector, Firsts, holed, f) = BodyIn(fat, sector, Firsts, holed, f)
        BY <1>2, <4>1, BodyGrown
      <4> QED BY <1>2, <1>3, <4>2
    <3> QED BY <1>1, <3>1, <3>2 DEF Created, Extended
  <2> QED BY <2>1, BodiesAre, NextBodiesAre
<1>5. PICK r : r = NewDescriptor(e) OBVIOUS
<1>6. Descriptors' = [Descriptors EXCEPT ![d] = Seen(r)] BY <1>1, <1>2, <1>5, PutDescriptor
<1>7. Seen(r) = [file |-> e, rd |-> 0, wr |-> 0, todo |-> NoCall, lost |-> FALSE]
  BY <1>5, StartRecord
<1>8. Descriptors[d] = Closed BY <1>2, DescriptorsAre DEF Seen
<1>9. Promise!Open(d, e) BY <1>2, <1>3, <1>4, <1>6, <1>7, <1>8 DEF Promise!Open
<1> QED BY <1>9 DEF Promise!Next

LEMMA IdleSeen ==
  ASSUME IInv, NEW d \in Fd, Idle(d)
  PROVE  /\ Descriptors[d] # Closed /\ Descriptors[d].todo = NoCall /\ Promise!Idle(d)
<1>1. fds[d] # Closed /\ fds[d].buf = NoCall BY DEF Idle
<1>2. PICK D \in Descriptor : D = fds[d] BY <1>1, Opened
<1>3. Descriptors[d] = Seen(D) BY <1>2, DescriptorsAre
<1>4. Seen(D) # Closed /\ Seen(D).todo = NoCall BY <1>1, <1>2, SeenFields
<1> QED BY <1>3, <1>4 DEF Promise!Idle

(* A step that leaves the volume alone.                                    *)
LEMMA BodiesStay ==
  ASSUME UNCHANGED <<fat, sector, dir, holed>>
  PROVE  Bodies' = Bodies /\ Sizes' = Sizes
<1>1. Firsts' = Firsts /\ Sizes' = Sizes BY SameNames
<1> QED BY <1>1, BodiesAre, NextBodiesAre

LEMMA CloseRefines ==
  ASSUME IInv, NEW d \in Fd, Close(d)
  PROVE  Promise!Next
<1>1. /\ Idle(d) /\ fds' = [fds EXCEPT ![d] = Closed] /\ out' = <<>>
      /\ UNCHANGED <<fat, sector, dir, holed>> /\ TypeInv
  BY DEF Close, IInv
<1>2. Descriptors' = [Descriptors EXCEPT ![d] = Seen(Closed)] BY <1>1, PutDescriptor
<1>3. Seen(Closed) = Closed BY DEF Seen
<1>4. Promise!Idle(d) BY <1>1, IdleSeen
<1>5. Bodies' = Bodies /\ Sizes' = Sizes BY <1>1, BodiesStay
<1>6. Promise!Close(d) BY <1>1, <1>2, <1>3, <1>4, <1>5 DEF Promise!Close
<1> QED BY <1>6 DEF Promise!Next

LEMMA BeginSeen ==
  ASSUME NEW D \in Descriptor, D.buf = NoCall, D.total = 0, NEW c \in Cluster, NEW buf \in Buffer
  PROVE  Seen(Beginning(D, c, buf)) = [Seen(D) EXCEPT !.todo = buf]
<1>1. PICK E : E = Beginning(D, c, buf) OBVIOUS
<1>2. /\ E.fat_entry = D.fat_entry /\ E.rd_off = D.rd_off /\ E.rd_cluster = D.rd_cluster
      /\ E.wr_off = D.wr_off /\ E.buf = buf /\ E.total = D.total /\ E \in Descriptor
  BY <1>1 DEF Beginning, Descriptor
<1>3. buf # NoCall /\ buf \in Seq(Byte) BY BufferAssumption
<1>4. SubSeq(buf, E.total + 1, Len(buf)) = buf
  <2>1. E.total + 1 = 1 BY <1>2
  <2> QED BY <1>3, <2>1
<1>5. PICK x, y : x = Seen(D) /\ y = Seen(E) OBVIOUS
<1>6. /\ x \in SeenType /\ x.file = D.fat_entry /\ x.rd = D.rd_off /\ x.wr = D.wr_off + D.total
      /\ x.lost = (D.rd_cluster = kEndOfClusterchain)
  BY <1>5, SeenFields
<1>7. /\ y \in SeenType /\ y.file = D.fat_entry /\ y.rd = D.rd_off /\ y.wr = D.wr_off + D.total
      /\ y.todo = buf /\ y.lost = (D.rd_cluster = kEndOfClusterchain)
  BY <1>2, <1>3, <1>4, <1>5, SeenFields
<1>8. y = [x EXCEPT !.todo = buf] BY <1>6, <1>7 DEF SeenType
<1> QED BY <1>1, <1>5, <1>8

LEMMA BeginWriteRefines ==
  ASSUME IInv, NEW d \in Fd, NEW buf \in Buffer, BeginWrite(d, buf)
  PROVE  Promise!Next
<1>1. /\ Idle(d) /\ out' = <<>> /\ UNCHANGED <<sector, holed>> /\ TypeInv
      /\ Volume(fat, Names, Firsts) /\ Unwritten(fat, sector)
      /\ dir \in [Cluster -> [Slot -> EntryType]]
  BY DEF BeginWrite, IInv, TypeInv
<1>2. PICK D \in Descriptor, c \in Cluster :
        /\ D = fds[d] /\ D.buf = NoCall /\ D.wr_off + Len(buf) <= MaxOffset
        /\ Begun(d, D, buf, c)
  BY BeginWriteIs
<1>3. fds[d] # Closed BY <1>1 DEF Idle
<1>4. PICK e \in File : e = D.fat_entry BY <1>2, <1>3, Opened
<1>5. D.total = 0 BY <1>2, <1>3, Opened DEF Valid
<1>6. Bodies' = Bodies /\ Sizes' = Sizes
  <2>1. CASE UNCHANGED <<fat, dir>> BY <1>1, <2>1, BodiesStay
  <2>2. CASE /\ Firsts[D.fat_entry] = 0 /\ Sizes' = Sizes /\ Firsts' = [Firsts EXCEPT ![D.fat_entry] = c]
             /\ \E s, n : Appended(fat, fat', 0, s, n) /\ c = s[1]
    <3>1. PICK s, n : Appended(fat, fat', 0, s, n) /\ c = s[1] BY <2>2
    <3>2. Firsts \in [File -> Cluster \cup {0}] BY <1>1, FunctionsAre
    <3>3. Firsts'[e] = c /\ \A f \in File : f # e => Firsts'[f] = Firsts[f] BY <1>4, <2>2, <3>2
    <3>4. ASSUME NEW f \in File
          PROVE  BodyIn(fat', sector', Firsts', holed', f) = BodyIn(fat, sector, Firsts, holed, f)
      <4>1. CASE f = e
        <5>1. \A i \in 0 .. MaxOffset - 1 : ByteIn(fat', sector, s[1], i) = Blank
          <6>1. ASSUME NEW i \in 0 .. MaxOffset - 1 PROVE ByteIn(fat', sector, s[1], i) = Blank
            <7>1. i \in Nat OBVIOUS
            <7> QED BY <1>1, <3>1, <7>1, BytesBegun
          <6> QED BY <6>1
        <5>2. Firsts[f] = 0 /\ Firsts'[f] = s[1] BY <1>4, <2>2, <3>1, <3>3, <4>1
        <5> QED BY <1>1, <5>1, <5>2 DEF BodyIn
      <4>2. CASE f # e
        <5>1. PICK Q : Q = Firsts' OBVIOUS
        <5>2. Q[f] = Firsts[f] BY <3>3, <4>2, <5>1
        <5>3. BodyIn(fat', sector, Q, holed, f) = BodyIn(fat, sector, Firsts, holed, f)
          BY <1>1, <3>1, <5>2, BodyGrown
        <5> QED BY <1>1, <5>1, <5>3
      <4> QED BY <4>1, <4>2
    <3> QED BY <2>2, <3>4, BodiesAre, NextBodiesAre
  <2> QED BY <1>2, <2>1, <2>2 DEF Begun
<1>7. PICK r : r = Beginning(D, c, buf) OBVIOUS
<1>8. Descriptors' = [Descriptors EXCEPT ![d] = Seen(r)]
  <2>1. fds' = [fds EXCEPT ![d] = r] BY <1>2, <1>7 DEF Begun
  <2> QED BY <1>1, <2>1, PutDescriptor
<1>9. Seen(r) = [Descriptors[d] EXCEPT !.todo = buf]
  <2>1. Descriptors[d] = Seen(D) BY <1>2, DescriptorsAre
  <2> QED BY <1>2, <1>5, <1>7, <2>1, BeginSeen
<1>10. Promise!Idle(d) BY <1>1, IdleSeen
<1>11. Promise!BeginWrite(d, buf)
  <2>1. Descriptors' = [Descriptors EXCEPT ![d].todo = buf] BY <1>8, <1>9
  <2> QED BY <1>1, <1>6, <1>10, <2>1 DEF Promise!BeginWrite
<1> QED BY <1>11 DEF Promise!Next

LEMMA EndSeen ==
  ASSUME NEW D \in Descriptor, D.buf # NoCall, NEW end \in Nat, end = D.wr_off + D.total
  PROVE  Seen(Ended(D, end)) = [Seen(D) EXCEPT !.todo = NoCall]
<1>1. PICK E : E = Ended(D, end) OBVIOUS
<1>2. /\ E.fat_entry = D.fat_entry /\ E.rd_off = D.rd_off /\ E.rd_cluster = D.rd_cluster
      /\ E.wr_off = end /\ E.buf = NoCall /\ E.total = 0 /\ E \in Descriptor
  BY <1>1, Sizes0 DEF Ended, Descriptor
<1>3. E.wr_off + E.total = D.wr_off + D.total BY <1>2
<1>4. PICK x, y : x = Seen(D) /\ y = Seen(E) OBVIOUS
<1>5. /\ x \in SeenType /\ x.file = D.fat_entry /\ x.rd = D.rd_off /\ x.wr = D.wr_off + D.total
      /\ x.lost = (D.rd_cluster = kEndOfClusterchain)
  BY <1>4, SeenFields
<1>6. /\ y \in SeenType /\ y.file = D.fat_entry /\ y.rd = D.rd_off /\ y.wr = D.wr_off + D.total
      /\ y.todo = NoCall /\ y.lost = (D.rd_cluster = kEndOfClusterchain)
  BY <1>2, <1>3, <1>4, SeenFields
<1>7. y = [x EXCEPT !.todo = NoCall] BY <1>5, <1>6 DEF SeenType
<1> QED BY <1>1, <1>4, <1>7

LEMMA EndWriteRefines ==
  ASSUME IInv, NEW d \in Fd, EndWrite(d)
  PROVE  Promise!Next
<1>1. UNCHANGED <<fat, sector, holed>> /\ out' = <<>> /\ TypeInv BY DEF EndWrite, IInv
<1>2. PICK D \in Descriptor, end \in Nat :
        /\ D = fds[d] /\ D.buf # NoCall /\ D.total = Len(D.buf) /\ end = D.wr_off + D.total
        /\ fds' = [fds EXCEPT ![d] = Ended(D, end)]
        /\ dir' \in [Cluster -> [Slot -> EntryType]] /\ Names' = Names /\ Firsts' = Firsts
        /\ Sizes' = [Sizes EXCEPT ![D.fat_entry] = end]
  BY EndWriteIs
<1>3. Bodies' = Bodies BY <1>1, <1>2, BodiesAre, NextBodiesAre
<1>4. PICK r, x : r = Ended(D, end) /\ x = Seen(D) OBVIOUS
<1>5. Descriptors' = [Descriptors EXCEPT ![d] = Seen(r)] BY <1>1, <1>2, <1>4, PutDescriptor
<1>6. Descriptors[d] = x BY <1>2, <1>4, DescriptorsAre
<1>7. Seen(r) = [x EXCEPT !.todo = NoCall] BY <1>2, <1>4, EndSeen
<1>8. x # Closed /\ x.file = D.fat_entry /\ x.wr = end
      /\ x.todo = SubSeq(D.buf, D.total + 1, Len(D.buf))
  BY <1>2, <1>4, SeenFields
<1>9. x.todo = <<>>
  <2>1. PICK q \in Seq(Byte), l \in Nat : q = D.buf /\ l = Len(q) BY <1>2, BufferIs
  <2>2. SubSeq(q, l + 1, l) = <<>> BY <2>1
  <2> QED BY <1>2, <1>8, <2>1, <2>2
<1>10. Descriptors' = [Descriptors EXCEPT ![d].todo = NoCall] BY <1>5, <1>6, <1>7
<1>11. Promise!EndWrite(d)
  BY <1>1, <1>2, <1>3, <1>6, <1>8, <1>9, <1>10 DEF Promise!EndWrite
<1> QED BY <1>11 DEF Promise!Next

-----------------------------------------------------------------------------
(* A pass of the loop of Write puts bytes.                                 *)

(* From x to y: n more bytes are written.                                  *)
SeenStored(D, x, y, n) ==
  /\ y = [x EXCEPT !.wr = x.wr + n, !.todo = SubSeq(x.todo, n + 1, Len(x.todo))]
  /\ x # Closed /\ x.todo # NoCall /\ n <= Len(x.todo) /\ Len(x.todo) = Len(D.buf) - D.total
  /\ x.file = D.fat_entry /\ x.wr = D.wr_off + D.total /\ x.wr \in Nat
  /\ \A i \in 1 .. n : x.todo[i] = D.buf[D.total + i]

LEMMA StoreSeen ==
  ASSUME NEW D \in Descriptor, D.buf # NoCall, NEW c \in Cluster, NEW off \in Nat, NEW n \in Nat,
         D.total + n <= Len(D.buf), off + n <= bytes_per_cluster, NEW x, x = Seen(D)
  PROVE  SeenStored(D, x, Seen(Storing(D, c, off, n)), n)
<1>1. PICK q \in Seq(Byte), t \in Nat, w \in Nat : q = D.buf /\ t = D.total /\ w = D.wr_off
  BY BufferIs
<1>2. x # Closed /\ x.file = D.fat_entry /\ x.wr = w + t /\ x.rd = D.rd_off /\ x \in SeenType
      /\ x.todo = SubSeq(q, t + 1, Len(q)) /\ x.lost = (D.rd_cluster = kEndOfClusterchain)
  BY <1>1, SeenFields
<1>3. PICK rest : rest = x.todo OBVIOUS
<1>4. /\ rest \in Seq(Byte) /\ Len(rest) = Len(q) - t /\ n <= Len(rest)
      /\ \A i \in 1 .. n : rest[i] = q[t + i]
      /\ SubSeq(rest, n + 1, Len(rest)) = SubSeq(q, t + n + 1, Len(q))
  <2>1. rest = SubSeq(q, t + 1, Len(q)) /\ t + n <= Len(q) BY <1>1, <1>2, <1>3
  <2> QED BY <2>1, SubSeqRest
<1>5. rest # NoCall BY <1>4, BufferAssumption
<1>6. PICK E, o, u : E = Storing(D, c, off, n) /\ o = off + n /\ u = t + n OBVIOUS
<1>7. o \in 0 .. bytes_per_cluster /\ u \in Nat BY <1>6, SizesAssumption
<1>8. E = [D EXCEPT !.wr_cluster = c, !.wr_cluster_off = o, !.total = u]
  BY <1>1, <1>6 DEF Storing
<1>9. /\ E.fat_entry = D.fat_entry /\ E.rd_off = D.rd_off /\ E.rd_cluster = D.rd_cluster
      /\ E.wr_off = D.wr_off /\ E.buf = D.buf /\ E.total = u /\ E \in Descriptor
  BY <1>7, <1>8 DEF Descriptor
<1>10. E.wr_off + E.total = x.wr + n BY <1>1, <1>2, <1>6, <1>9
<1>11. PICK y, v : y = Seen(E) /\ v = SubSeq(x.todo, n + 1, Len(x.todo)) OBVIOUS
<1>12. /\ y \in SeenType /\ y.file = D.fat_entry /\ y.rd = D.rd_off /\ y.wr = x.wr + n
       /\ y.todo = SubSeq(q, u + 1, Len(q)) /\ y.lost = (D.rd_cluster = kEndOfClusterchain)
  BY <1>1, <1>9, <1>10, <1>11, SeenFields
<1>13. y.todo = v BY <1>3, <1>4, <1>6, <1>11, <1>12
<1>14. y = [x EXCEPT !.wr = x.wr + n, !.todo = v] BY <1>2, <1>12, <1>13 DEF SeenType
<1>15. y = [x EXCEPT !.wr = x.wr + n, !.todo = SubSeq(x.todo, n + 1, Len(x.todo))]
  BY <1>11, <1>14
<1>16. x.wr = D.wr_off + D.total /\ x.wr \in Nat BY <1>1, <1>2
<1>17. SeenStored(D, x, y, n) BY <1>1, <1>2, <1>3, <1>4, <1>5, <1>15, <1>16 DEF SeenStored
<1> QED BY <1>6, <1>11, <1>17

(* From body B to C: n bytes of buf from t on are put at b.                *)
BodyStored(B, C, b, n, buf, t) ==
  \A i \in 0 .. MaxOffset - 1 :
    C[i] = IF b <= i /\ i < b + n THEN buf[t + i - b + 1] ELSE B[i]

(* The bytes stored appear in the file of the descriptor, ...              *)
LEMMA BodyPut ==
  ASSUME NEW F, NEW N, NEW R, Volume(F, N, R), NEW S, Unwritten(F, S),
         NEW G, Volume(G, N, R), Extended(F, G),
         NEW H, NEW J, H \subseteq J, NEW e \in File, R[e] # 0, e \notin J,
         NEW c \in Cluster, NEW off \in Nat, NEW n \in Nat, NEW b \in Nat, NEW buf, NEW t \in Nat,
         WritesAt(G, R[e], c, off, b, TRUE), off + n <= bytes_per_cluster,
         NEW T, Overwritten(S, T, c, off, n, buf, t)
  PROVE  BodyStored(BodyIn(F, S, R, H, e), BodyIn(G, T, R, J, e), b, n, buf, t)
<1>1. PICK A, a : A = StartsOf(R) /\ a = R[e] OBVIOUS
<1>2. Owned(F, A) /\ Owned(G, A) /\ a \in A BY <1>1, StartsFacts DEF Volume
<1>3. WritesAt(G, a, c, off, b, TRUE) BY <1>1
<1>4. ASSUME NEW i \in 0 .. MaxOffset - 1
      PROVE  BodyIn(G, T, R, J, e)[i] = IF b <= i /\ i < b + n THEN buf[t + i - b + 1]
                                        ELSE BodyIn(F, S, R, H, e)[i]
  <2>1. i \in Nat OBVIOUS
  <2>2. ByteStored(G, S, T, a, b, n, buf, t, i) BY <1>2, <1>3, <2>1, StoredBytes
  <2>3. ByteIn(G, S, a, i) = ByteIn(F, S, a, i)
    <3>1. CASE G = F BY <3>1
    <3>2. CASE \E w, s, m : Appended(F, G, w, s, m)
      <4>1. PICK w, s, m : Appended(F, G, w, s, m) BY <3>2
      <4> QED BY <1>2, <2>1, <4>1, BytesGrown
    <3> QED BY <3>1, <3>2 DEF Extended
  <2>4. BodyIn(G, T, R, J, e)[i] = ByteIn(G, T, a, i) /\ BodyIn(F, S, R, H, e)[i] = ByteIn(F, S, a, i)
    BY <1>1 DEF BodyIn
  <2> QED BY <2>2, <2>3, <2>4 DEF ByteStored
<1> QED BY <1>4 DEF BodyStored

(* ... and the other files stay.                                           *)
LEMMA BodyElsewhere ==
  ASSUME NEW F, NEW N, NEW R, Volume(F, N, R), NEW S, Unwritten(F, S),
         NEW G, Volume(G, N, R), Extended(F, G),
         NEW H, NEW J, NEW e \in File, R[e] # 0, NEW f \in File, f # e, f \in J => f \in H, f \in H => f \in J,
         NEW c \in Cluster, NEW k \in Nat, Walk(G, R[e], k) = c, NEW T, Elsewhere(S, T, c)
  PROVE  BodyIn(G, T, R, J, f) = BodyIn(F, S, R, H, f)
<1>1. PICK A, a, z : A = StartsOf(R) /\ a = R[e] /\ z = R[f] OBVIOUS
<1>2. Owned(F, A) /\ Owned(G, A) /\ a \in A BY <1>1, StartsFacts DEF Volume
<1>3. Walk(G, a, k) = c BY <1>1
<1>4. ASSUME NEW i \in Nat, R[f] # 0 PROVE ByteIn(G, T, R[f], i) = ByteIn(F, S, R[f], i)
  <2>1. z \in A /\ z # a BY <1>1, <1>4, StartsFacts DEF Volume, Roots
  <2>2. ByteIn(G, T, z, i) = ByteIn(G, S, z, i) BY <1>2, <1>3, <2>1, OthersStay
  <2>3. ByteIn(G, S, z, i) = ByteIn(F, S, z, i)
    <3>1. CASE G = F BY <3>1
    <3>2. CASE \E w, s, m : Appended(F, G, w, s, m)
      <4>1. PICK w, s, m : Appended(F, G, w, s, m) BY <3>2
      <4> QED BY <1>2, <2>1, <4>1, BytesGrown
    <3> QED BY <3>1, <3>2 DEF Extended
  <2> QED BY <1>1, <2>2, <2>3
<1> QED BY <1>4, BodyStays

LEMMA WriteChunkRefines ==
  ASSUME IInv, NEW d \in Fd, WriteChunk(d)
  PROVE  Promise!Next
<1>1. PICK D \in Descriptor, c \in Cluster, off \in 0 .. bytes_per_cluster :
        D = fds[d] /\ D # Closed /\ D.buf # NoCall /\ Chunk(d, D, c, off)
  BY WriteChunkIs
<1>2. /\ TypeInv /\ Volume(fat, Names, Firsts) /\ Unwritten(fat, sector)
      /\ Valid(fat, Names, Firsts, holed, D)
      /\ dir' = dir /\ out' = <<>>
  BY <1>1 DEF WriteChunk, IInv
<1>3. /\ D.total \in Nat /\ Len(D.buf) \in Nat /\ D.total < Len(D.buf) /\ off < bytes_per_cluster
      /\ off \in Nat /\ D.total <= Len(D.buf)
  BY <1>1, BufferIs DEF Chunk
<1>4. PICK n : Stored(D, c, off, n) /\ fds' = [fds EXCEPT ![d] = Storing(D, c, off, n)]
  BY <1>1, <1>2, <1>3, StoreIs DEF Chunk
<1>5. /\ n \in Nat /\ off + n <= bytes_per_cluster /\ D.total + n <= Len(D.buf) /\ n # 0
      /\ Overwritten(sector, sector', c, off, n, D.buf, D.total)
  BY <1>3, <1>4, StoredIs DEF Stored
<1>6. PICK x, r : x = Seen(D) /\ r = Storing(D, c, off, n) OBVIOUS
<1>7. SeenStored(D, x, Seen(r), n) BY <1>1, <1>3, <1>5, <1>6, StoreSeen
<1>8. Descriptors[d] = x /\ Descriptors' = [Descriptors EXCEPT ![d] = Seen(r)]
  BY <1>1, <1>2, <1>4, <1>6, DescriptorsAre, PutDescriptor
<1>9. PICK e \in File, b \in Nat, t \in Nat : e = x.file /\ b = x.wr /\ t = D.total
  <2>1. D.fat_entry \in File BY DEF Descriptor
  <2> QED BY <1>3, <1>7, <2>1 DEF SeenStored
<1>10. Names' = Names /\ Firsts' = Firsts /\ Sizes' = Sizes BY <1>2, SameNames
<1>11. PICK F, N, R, H, S : F = fat /\ N = Names /\ R = Firsts /\ H = holed /\ S = sector OBVIOUS
<1>12. PICK G, J, T : G = fat' /\ J = holed' /\ T = sector' OBVIOUS
<1>13. PICK y \in BOOLEAN : y = (e \notin J) BY Zenon
<1>14. /\ Volume(F, N, R) /\ Unwritten(F, S) /\ Volume(G, N, R) /\ R[e] # 0
       /\ Extended(F, G) /\ H \subseteq J /\ WritesAt(G, R[e], c, off, b, y)
       /\ Overwritten(S, T, c, off, n, D.buf, t)
  <2>1. Firsts[D.fat_entry] # 0 BY <1>1, <1>2 DEF Valid
  <2> QED BY <1>1, <1>2, <1>5, <1>7, <1>9, <1>11, <1>12, <1>13, <2>1 DEF Chunk, SeenStored
<1>15. ASSUME NEW f \in File, f # e PROVE BodyIn(G, T, R, J, f) = BodyIn(F, S, R, H, f)
  <2>1. (f \in J => f \in H) /\ (f \in H => f \in J)
    BY <1>1, <1>7, <1>9, <1>11, <1>12, <1>15 DEF Chunk, SeenStored
  <2>2. PICK k \in Nat : Walk(G, R[e], k) = c BY <1>14 DEF WritesAt
  <2>3. Elsewhere(S, T, c) BY <1>14 DEF Elsewhere, Overwritten
  <2> QED BY <1>14, <1>15, <2>1, <2>2, <2>3, BodyElsewhere
<1>16. PICK B, C : B = BodyIn(F, S, R, H, e) /\ C = BodyIn(G, T, R, J, e) OBVIOUS
<1>17. C = [i \in 0 .. MaxOffset - 1 |-> IF e \in J THEN Blank
                                         ELSE IF i \in b .. b + n - 1 THEN x.todo[i - b + 1] ELSE B[i]]
  <2>1. C = [i \in 0 .. MaxOffset - 1 |-> C[i]] BY <1>16 DEF BodyIn
  <2>2. ASSUME NEW i \in 0 .. MaxOffset - 1
        PROVE  C[i] = IF e \in J THEN Blank
                      ELSE IF i \in b .. b + n - 1 THEN x.todo[i - b + 1] ELSE B[i]
    <3>1. CASE e \in J BY <1>16, <3>1 DEF BodyIn
    <3>2. CASE e \notin J
      <4>1. WritesAt(G, R[e], c, off, b, TRUE) BY <1>13, <1>14, <3>2
      <4>2. C[i] = IF b <= i /\ i < b + n THEN D.buf[t + i - b + 1] ELSE B[i]
        <5>1. BodyStored(BodyIn(F, S, R, H, e), BodyIn(G, T, R, J, e), b, n, D.buf, t)
          BY <1>3, <1>5, <1>14, <3>2, <4>1, BodyPut
        <5> QED BY <1>16, <5>1 DEF BodyStored
      <4>3. ASSUME b <= i, i < b + n PROVE x.todo[i - b + 1] = D.buf[t + i - b + 1]
        <5>1. i - b + 1 \in 1 .. n /\ t + (i - b + 1) = t + i - b + 1 BY <1>5, <4>3
        <5> QED BY <1>7, <1>9, <5>1 DEF SeenStored
      <4>4. i \in b .. b + n - 1 <=> b <= i /\ i < b + n BY <1>5
      <4> QED BY <3>2, <4>2, <4>3, <4>4
    <3> QED BY <3>1, <3>2
  <2> QED BY <2>1, <2>2
<1>18. Bodies' = [Bodies EXCEPT ![e] = C] /\ Bodies[e] = B
  <2>1. Bodies = [f \in File |-> BodyIn(F, S, R, H, f)] BY <1>11, BodiesAre
  <2>2. Bodies' = [f \in File |-> BodyIn(G, T, R, J, f)] BY <1>10, <1>11, <1>12, NextBodiesAre
  <2> QED BY <1>15, <1>16, <2>1, <2>2
<1>19. \/ holed' = holed
       \/ Len(x.todo) > bytes_per_cluster /\ holed' = holed \cup {e}
  BY <1>1, <1>7, <1>9 DEF Chunk, SeenStored
<1>20. Descriptors' = [Descriptors EXCEPT ![d].wr = x.wr + n,
                                          ![d].todo = SubSeq(x.todo, n + 1, Len(x.todo))]
  BY <1>7, <1>8 DEF SeenStored
<1>21. Bodies' = [Bodies EXCEPT ![e] =
         [i \in 0 .. MaxOffset - 1 |-> IF e \in holed' THEN Blank
            ELSE IF i \in b .. b + n - 1 THEN x.todo[i - b + 1] ELSE @[i]]]
  BY <1>12, <1>17, <1>18
<1>22. Promise!Put(d, n)
  <2>1. PICK f, wr, todo : f = Descriptors[d].file /\ wr = Descriptors[d].wr /\ todo = Descriptors[d].todo
    OBVIOUS
  <2>2. f = e /\ wr = b /\ todo = x.todo BY <1>8, <1>9, <2>1
  <2>3. Descriptors[d] # Closed /\ todo # NoCall /\ n <= Len(todo)
    BY <1>7, <1>8, <2>2 DEF SeenStored
  <2>4. Descriptors' = [Descriptors EXCEPT ![d].wr = wr + n,
                                           ![d].todo = SubSeq(todo, n + 1, Len(todo))]
    BY <1>9, <1>20, <2>2
  <2>5. \/ holed' = holed
        \/ Len(todo) > bytes_per_cluster /\ holed' = holed \cup {f}
    BY <1>19, <2>2
  <2>6. Bodies' = [Bodies EXCEPT ![f] =
          [i \in 0 .. MaxOffset - 1 |-> IF f \in holed' THEN Blank
             ELSE IF i \in wr .. wr + n - 1 THEN todo[i - wr + 1] ELSE @[i]]]
    BY <1>21, <2>2
  <2>7. out' = <<>> /\ Sizes' = Sizes BY <1>2, <1>10
  <2> QED BY <2>1, <2>3, <2>4, <2>5, <2>6, <2>7 DEF Promise!Put
<1>23. n \in 1 .. bytes_per_cluster BY <1>3, <1>5, SizesAssumption
<1> QED BY <1>22, <1>23 DEF Promise!Next

-----------------------------------------------------------------------------
(* Reads return the bytes of the file.                                     *)

BytesOf(o, F, S, a, p, n) == \A i \in 1 .. n : o[i] = ByteIn(F, S, a, p + i - 1)

LEMMA FetchedIs ==
  ASSUME IInv, NEW e \in File, NEW p \in Nat, NEW len \in Nat, NEW n \in Nat, n = Length(e, p, len),
         NEW y \in BOOLEAN, Len(out') = n, DOMAIN out' = 1 .. n,
         y /\ Firsts[e] # 0 => BytesOf(out', fat, sector, Firsts[e], p, n)
  PROVE  Promise!Fetched(e, p, len, y)
<1>1. Sizes[e] \in Nat /\ Sizes[e] = Entry(e).size BY EntryIs DEF IInv, TypeInv
<1>2. n = IF p > Sizes[e] \/ len <= Sizes[e] - p THEN len ELSE Sizes[e] - p
  BY <1>1 DEF Length
<1>3. ASSUME y, e \notin holed, p <= Sizes[e], NEW i \in 1 .. n
      PROVE  out'[i] = Bodies[e][p + i - 1]
  <2>1. p + n <= Sizes[e] BY <1>1, <1>3, LengthIs
  <2>2. PICK k : k = p + i - 1 OBVIOUS
  <2>3. k \in Nat /\ k < Sizes[e] BY <1>1, <2>1, <2>2
  <2>4. Sizes[e] <= MaxOffset /\ Firsts[e] # 0 BY <1>1, <2>3 DEF IInv, Fits
  <2>5. k \in 0 .. MaxOffset - 1 BY <1>1, <2>3, <2>4, SizesAssumption
  <2>6. Bodies[e][k] = ByteIn(fat, sector, Firsts[e], k) BY <1>3, <2>4, <2>5, BodiesAre DEF BodyIn
  <2> QED BY <1>3, <2>2, <2>4, <2>6 DEF BytesOf
<1> QED BY <1>2, <1>3 DEF Promise!Fetched

LEMMA LoadRefines ==
  ASSUME IInv, NEW d \in Fd, NEW len \in Count, NEW offset \in PageOffset, Load(d, len, offset)
  PROVE  Promise!Next
<1>1. Idle(d) /\ UNCHANGED <<fat, sector, dir, fds, holed>> BY DEF Load
<1>2. fds[d] # Closed BY <1>1 DEF Idle
<1>3. PICK D \in Descriptor : D = fds[d] BY <1>2, Opened
<1>4. PICK e \in File : e = D.fat_entry BY <1>2, <1>3, Opened
<1>5. offset \in 0 .. MaxOffset - 1 /\ offset \in Nat /\ len \in Nat BY CountAssumption
<1>6. Entry(e).first = Firsts[e] /\ Entry(e).size \in Nat BY <1>2, <1>3, <1>4, Opened
<1>7. PICK n : n = Length(e, offset, len) OBVIOUS
<1>8. n \in Nat BY <1>5, <1>6, <1>7, LengthIs
<1>9. out' = [i \in 1 .. n |-> ByteAt(Firsts[e], offset + i - 1)]
  BY <1>3, <1>4, <1>6, <1>7 DEF Load
<1>10. Len(out') = n /\ DOMAIN out' = 1 .. n BY <1>8, <1>9
<1>11. BytesOf(out', fat, sector, Firsts[e], offset, n) BY <1>9, ByteAtIs DEF BytesOf
<1>12. Promise!Fetched(e, offset, len, TRUE)
  <2>1. PICK y \in BOOLEAN : y = TRUE OBVIOUS
  <2>2. Promise!Fetched(e, offset, len, y) BY <1>5, <1>7, <1>8, <1>10, <1>11, FetchedIs
  <2> QED BY <2>1, <2>2
<1>13. Descriptors[d].file = e BY <1>3, <1>4, DescriptorsAre, SeenFields
<1>14. Bodies' = Bodies /\ Sizes' = Sizes BY <1>1, BodiesStay
<1>15. Descriptors' = Descriptors BY <1>1 DEF Descriptors, Seen
<1>16. Promise!Load(d, len, offset)
  BY <1>1, <1>12, <1>13, <1>14, <1>15, IdleSeen DEF Promise!Load
<1> QED BY <1>5, <1>16 DEF Promise!Next

(* Where a descriptor that has not met the end of its file reads from.     *)
LEMMA ReadsFrom ==
  ASSUME NEW F, NEW N, NEW R, Roots(N, R), NEW H, NEW D \in Descriptor, Valid(F, N, R, H, D),
         D.rd_cluster # kEndOfClusterchain,
         NEW cluster, cluster = IF D.rd_cluster = 0 THEN R[D.fat_entry] ELSE D.rd_cluster
  PROVE  \/ D.rd_cluster = 0 /\ R[D.fat_entry] = 0 /\ cluster = 0 /\ D.rd_cluster_off = 0
         \/ /\ cluster \in Cluster /\ R[D.fat_entry] # 0
            /\ ReadsAt(F, R[D.fat_entry], cluster, D.rd_cluster_off, D.rd_off)
<1>1. D.rd_cluster \in Link /\ D.fat_entry \in File BY DEF Descriptor
<1>2. R[D.fat_entry] \in Cluster \cup {0} BY <1>1 DEF Roots
<1>3. CASE D.rd_cluster = 0
  <2>1. cluster = R[D.fat_entry] /\ D.rd_off = 0 /\ D.rd_cluster_off = 0 BY <1>3 DEF Valid
  <2>2. CASE R[D.fat_entry] = 0 BY <1>3, <2>1, <2>2
  <2>3. CASE R[D.fat_entry] # 0
    <3>1. cluster \in Cluster BY <1>2, <2>1, <2>3
    <3>2. ReadsAt(F, cluster, cluster, 0, 0) BY AtStart
    <3> QED BY <2>1, <2>3, <3>1, <3>2
  <2> QED BY <2>2, <2>3
<1>4. CASE D.rd_cluster # 0
  <2>1. D.rd_cluster \in Cluster /\ cluster = D.rd_cluster BY <1>1, <1>4 DEF Link, Free
  <2> QED BY <2>1 DEF Valid
<1> QED BY <1>3, <1>4

(* A chain ends behind the end of the file.                                *)
LEMMA EndIsBehind ==
  ASSUME NEW F, NEW R, NEW S, Fits(F, R, S), NEW e \in File, S[e] \in Nat,
         NEW b \in Nat, NEW off, ReadsAt(F, R[e], kEndOfClusterchain, off, b)
  PROVE  b >= S[e]
<1> SUFFICES ASSUME b < S[e] PROVE FALSE
  OBVIOUS
<1>1. PICK k \in Nat : Walk(F, R[e], k) \in Cluster /\ S[e] <= k * bytes_per_cluster + bytes_per_cluster
  BY DEF Fits
<1>2. PICK q \in Nat, r \in Sector : /\ q = b \div bytes_per_cluster /\ b = q * bytes_per_cluster + r
  BY DivIs
<1>3. PICK p \in Nat, x \in Nat, y \in Nat :
        p = bytes_per_cluster /\ x = q * bytes_per_cluster /\ y = k * bytes_per_cluster
  BY SizesAssumption, Times
<1>4. r \in Nat /\ b = x + r /\ S[e] <= y + p BY <1>1, <1>2, <1>3 DEF Sector
<1>5. q <= k
  <2>1. ASSUME k < q PROVE FALSE
    <3>1. y + p <= x BY <1>3, <2>1, RowsApart
    <3> QED BY <1>4, <3>1
  <2> QED BY <2>1
<1>6. q \in 0 .. k BY <1>5
<1>7. Walk(F, R[e], q) \in Cluster BY <1>1, <1>6, WalkStarts
<1> QED BY <1>2, <1>7, LinkFacts DEF ReadsAt

SeenReadOn(y, x, n, l) == y = [x EXCEPT !.rd = x.rd + n, !.lost = l]

AtEnd(r, l) == l = (r.rd_cluster = kEndOfClusterchain)

LEMMA ReadSeen ==
  ASSUME NEW D \in Descriptor, D.buf = NoCall, NEW F, NEW cluster, NEW n \in Nat,
         NEW r \in Descriptor, r = Reading(F, D, cluster, n),
         NEW x, x = Seen(D), NEW l, AtEnd(r, l)
  PROVE  SeenReadOn(Seen(r), x, n, l)
<1>1. PICK b, c, m : /\ b = D.rd_off + n /\ m = (D.rd_cluster_off + n) % bytes_per_cluster
                     /\ c = Walk(F, cluster, (D.rd_cluster_off + n) \div bytes_per_cluster)
  OBVIOUS
<1>2. r = [D EXCEPT !.rd_off = b, !.rd_cluster = c, !.rd_cluster_off = m] BY <1>1 DEF Reading
<1>3. /\ r.fat_entry = D.fat_entry /\ r.rd_off = b /\ r.wr_off = D.wr_off /\ r.buf = D.buf
      /\ r.total = D.total
  BY <1>2 DEF Descriptor
<1>4. PICK y : y = Seen(r) OBVIOUS
<1>5. /\ x \in SeenType /\ x.file = D.fat_entry /\ x.rd = D.rd_off /\ x.wr = D.wr_off + D.total
      /\ x.todo = NoCall
  BY SeenFields
<1>6. /\ y \in SeenType /\ y.file = D.fat_entry /\ y.rd = b /\ y.wr = D.wr_off + D.total
      /\ y.todo = NoCall /\ y.lost = l
  BY <1>3, <1>4, SeenFields DEF AtEnd
<1>7. y.rd = x.rd + n BY <1>1, <1>5, <1>6
<1>8. y = [x EXCEPT !.rd = x.rd + n, !.lost = l] BY <1>5, <1>6, <1>7 DEF SeenType
<1> QED BY <1>4, <1>8 DEF SeenReadOn

LEMMA ReadRefines ==
  ASSUME IInv, NEW d \in Fd, NEW len \in Count, Read(d, len)
  PROVE  Promise!Next
<1>1. Idle(d) /\ UNCHANGED <<fat, sector, dir, holed>> BY DEF Read
<1>2. fds[d] # Closed /\ fds[d].buf = NoCall BY <1>1 DEF Idle
<1>3. PICK D \in Descriptor : D = fds[d] BY <1>2, Opened
<1>4. PICK e \in File : e = D.fat_entry BY <1>2, <1>3, Opened
<1>5. PICK cluster : \E n \in Nat :
           /\ n = Length(D.fat_entry, D.rd_off, len)
           /\ cluster = IF D.rd_cluster = 0 THEN Firsts[D.fat_entry] ELSE D.rd_cluster
           /\ Firsts[D.fat_entry] = 0 /\ D.rd_cluster = 0 => n = 0
           /\ fds' = [fds EXCEPT ![d] = Reading(fat, D, cluster, n)]
           /\ out' = [i \in 1 .. n |-> ByteAt(cluster, D.rd_cluster_off + i - 1)]
  BY <1>3, ReadIs
<1>6. PICK n \in Nat :
           /\ n = Length(D.fat_entry, D.rd_off, len)
           /\ cluster = IF D.rd_cluster = 0 THEN Firsts[D.fat_entry] ELSE D.rd_cluster
           /\ Firsts[D.fat_entry] = 0 /\ D.rd_cluster = 0 => n = 0
           /\ fds' = [fds EXCEPT ![d] = Reading(fat, D, cluster, n)]
           /\ out' = [i \in 1 .. n |-> ByteAt(cluster, D.rd_cluster_off + i - 1)]
  BY <1>5
<1>7. PICK F, N, R, H, S : F = fat /\ N = Names /\ R = Firsts /\ H = holed /\ S = Sizes OBVIOUS
<1>8. /\ Volume(F, N, R) /\ Fits(F, R, S) /\ Valid(F, N, R, H, D) /\ TypeInv /\ Roots(N, R)
      /\ cluster = IF D.rd_cluster = 0 THEN R[D.fat_entry] ELSE D.rd_cluster
      /\ R[D.fat_entry] = 0 /\ D.rd_cluster = 0 => n = 0
  BY <1>2, <1>3, <1>6, <1>7 DEF IInv, Volume
<1>9. PICK r : r = Reading(F, D, cluster, n) OBVIOUS
<1>10. r \in Descriptor /\ fds' = [fds EXCEPT ![d] = r] BY <1>6, <1>7, <1>8, <1>9, ReadingIs
<1>11a. PICK x : x = Seen(D) OBVIOUS
<1>11b. PICK l \in BOOLEAN : l = (r.rd_cluster = kEndOfClusterchain) BY Zenon
<1>11. x = Seen(D) /\ l = (r.rd_cluster = kEndOfClusterchain) BY <1>11a, <1>11b
<1>12. Seen(r) = [x EXCEPT !.rd = x.rd + n, !.lost = l]
  <2>1. AtEnd(r, l) BY <1>11b DEF AtEnd
  <2>2. D.buf = NoCall BY <1>2, <1>3
  <2>3. SeenReadOn(Seen(r), x, n, l) BY <1>9, <1>10, <1>11a, <2>1, <2>2, ReadSeen
  <2> QED BY <2>3 DEF SeenReadOn
<1>13. Descriptors[d] = x /\ Descriptors' = [Descriptors EXCEPT ![d] = Seen(r)]
  BY <1>3, <1>8, <1>10, <1>11, DescriptorsAre, PutDescriptor
<1>14. x.file = e /\ x.rd = D.rd_off /\ x.lost = (D.rd_cluster = kEndOfClusterchain)
  BY <1>4, <1>11, SeenFields
<1>15a. PICK a : a = R[e] OBVIOUS
<1>15b. D.rd_cluster_off \in Nat /\ D.rd_off \in Nat BY DEF Descriptor
<1>15c. PICK o \in Nat, p \in Nat : o = D.rd_cluster_off /\ p = D.rd_off BY <1>15b
<1>15. a = R[e] /\ o = D.rd_cluster_off /\ p = D.rd_off BY <1>15a, <1>15c
<1>16. ASSUME ~x.lost, a # 0
       PROVE  cluster \in Cluster /\ ReadsAt(F, a, cluster, o, p)
  <2>1. D.rd_cluster # kEndOfClusterchain BY <1>14, <1>16
  <2> QED BY <1>4, <1>8, <1>15, <1>16, <2>1, ReadsFrom
<1>17. Len(out') = n /\ DOMAIN out' = 1 .. n BY <1>6
<1>18. Promise!Fetched(e, p, len, ~x.lost)
  <2>1. PICK y \in BOOLEAN : y = ~x.lost
    <3>1. PICK y \in BOOLEAN : y = (~x.lost) BY Zenon
    <3> QED BY <3>1
  <2>2. len \in Nat /\ n = Length(e, p, len) BY <1>4, <1>6, <1>15, CountAssumption
  <2>3. ASSUME y, Firsts[e] # 0 PROVE BytesOf(out', fat, sector, Firsts[e], p, n)
    <3>1. ReadsAt(F, a, cluster, o, p) BY <1>7, <1>15, <1>16, <2>1, <2>3
    <3>2. ASSUME NEW i \in 1 .. n PROVE out'[i] = ByteIn(fat, sector, Firsts[e], p + i - 1)
      <4>1. PICK j \in Nat : j = i - 1 OBVIOUS
      <4>2. out'[i] = ByteIn(F, sector, cluster, o + j)
        <5>1. out'[i] = ByteAt(cluster, o + i - 1) BY <1>6, <1>15
        <5>2. o + i - 1 = o + j BY <4>1
        <5> QED BY <1>7, <5>1, <5>2, ByteAtIs
      <4>3. ByteIn(F, sector, cluster, o + j) = ByteIn(F, sector, a, p + j)
        <5>1. PICK T, u, v : T = sector /\ u = o + j /\ v = p + j OBVIOUS
        <5>2. ByteIn(F, T, cluster, u) = ByteIn(F, T, a, v) BY <3>1, <5>1, BytesRead
        <5> QED BY <5>1, <5>2
      <4>4. p + i - 1 = p + j BY <4>1
      <4> QED BY <1>7, <1>15, <4>2, <4>3, <4>4
    <3> QED BY <3>2 DEF BytesOf
  <2>4. Promise!Fetched(e, p, len, y) BY <1>17, <2>2, <2>3, FetchedIs
  <2> QED BY <2>1, <2>4
<1>19. l => x.lost \/ p + n >= Sizes[e]
  <2> SUFFICES ASSUME l, ~x.lost PROVE p + n >= Sizes[e]
    BY Zenon
  <2>1. S[e] \in Nat BY <1>2, <1>3, <1>4, <1>7, Opened
  <2>2. D.rd_cluster # kEndOfClusterchain BY <1>14
  <2>3. PICK k, m : k = (o + n) \div bytes_per_cluster /\ m = (o + n) % bytes_per_cluster OBVIOUS
  <2>4. Walk(F, cluster, k) = kEndOfClusterchain
    <3>1. r.rd_cluster = Walk(F, cluster, k)
      <4>1. PICK c : c = Walk(F, cluster, k) OBVIOUS
      <4>2. r = [D EXCEPT !.rd_off = D.rd_off + n, !.rd_cluster = c, !.rd_cluster_off = m]
        BY <1>9, <1>15, <2>3, <4>1 DEF Reading
      <4> QED BY <4>1, <4>2 DEF Descriptor
    <3> QED BY <1>11, <3>1
  <2>5. CASE a # 0
    <3>1. ReadsAt(F, a, cluster, o, p) BY <1>16, <2>5
    <3>2. ReadsAt(F, a, Walk(F, cluster, k), m, p + n) BY <2>3, <3>1, ReadsFurther
    <3>3. PICK b \in Nat : b = p + n OBVIOUS
    <3>4. ReadsAt(F, R[e], kEndOfClusterchain, m, b) BY <1>15, <2>4, <3>2, <3>3
    <3>5. b >= S[e] BY <1>8, <2>1, <3>4, EndIsBehind
    <3> QED BY <1>7, <3>3, <3>5
  <2>6. CASE a = 0
    <3>1. S[e] = 0 BY <1>8, <1>15, <2>6 DEF Fits
    <3> QED BY <1>7, <3>1
  <2> QED BY <2>5, <2>6
<1>20. Bodies' = Bodies /\ Sizes' = Sizes BY <1>1, BodiesStay
<1>21. Descriptors' = [Descriptors EXCEPT ![d].rd = p + Len(out'), ![d].lost = l]
  BY <1>12, <1>13, <1>14, <1>15, <1>17
<1>22. Promise!Read(d, len)
  <2>1. Descriptors[d].file = e /\ Descriptors[d].rd = p /\ Descriptors[d].lost = x.lost
    BY <1>13, <1>14, <1>15
  <2>2. PICK f, z : f = Descriptors[d].file /\ z = Descriptors[d].rd + Len(out') OBVIOUS
  <2>3. f = e /\ z = p + Len(out') /\ z = p + n BY <1>17, <2>1, <2>2
  <2>4. \E lost \in BOOLEAN :
          /\ Descriptors' = [Descriptors EXCEPT ![d].rd = z, ![d].lost = lost]
          /\ lost => Descriptors[d].lost \/ z >= Sizes[f]
    BY <1>19, <1>21, <2>1, <2>3
  <2>5. Promise!Fetched(f, Descriptors[d].rd, len, ~Descriptors[d].lost) BY <1>18, <2>1, <2>3
  <2> QED BY <1>1, <1>20, <2>2, <2>4, <2>5, IdleSeen DEF Promise!Read
<1> QED BY <1>22 DEF Promise!Next

LEMMA InitRefines == Init => Promise!Init
<1> SUFFICES ASSUME Init PROVE Promise!Init OBVIOUS
<1>1. /\ dir = [c \in Cluster |-> [i \in Slot |-> NoEntry]]
      /\ fds = [d \in Fd |-> Closed] /\ holed = {} /\ out = <<>>
  BY DEF Init
<1>2. \A e \in File : Firsts[e] = 0 /\ Sizes[e] = 0
  <2>1. \A e \in File : Entry(e) = NoEntry BY <1>1 DEF Entry, File
  <2> QED BY <2>1, NoEntryType DEF Firsts, Sizes
<1>3. Bodies = [e \in File |-> [i \in 0 .. MaxOffset - 1 |-> Blank]]
  <2>1. ASSUME NEW e \in File
        PROVE  BodyIn(fat, sector, Firsts, holed, e) = [i \in 0 .. MaxOffset - 1 |-> Blank]
    BY <1>2 DEF BodyIn
  <2> QED BY <2>1, BodiesAre
<1>4. Sizes = [e \in File |-> 0] BY <1>2 DEF Sizes
<1>5. Descriptors = [d \in Fd |-> Closed]
  <2>1. \A d \in Fd : Seen(fds[d]) = Closed BY <1>1 DEF Seen
  <2> QED BY <2>1 DEF Descriptors
<1> QED BY <1>1, <1>3, <1>4, <1>5 DEF Promise!Init

LEMMA NextRefines == IInv /\ [Next]_vars => [Promise!Next]_(Promise!vars)
<1> SUFFICES ASSUME IInv, [Next]_vars PROVE [Promise!Next]_(Promise!vars) OBVIOUS
<1>1. ASSUME NEW d \in Fd, NEW path \in Path, OpenFile(d, path) PROVE Promise!Next
  BY <1>1, OpenRefines
<1>2. ASSUME NEW d \in Fd, Close(d) PROVE Promise!Next BY <1>2, CloseRefines
<1>3. ASSUME NEW d \in Fd, NEW buf \in Buffer, BeginWrite(d, buf) PROVE Promise!Next
  BY <1>3, BeginWriteRefines
<1>4. ASSUME NEW d \in Fd, WriteChunk(d) PROVE Promise!Next BY <1>4, WriteChunkRefines
<1>5. ASSUME NEW d \in Fd, EndWrite(d) PROVE Promise!Next BY <1>5, EndWriteRefines
<1>6. ASSUME NEW d \in Fd, NEW len \in Count, Read(d, len) PROVE Promise!Next
  BY <1>6, ReadRefines
<1>7. ASSUME NEW d \in Fd, NEW len \in Count, NEW offset \in PageOffset, Load(d, len, offset)
      PROVE  Promise!Next
  BY <1>7, LoadRefines
<1>8. ASSUME UNCHANGED vars PROVE UNCHANGED Promise!vars
  <2>1. UNCHANGED <<fat, sector, dir, fds, out, holed>> BY <1>8 DEF vars
  <2>2. Bodies' = Bodies /\ Sizes' = Sizes BY <2>1, BodiesStay
  <2>3. Descriptors' = Descriptors BY <2>1 DEF Descriptors, Seen
  <2> QED BY <2>1, <2>2, <2>3 DEF Promise!vars
<1>9. CASE Next
  <2>1. Promise!Next BY <1>1, <1>2, <1>3, <1>4, <1>5, <1>6, <1>7, <1>9 DEF Next
  <2> QED BY <2>1
<1>10. CASE UNCHANGED vars BY <1>8, <1>10
<1> QED BY <1>9, <1>10

-----------------------------------------------------------------------------

(* Whatever tasks open, write and close, and wherever their writes are     *)
(* interrupted, no cluster belongs to two files or twice to one, and none  *)
(* is lost: CreateFile, AllocateClusterChain and ExtendCluster keep the    *)
(* chains apart, on a volume of any size.                                  *)
THEOREM ClustersStayOwned == Spec => []ClustersOwnedOnce
<1>1. IInv => ClustersOwnedOnce BY OwnedOnce DEF IInv
<1> QED BY Invariant, <1>1, PTL

(* FindFile finds each file made for an 8.3 name under that name and finds *)
(* nothing else, in directories of any number of clusters and with entries *)
(* made for whatever other names, and a descriptor that is open refers to  *)
(* an entry in use.                                                        *)
THEOREM FilesStayFound == Spec => []FilesAreFound
<1>1. IInv => FilesAreFound BY Found
<1> QED BY Invariant, <1>1, PTL

(* A file of clusters behaves as a row of bytes: whatever the calls of     *)
(* several descriptors do, chunk by chunk, and however clusters are found  *)
(* for them, Write stores what it was given where it said and Read and     *)
(* LoadFile return what is stored there, with the exceptions that Files    *)
(* states.                                                                 *)
THEOREM VolumesKeepFiles == Spec => ImplementsFiles
<1> QED BY Invariant, InitRefines, NextRefines, PTL DEF Spec, ImplementsFiles, Promise!Spec
=============================================================================
