--------------------------- MODULE RegistryProofs ----------------------------
(***************************************************************************)
(* What the commands ask of versions.go and runtime.go, proved for every   *)
(* value of the constants.                                                 *)
(*                                                                         *)
(*   - listGitHubReleases implements Listing, for every page size, number  *)
(*     of pages and number of releases.  The argument goes through the     *)
(*     places of the releases in GitHub's list: they grow as releases are  *)
(*     published, every place up to the last is taken, and a page is an    *)
(*     interval of places.                                                 *)
(*   - latestCRIToolsForK8s, which chooses from such a list for one        *)
(*     architecture after another, chooses the best release that was there *)
(*     all the time: none of those comes later in the list than an older   *)
(*     release.                                                            *)
(*   - semverTuple's strings compare as the versions do, for all versions  *)
(*     whose numbers have at most five digits, whichever character "%05s"  *)
(*     pads with; and so fetchK8sVersions, for every such schedule, lists  *)
(*     each version once and newest first: the number of versions newer    *)
(*     than one is its place, and every place is taken.                    *)
(*   - ValidateCombination, for lists of every length, accepts no rivals   *)
(*     and refuses none of the README's combinations.                      *)
(***************************************************************************)
EXTENDS CRITools, Versions, Combination, FiniteSetTheorems, WellFoundedInduction,
        TLAPS

-----------------------------------------------------------------------------
(* Sequences in falling order *)

Falling(s) == \A i, k \in DOMAIN s : i < k => s[i] > s[k]

\* The induction over natural numbers, from the well-foundedness of finite sets.
LEMMA LeastNat ==
    ASSUME NEW T, T \subseteq Nat, T # {}
    PROVE  \E m \in T : \A k \in T : m <= k
<1> DEFINE F == { 1 .. n : n \in T }
<1>1. F \subseteq FiniteSubsetsOf(Nat)
  BY FS_Interval DEF FiniteSubsetsOf
<1>2. PICK x \in F : \A y \in F : << y, x >> \notin StrictSubsetOrdering(Nat)
  <2>1. F # {}
    OBVIOUS
  <2> HIDE DEF F
  <2> QED
    BY <1>1, <2>1, WFMin, FS_StrictSubsetOrderingWellFounded
<1>3. PICK m \in T : x = 1 .. m
  OBVIOUS
<1>4. ASSUME NEW k \in T
      PROVE  m <= k
  <2>1. << 1 .. k, 1 .. m >> \notin StrictSubsetOrdering(Nat)
    BY <1>2, <1>3
  <2>2. ~ (1 .. k \subseteq 1 .. m /\ 1 .. k # 1 .. m)
    BY <2>1 DEF StrictSubsetOrdering
  <2>3. CASE k < m
    <3>1. m \in 1 .. m /\ m \notin 1 .. k
      BY <2>3
    <3> QED
      BY <2>2, <2>3, <3>1
  <2> QED
    BY <2>3
<1> QED
  BY <1>4

\* Every finite set of numbers can be put into falling order.
LEMMA FallingExists ==
    ASSUME NEW n \in Nat
    PROVE  \A S \in SUBSET (1 .. n) : \E s \in SetToSeqs(S) : Falling(s)
<1> DEFINE Bad == { k \in Nat : \E S \in SUBSET (1 .. k) :
                                    \A s \in SetToSeqs(S) : ~ Falling(s) }
<1>1. SUFFICES Bad = {}
  OBVIOUS
<1>2. SUFFICES ASSUME Bad # {}
               PROVE  FALSE
  OBVIOUS
<1>3. PICK k \in Bad : \A m \in Bad : k <= m
  <2>1. Bad \subseteq Nat
    OBVIOUS
  <2> HIDE DEF Bad
  <2> QED
    BY <1>2, <2>1, LeastNat
<1>4. PICK S \in SUBSET (1 .. k) : \A s \in SetToSeqs(S) : ~ Falling(s)
  OBVIOUS
<1>5. k \in Nat /\ IsFiniteSet(S) /\ Cardinality(S) \in Nat
  <2>1. k \in Nat
    OBVIOUS
  <2>2. IsFiniteSet(1 .. k)
    BY <2>1, FS_Interval
  <2> QED
    BY <2>1, <2>2, FS_Subset, FS_CardinalityType
<1>6. CASE k = 0
  <2>1. S = {}
    BY <1>6
  <2>5. Cardinality(S) = 0
    BY <2>1, FS_EmptySet
  <2> DEFINE none == [i \in 1 .. 0 |-> 0]
  <2>2. none \in SetToSeqs(S)
    <3>1. none \in [1 .. Cardinality(S) -> S]
      BY <2>5
    <3>2. \A i \in 1 .. Cardinality(S) : FALSE
      BY <2>5
    <3> HIDE DEF none
    <3> QED
      BY <3>1, <3>2 DEF SetToSeqs
  <2>3. Falling(none)
    BY DEF Falling
  <2> QED
    BY <1>4, <2>2, <2>3
<1>7. CASE k > 0
  <2>1. k - 1 \in Nat /\ k - 1 \notin Bad
    BY <1>3, <1>5, <1>7
  <2>2. \A R \in SUBSET (1 .. k - 1) : \E s \in SetToSeqs(R) : Falling(s)
    BY <2>1
  <2>3. CASE k \notin S
    <3>1. S \in SUBSET (1 .. k - 1)
      BY <1>5, <2>3
    <3> QED
      BY <1>4, <2>2, <3>1
  <2>4. CASE k \in S
    <3> DEFINE R == S \ {k}
    <3>1. R \in SUBSET (1 .. k - 1)
      BY <1>5
    <3>2. PICK r \in SetToSeqs(R) : Falling(r)
      BY <2>2, <3>1
    <3>3. Cardinality(R) = Cardinality(S) - 1 /\ Cardinality(R) \in Nat
      BY <1>5, <2>4, FS_RemoveElement, FS_CardinalityType
    <3>4. /\ r \in [1 .. Cardinality(R) -> R]
          /\ \A i, j \in 1 .. Cardinality(R) : i # j => r[i] # r[j]
      BY <3>2 DEF SetToSeqs
    <3> DEFINE s == [i \in 1 .. Cardinality(S) |-> IF i = 1 THEN k ELSE r[i - 1]]
    <3> HIDE DEF R
    <3>5. \A i \in 1 .. Cardinality(S) : i # 1 => i - 1 \in 1 .. Cardinality(R)
      BY <1>5, <3>3
    <3>6. \A i \in 1 .. Cardinality(R) : r[i] \in S /\ r[i] < k /\ r[i] \in Nat
      <4>1. \A x \in R : x \in S /\ x < k /\ x \in Nat
        BY <1>5, <3>1 DEF R
      <4> QED
        BY <3>4, <4>1
    <3>7. s \in [1 .. Cardinality(S) -> S]
      BY <2>4, <3>5, <3>6
    <3>8. \A i, j \in 1 .. Cardinality(S) : i < j => s[i] > s[j]
      <4> SUFFICES ASSUME NEW i \in 1 .. Cardinality(S), NEW j \in 1 .. Cardinality(S),
                          i < j
                   PROVE  s[i] > s[j]
        OBVIOUS
      <4>1. j # 1 /\ s[j] = r[j - 1] /\ j - 1 \in 1 .. Cardinality(R)
        BY <1>5, <3>5
      <4>2. CASE i = 1
        BY <1>5, <3>6, <4>1, <4>2
      <4>3. CASE i # 1
        <5>1. s[i] = r[i - 1] /\ i - 1 \in 1 .. Cardinality(R) /\ i - 1 < j - 1
          BY <1>5, <3>5, <4>3
        <5> QED
          BY <3>2, <3>4, <4>1, <5>1 DEF Falling
      <4> QED
        BY <4>2, <4>3
    <3>9. \A i, j \in 1 .. Cardinality(S) : i # j => s[i] # s[j]
      <4>1. S \subseteq Nat
        BY <1>5
      <4>2. \A i \in 1 .. Cardinality(S) : s[i] \in Nat
        BY <3>7, <4>1
      <4> HIDE DEF s
      <4> QED
        BY <1>5, <3>8, <4>2
    <3>10. s \in SetToSeqs(S) /\ Falling(s)
      <4> HIDE DEF s
      <4> QED
        BY <3>7, <3>8, <3>9 DEF SetToSeqs, Falling
    <3> QED
      BY <1>4, <3>10
  <2> QED
    BY <2>3, <2>4
<1> QED
  BY <1>5, <1>6, <1>7

LEMMA PositiveNumbers ==
    ASSUME NEW n \in Nat, NEW S, S \subseteq 1 .. n
    PROVE  /\ S \subseteq Nat /\ IsFiniteSet(S)
           /\ Cardinality(S) \in Nat /\ Cardinality(S) <= n
<1>1. IsFiniteSet(1 .. n) /\ Cardinality(1 .. n) = n
  BY FS_Interval
<1>2. IsFiniteSet(S) /\ Cardinality(S) <= n
  BY <1>1, FS_Subset
<1>3. Cardinality(S) \in Nat
  BY <1>2, FS_CardinalityType
<1> QED
  BY <1>2, <1>3

\* A sequence of all members of a set, each once.
LEMMA SetToSeqsFacts ==
    ASSUME NEW S, IsFiniteSet(S), NEW s \in SetToSeqs(S)
    PROVE  s \in Seq(S) /\ Len(s) = Cardinality(S) /\ ToSet(s) = S
<1> DEFINE C == Cardinality(S)
<1>1. C \in Nat
  BY FS_CardinalityType
<1>2. s \in [1 .. C -> S] /\ \A i, k \in 1 .. C : i # k => s[i] # s[k]
  BY DEF SetToSeqs
<1>3. s \in Injection(1 .. C, S)
  BY <1>2 DEF Injection, IsInjective
<1>4. IsFiniteSet(1 .. C) /\ Cardinality(1 .. C) = C
  BY <1>1, FS_Interval
<1>5. s \in Surjection(1 .. C, S)
  BY <1>1, <1>3, <1>4, FS_Injection
<1>6. \A x \in S : \E i \in 1 .. C : s[i] = x
  BY <1>5 DEF Surjection
<1>7. ToSet(s) = S
  BY <1>2, <1>6 DEF ToSet
<1>8. s \in Seq(S) /\ Len(s) = C
  BY <1>1, <1>2
<1> QED
  BY <1>7, <1>8

\* What NewestFirst returns.
LEMMA NewestFirstFacts ==
    ASSUME NEW n \in Nat, NEW S, S \subseteq 1 .. n
    PROVE  /\ NewestFirst(S) \in Seq(S)
           /\ Len(NewestFirst(S)) = Cardinality(S)
           /\ ToSet(NewestFirst(S)) = S
           /\ Falling(NewestFirst(S))
<1> DEFINE s == NewestFirst(S)
<1>1. IsFiniteSet(S)
  BY PositiveNumbers
<1>2. s \in SetToSeqs(S) /\ Falling(s)
  <2>1. \E q \in SetToSeqs(S) : \A i, k \in DOMAIN q : i < k => q[i] > q[k]
    BY FallingExists DEF Falling
  <2> QED
    BY <2>1 DEF NewestFirst, Falling
<1> HIDE DEF s
<1>3. s \in Seq(S) /\ Len(s) = Cardinality(S) /\ ToSet(s) = S
  BY <1>1, <1>2, SetToSeqsFacts
<1> QED
  BY <1>2, <1>3 DEF s

\* There is one such sequence.
LEMMA NewestFirstIs ==
    ASSUME NEW n \in Nat, NEW S, S \subseteq 1 .. n,
           NEW s \in Seq(S), Falling(s), ToSet(s) = S
    PROVE  s = NewestFirst(S)
<1> DEFINE t == NewestFirst(S)
<1>1. /\ t \in Seq(S) /\ Len(t) = Cardinality(S) /\ ToSet(t) = S /\ Falling(t)
      /\ S \subseteq Nat /\ IsFiniteSet(S) /\ Cardinality(S) \in Nat
  BY NewestFirstFacts, PositiveNumbers
<1> HIDE DEF t
<1>2. /\ Len(s) \in Nat /\ DOMAIN s = 1 .. Len(s) /\ s \in [1 .. Len(s) -> S]
      /\ \A i \in 1 .. Len(s) : s[i] \in S
      /\ DOMAIN t = 1 .. Len(t) /\ \A i \in 1 .. Len(t) : t[i] \in S
  BY <1>1
<1>3. Len(s) = Len(t)
  <2>1. \A i, k \in 1 .. Len(s) : i # k => s[i] # s[k]
    <3>1. \A i, k \in 1 .. Len(s) : i < k => s[i] > s[k]
      BY <1>2 DEF Falling
    <3>2. \A i \in 1 .. Len(s) : s[i] \in Nat
      BY <1>1, <1>2
    <3> QED
      BY <1>2, <3>1, <3>2
  <2>2. s \in Injection(1 .. Len(s), S)
    BY <1>2, <2>1 DEF Injection, IsInjective
  <2>3. s \in Surjection(1 .. Len(s), S)
    BY <1>2 DEF Surjection, ToSet
  <2>4. IsFiniteSet(1 .. Len(s)) /\ Cardinality(1 .. Len(s)) = Len(s)
    <3>1. Len(s) \in Nat
      BY <1>2
    <3> QED
      BY <3>1, FS_Interval
  <2> QED
    BY <1>1, <2>2, <2>3, <2>4, FS_Surjection
<1>4. ASSUME NEW i \in 1 .. Len(s), s[i] # t[i],
             \A k \in 1 .. Len(s) : k < i => s[k] = t[k]
      PROVE  FALSE
  <2>1. /\ s[i] \in Nat /\ t[i] \in Nat /\ i \in Nat /\ i \in 1 .. Len(t)
        /\ s[i] \in ToSet(t) /\ t[i] \in ToSet(s)
    <3>1. i \in 1 .. Len(t) /\ i \in Nat
      BY <1>2, <1>3
    <3>2. s[i] \in S /\ t[i] \in S
      BY <1>2, <3>1
    <3> QED
      BY <1>1, <3>1, <3>2
  <2>2. PICK k \in 1 .. Len(t) : t[k] = s[i]
    BY <1>2, <2>1 DEF ToSet
  <2>3. PICK m \in 1 .. Len(s) : s[m] = t[i]
    BY <1>2, <2>1 DEF ToSet
  <2>4. \A a, b \in 1 .. Len(s) : a < b => s[a] > s[b]
    BY <1>2 DEF Falling
  <2>5. \A a, b \in 1 .. Len(t) : a < b => t[a] > t[b]
    BY <1>1, <1>2 DEF Falling
  <2>6. k > i
    <3>1. k < i => s[k] = s[i] /\ k \in 1 .. Len(s)
      BY <1>3, <1>4, <2>2
    <3> QED
      BY <1>4, <2>1, <2>2, <2>4, <3>1
  <2>7. m > i
    <3>1. m < i => t[m] = t[i] /\ m \in 1 .. Len(t)
      BY <1>3, <1>4, <2>3
    <3> QED
      BY <1>4, <2>1, <2>3, <2>5, <3>1
  <2>8. t[i] > s[i]
    BY <2>1, <2>2, <2>5, <2>6
  <2>9. s[i] > t[i]
    BY <2>1, <2>3, <2>4, <2>7
  <2> QED
    BY <2>1, <2>8, <2>9
<1>5. \A i \in 1 .. Len(s) : s[i] = t[i]
  <2> DEFINE D == { i \in 1 .. Len(s) : s[i] # t[i] }
  <2>1. D \subseteq Nat
    OBVIOUS
  <2>2. CASE D = {}
    BY <2>2
  <2>3. CASE D # {}
    <3>1. PICK i \in D : \A k \in D : i <= k
      <4> HIDE DEF D
      <4> QED
        BY <2>1, <2>3, LeastNat
    <3>2. \A k \in 1 .. Len(s) : k < i => s[k] = t[k]
      BY <3>1
    <3> QED
      BY <1>4, <3>1, <3>2
  <2> QED
    BY <2>2, <2>3
<1>6. s = t
  BY <1>1, <1>2, <1>3, <1>5
<1> QED
  BY <1>6 DEF t

\* Newer ones before older ones.
LEMMA NewestFirstConcat ==
    ASSUME NEW n \in Nat, NEW A, A \subseteq 1 .. n, NEW B, B \subseteq 1 .. n,
           \A a \in A : \A b \in B : a > b
    PROVE  NewestFirst(A) \o NewestFirst(B) = NewestFirst(A \cup B)
<1> DEFINE a == NewestFirst(A)
           b == NewestFirst(B)
           s == a \o b
<1>1. /\ a \in Seq(A) /\ ToSet(a) = A /\ Falling(a)
      /\ b \in Seq(B) /\ ToSet(b) = B /\ Falling(b)
      /\ A \subseteq Nat /\ B \subseteq Nat
  BY NewestFirstFacts, PositiveNumbers
<1> HIDE DEF a, b
<1>2. /\ Len(a) \in Nat /\ Len(b) \in Nat
      /\ DOMAIN a = 1 .. Len(a) /\ DOMAIN b = 1 .. Len(b)
      /\ \A i \in 1 .. Len(a) : a[i] \in A
      /\ \A i \in 1 .. Len(b) : b[i] \in B
  BY <1>1
<1>3. /\ s \in Seq(A \cup B) /\ Len(s) = Len(a) + Len(b)
      /\ DOMAIN s = 1 .. Len(a) + Len(b)
      /\ \A i \in 1 .. Len(a) + Len(b) :
             s[i] = IF i <= Len(a) THEN a[i] ELSE b[i - Len(a)]
  <2>1. a \in Seq(A \cup B) /\ b \in Seq(A \cup B)
    BY <1>1
  <2> QED
    BY <1>2, <2>1
<1> HIDE DEF s
<1>4. \A i \in 1 .. Len(a) + Len(b) :
          \/ i \in 1 .. Len(a) /\ s[i] = a[i]
          \/ i > Len(a) /\ i - Len(a) \in 1 .. Len(b) /\ s[i] = b[i - Len(a)]
  BY <1>2, <1>3
<1>5. ToSet(s) = A \cup B
  <2>1. ToSet(s) \subseteq A \cup B
    BY <1>2, <1>3, <1>4 DEF ToSet
  <2>2. A \subseteq ToSet(s)
    <3> SUFFICES ASSUME NEW x \in A
                 PROVE  x \in ToSet(s)
      OBVIOUS
    <3>1. PICK i \in 1 .. Len(a) : a[i] = x
      BY <1>1, <1>2 DEF ToSet
    <3>2. i \in DOMAIN s /\ s[i] = x
      BY <1>2, <1>3, <3>1
    <3> QED
      BY <3>2 DEF ToSet
  <2>3. B \subseteq ToSet(s)
    <3> SUFFICES ASSUME NEW x \in B
                 PROVE  x \in ToSet(s)
      OBVIOUS
    <3>1. PICK i \in 1 .. Len(b) : b[i] = x
      BY <1>1, <1>2 DEF ToSet
    <3>2. i + Len(a) \in DOMAIN s /\ s[i + Len(a)] = x
      BY <1>2, <1>3, <3>1
    <3> QED
      BY <3>2 DEF ToSet
  <2> QED
    BY <2>1, <2>2, <2>3
<1>6. Falling(s)
  <2> SUFFICES ASSUME NEW i \in 1 .. Len(a) + Len(b), NEW k \in 1 .. Len(a) + Len(b),
                      i < k
               PROVE  s[i] > s[k]
    BY <1>3 DEF Falling
  <2>1. CASE k <= Len(a)
    <3>1. i \in 1 .. Len(a) /\ k \in 1 .. Len(a) /\ s[i] = a[i] /\ s[k] = a[k]
      BY <1>2, <1>4, <2>1
    <3> QED
      BY <1>1, <1>2, <3>1 DEF Falling
  <2>2. CASE i > Len(a)
    <3>1. /\ i - Len(a) \in 1 .. Len(b) /\ k - Len(a) \in 1 .. Len(b)
          /\ s[i] = b[i - Len(a)] /\ s[k] = b[k - Len(a)] /\ i - Len(a) < k - Len(a)
      BY <1>2, <1>4, <2>2
    <3> QED
      BY <1>1, <1>2, <3>1 DEF Falling
  <2>3. CASE i <= Len(a) /\ k > Len(a)
    <3>1. s[i] \in A /\ s[k] \in B
      BY <1>2, <1>4, <2>3
    <3> QED
      BY <3>1
  <2> QED
    BY <1>2, <2>1, <2>2, <2>3
<1>7. A \cup B \subseteq 1 .. n
  OBVIOUS
<1>8. s = NewestFirst(A \cup B)
  BY <1>3, <1>5, <1>6, <1>7, NewestFirstIs
<1> QED
  BY <1>8 DEF s, a, b

-----------------------------------------------------------------------------
(* The places of releases in GitHub's list *)

UpstreamType == latest \in Nat /\ upstream \subseteq 1 .. latest

LEMMA RankFacts ==
    ASSUME UpstreamType
    PROVE  /\ Cardinality(upstream) \in Nat
           /\ \A x \in upstream : /\ x \in Nat
                                  /\ Rank(x) \in 1 .. Cardinality(upstream)
                                  /\ Rank(x) <= latest - x + 1
           /\ \A x, y \in upstream : x < y => Rank(y) < Rank(x)
<1> USE DEF UpstreamType
<1>1. upstream \subseteq Nat /\ IsFiniteSet(upstream) /\ Cardinality(upstream) \in Nat
  BY PositiveNumbers
<1> DEFINE From(x) == { y \in upstream : y >= x }
<1>2. \A x : /\ From(x) \subseteq upstream /\ IsFiniteSet(From(x))
             /\ Cardinality(From(x)) \in Nat
             /\ Cardinality(From(x)) <= Cardinality(upstream)
  <2> SUFFICES ASSUME NEW x
               PROVE  /\ From(x) \subseteq upstream /\ IsFiniteSet(From(x))
                      /\ Cardinality(From(x)) \in Nat
                      /\ Cardinality(From(x)) <= Cardinality(upstream)
    OBVIOUS
  <2>1. From(x) \subseteq upstream
    OBVIOUS
  <2> HIDE DEF From
  <2>2. IsFiniteSet(From(x)) /\ Cardinality(From(x)) <= Cardinality(upstream)
    BY <1>1, <2>1, FS_Subset
  <2> QED
    BY <2>1, <2>2, FS_CardinalityType
<1>3. \A x : Rank(x) = Cardinality(From(x))
  BY DEF Rank
<1>4. ASSUME NEW x \in upstream
      PROVE  /\ x \in Nat
             /\ Rank(x) \in 1 .. Cardinality(upstream)
             /\ Rank(x) <= latest - x + 1
  <2>1. x \in From(x) /\ x \in Nat /\ x <= latest
    BY <1>1
  <2>2. Cardinality(From(x)) # 0
    <3> HIDE DEF From
    <3> QED
      BY <1>2, <2>1, FS_EmptySet
  <2>3. Cardinality(From(x)) <= latest - x + 1
    <3>1. From(x) \subseteq x .. latest
      <4> SUFFICES ASSUME NEW y \in upstream, y >= x
                   PROVE  y \in x .. latest
        OBVIOUS
      <4>1. y \in Int /\ y <= latest /\ x \in Int /\ latest \in Int
        OBVIOUS
      <4> QED
        BY <4>1
    <3>2. /\ IsFiniteSet(x .. latest)
          /\ Cardinality(x .. latest) = latest - x + 1
      BY <2>1, FS_Interval
    <3> HIDE DEF From
    <3> QED
      BY <3>1, <3>2, FS_Subset
  <2> HIDE DEF From
  <2> QED
    BY <1>1, <1>2, <1>3, <2>1, <2>2, <2>3
<1>5. ASSUME NEW x \in upstream, NEW y \in upstream, x < y
      PROVE  Rank(y) < Rank(x)
  <2>1. /\ x \in Nat /\ y \in Nat
        /\ \A z \in upstream : z \in Nat
    BY <1>1
  <2>4. x \in From(x) /\ x \notin From(y)
    BY <1>5, <2>1
  <2>5. From(y) \subseteq From(x)
    <3> SUFFICES ASSUME NEW z \in upstream, z >= y
                 PROVE  z >= x
      OBVIOUS
    <3> QED
      BY <1>5, <2>1
  <2> HIDE DEF From
  <2>2. Cardinality(From(y)) <= Cardinality(From(x))
    BY <1>2, <2>5, FS_Subset
  <2>3. Cardinality(From(y)) # Cardinality(From(x))
    BY <1>2, <2>4, <2>5, FS_Subset
  <2> QED
    BY <1>2, <1>3, <2>2, <2>3
<1> QED
  BY <1>1, <1>4, <1>5

\* Every place up to the last is taken.
LEMMA RankTaken ==
    ASSUME UpstreamType, NEW x \in upstream, NEW k \in Nat \ {0}, k <= Rank(x)
    PROVE  \E y \in upstream : Rank(y) = k
<1> DEFINE N == Cardinality(upstream)
           f == [y \in upstream |-> Rank(y)]
<1>1. /\ N \in Nat
      /\ \A y \in upstream : y \in Nat /\ Rank(y) \in 1 .. N
      /\ \A y, z \in upstream : y < z => Rank(z) < Rank(y)
  BY RankFacts
<1>2. IsFiniteSet(1 .. N) /\ Cardinality(1 .. N) = N
  BY <1>1, FS_Interval
<1>3. IsFiniteSet(upstream)
  BY PositiveNumbers DEF UpstreamType
<1>4. f \in [upstream -> 1 .. N]
  BY <1>1
<1>5. \A y, z \in upstream : Rank(y) = Rank(z) => y = z
  <2> SUFFICES ASSUME NEW y \in upstream, NEW z \in upstream, y # z
               PROVE  Rank(y) # Rank(z)
    OBVIOUS
  <2>1. y < z \/ z < y
    BY <1>1
  <2> QED
    BY <1>1, <2>1
<1>6. IsInjective(f)
  BY <1>4, <1>5 DEF IsInjective
<1> HIDE DEF N
<1>7. f \in Surjection(upstream, 1 .. N)
  <2> HIDE DEF f
  <2>1. f \in Injection(upstream, 1 .. N)
    BY <1>4, <1>6 DEF Injection
  <2> QED
    BY <1>2, <2>1, FS_Injection DEF N
<1>8. k \in 1 .. N
  BY <1>1 DEF N
<1>9. \E y \in upstream : f[y] = k
  <2> HIDE DEF f
  <2> QED
    BY <1>7, <1>8 DEF Surjection
<1> QED
  BY <1>9

\* New releases move the others down.
LEMMA RankGrows ==
    ASSUME UpstreamType, UpstreamType', upstream \subseteq upstream',
           NEW x \in upstream
    PROVE  Rank(x) <= Rank(x)'
<1> DEFINE old == { y \in upstream : y >= x }
           new == { y \in upstream' : y >= x }
<1>1. IsFiniteSet(upstream')
  BY PositiveNumbers DEF UpstreamType
<1>2. old \subseteq new /\ new \subseteq upstream'
  OBVIOUS
<1>3. Rank(x) = Cardinality(old) /\ Rank(x)' = Cardinality(new)
  BY DEF Rank
<1> HIDE DEF old, new
<1>4. IsFiniteSet(new)
  BY <1>1, <1>2, FS_Subset
<1> QED
  BY <1>2, <1>3, <1>4, FS_Subset

-----------------------------------------------------------------------------
(* Pages *)

LEMMA PageFacts ==
    ASSUME UpstreamType, NEW n \in Nat \ {0}
    PROVE  /\ Page(n) \subseteq upstream
           /\ IsFiniteSet(Page(n)) /\ Cardinality(Page(n)) <= PerPage
<1> DEFINE from == PerPage * (n - 1)
           to == PerPage * n
<1>1. from \in Nat /\ to \in Nat /\ to = from + PerPage
  BY ListingAssumption
<1>2. Page(n) = { x \in upstream : from < Rank(x) /\ Rank(x) <= to }
  BY DEF Page
<1> HIDE DEF from, to
<1>3. /\ \A x \in upstream : x \in Nat /\ Rank(x) \in Nat
      /\ \A x, y \in upstream : x < y => Rank(y) < Rank(x)
  BY RankFacts
<1> DEFINE f == [x \in Page(n) |-> Rank(x)]
<1>4. f \in [Page(n) -> from + 1 .. to]
  BY <1>1, <1>2, <1>3
<1>5. \A y, z \in Page(n) : f[y] = f[z] => y = z
  <2> SUFFICES ASSUME NEW y \in Page(n), NEW z \in Page(n), y # z
               PROVE  Rank(y) # Rank(z)
    OBVIOUS
  <2>1. y < z \/ z < y
    BY <1>2, <1>3
  <2> QED
    BY <1>2, <1>3, <2>1
<1> HIDE DEF f
<1>6. f \in Injection(Page(n), from + 1 .. to)
  BY <1>4, <1>5 DEF Injection, IsInjective
<1>7. IsFiniteSet(from + 1 .. to) /\ Cardinality(from + 1 .. to) = PerPage
  BY <1>1, FS_Interval, ListingAssumption
<1> QED
  BY <1>2, <1>6, <1>7, FS_Injection

\* The page the client asks for next begins after what it has asked for.
Got == PerPage * (page - 1)

LEMMA GotFacts ==
    ASSUME page \in Nat \ {0}
    PROVE  /\ Got \in Nat /\ PerPage * page = Got + PerPage
           /\ page > 1 => Got >= PerPage
           /\ page <= MaxPages => PerPage * page <= Cap
           /\ page = MaxPages => PerPage * page = Cap
           /\ Page(page) = { x \in upstream : Got < Rank(x) /\ Rank(x) <= Got + PerPage }
<1>1. PICK n \in Nat : page = n + 1
  <2>1. page - 1 \in Nat /\ page = (page - 1) + 1
    OBVIOUS
  <2> QED
    BY <2>1
<1>2. PerPage * (page - 1) = PerPage * n /\ PerPage * page = PerPage * n + PerPage
      /\ PerPage * n \in Nat
  BY <1>1, ListingAssumption
<1>3. n > 0 => PerPage * n >= PerPage
  BY ListingAssumption
<1>4. page <= MaxPages => PerPage * page <= PerPage * MaxPages
  BY ListingAssumption
<1> QED
  BY <1>1, <1>2, <1>3, <1>4, ListingAssumption DEF Got, Cap, Page

-----------------------------------------------------------------------------
(* The invariant of the loop *)

ListingType ==
    /\ UpstreamType
    /\ AtStart <= latest
    /\ final \subseteq upstream /\ always \subseteq final /\ final \subseteq sometime
    /\ sometime \subseteq 1 .. latest
    /\ edits \subseteq {"promoted", "withdrawn"}
    /\ edits = {} => \A x \in final : x <= AtStart => x \in always

ClientType ==
    /\ pc \in {"page", "done", "failed"}
    /\ page \in 1 .. MaxPages + 1
    /\ pc = "page" => page <= MaxPages
    /\ allTags \in Seq(sometime)
    /\ Len(allTags) <= Got

Missed ==
    "withdrawn" \notin edits =>
        \A x \in always : Rank(x) <= Got => x \in ToSet(allTags)

Exact ==
    edits = {} /\ latest = AtStart =>
        allTags = NewestFirst({ x \in final : Rank(x) <= Got })

\* What is listed leaves no gap among the releases that were there all the time.
NoGap ==
    edits = {} =>
        \A x \in always, y \in ToSet(allTags) : x >= y => x \in ToSet(allTags)

NewestFirstUnlessAgain ==
    edits = {} /\ latest - AtStart <= PerPage =>
        \A i \in 2 .. Len(allTags) :
            \/ \E k \in 1 .. i - 1 : allTags[k] = allTags[i]
            \/ \A k \in 1 .. i - 1 : allTags[k] > allTags[i]

SoFar == Missed /\ Exact /\ NoGap /\ NewestFirstUnlessAgain

ListInv == ListingType /\ ClientType /\ (pc = "page" => SoFar)

\* Nothing has been asked for.
LEMMA NothingYet == ListingType /\ page = 1 /\ allTags = << >> => SoFar
<1> SUFFICES ASSUME ListingType, page = 1, allTags = << >>
             PROVE  SoFar
  OBVIOUS
<1>1. Got = 0
  BY ListingAssumption DEF Got
<1>2. \A x \in upstream : Rank(x) \in Nat /\ Rank(x) > 0
  BY RankFacts DEF ListingType
<1>3. Missed
  BY <1>1, <1>2 DEF Missed, ListingType
<1>4. Exact
  <2>1. { x \in final : Rank(x) <= Got } = {}
    <3>1. \A x \in final : ~ (Rank(x) <= Got)
      BY <1>1, <1>2 DEF ListingType
    <3> QED
      BY <3>1
  <2>2. /\ << >> \in Seq({}) /\ Falling(<< >>) /\ ToSet(<< >>) = {}
        /\ {} \subseteq 1 .. 0
    BY DEF Falling, ToSet
  <2>3. << >> = NewestFirst({})
    BY <2>2, NewestFirstIs
  <2> QED
    BY <2>1, <2>3 DEF Exact
<1>5. NoGap /\ NewestFirstUnlessAgain
  BY DEF NoGap, NewestFirstUnlessAgain, ToSet
<1> QED
  BY <1>3, <1>4, <1>5 DEF SoFar

LEMMA ListInvInit == Init => ListInv
<1> SUFFICES ASSUME Init
             PROVE  ListInv
  OBVIOUS
<1> USE DEF Init, GitHubInit
<1>1. ListingType
  BY ListingAssumption DEF ListingType, UpstreamType
<1>2. Got = 0
  BY ListingAssumption DEF Got
<1>3. ClientType
  BY <1>2, ListingAssumption DEF ClientType
<1>4. SoFar
  BY <1>1, NothingYet
<1> QED
  BY <1>1, <1>3, <1>4 DEF ListInv

\* What GitHub does to its list while the client has some of it.
LEMMA ChangesKeep ==
    ASSUME ListingType, ClientType, SoFar, GitHubChanges, UNCHANGED client
    PROVE  ListingType' /\ ClientType' /\ SoFar' /\ sometime \subseteq sometime'
<1> USE DEF client
<1>1. ListingType /\ ClientType /\ SoFar
  OBVIOUS
<1>2. Got' = Got
  BY DEF Got
<1>3. ListingType' /\ sometime \subseteq sometime'
  <2>1. CASE Publish
    <3>1. /\ latest \in Nat /\ upstream \subseteq 1 .. latest
          /\ AtStart <= latest /\ sometime \subseteq 1 .. latest
          /\ latest' = latest + 1 /\ upstream' = upstream \cup {latest + 1}
          /\ sometime' \subseteq sometime \cup {latest + 1}
      BY <1>1, <2>1 DEF ListingType, UpstreamType, Publish
    <3>2. \A x \in 1 .. latest : x \in 1 .. latest + 1
      BY <3>1
    <3>3. upstream' \subseteq 1 .. latest' /\ sometime' \subseteq 1 .. latest'
      BY <3>1, <3>2
    <3>4. latest' \in Nat /\ AtStart <= latest'
      BY <3>1, ListingAssumption
    <3>5. /\ final' \subseteq upstream' /\ always' \subseteq final'
          /\ final' \subseteq sometime' /\ sometime \subseteq sometime'
          /\ edits' = edits
      BY <1>1, <2>1 DEF ListingType, Publish
    <3>6. edits' = {} => \A x \in final' : x <= AtStart => x \in always'
      <4>1. always' = always /\ final' \subseteq final \cup {latest + 1}
        BY <2>1 DEF Publish
      <4>2. ~ (latest + 1 <= AtStart)
        BY <3>1, ListingAssumption
      <4> QED
        BY <1>1, <3>5, <4>1, <4>2 DEF ListingType
    <3> QED
      BY <1>1, <3>3, <3>4, <3>5, <3>6 DEF ListingType, UpstreamType
  <2>2. ASSUME NEW x \in upstream \ final, Promote(x)
        PROVE  ListingType' /\ sometime \subseteq sometime'
    BY <1>1, <2>2 DEF ListingType, UpstreamType, Promote
  <2>3. ASSUME NEW x \in upstream, Withdraw(x)
        PROVE  ListingType' /\ sometime \subseteq sometime'
    BY <1>1, <2>3 DEF ListingType, UpstreamType, Withdraw
  <2> QED
    BY <2>1, <2>2, <2>3 DEF GitHubChanges
<1>4. ClientType'
  <2>1. allTags \in Seq(sometime')
    BY <1>1, <1>3 DEF ClientType
  <2> QED
    BY <1>1, <1>2, <2>1 DEF ClientType
<1>5. CASE Publish
  <2>1. /\ latest' = latest + 1 /\ always' = always /\ upstream \subseteq upstream'
        /\ edits' = edits
    BY <1>5 DEF Publish
  <2>2. \A x \in always : Rank(x) \in Nat /\ Rank(x)' \in Nat /\ Rank(x) <= Rank(x)'
    <3> SUFFICES ASSUME NEW x \in always
                 PROVE  Rank(x) \in Nat /\ Rank(x)' \in Nat /\ Rank(x) <= Rank(x)'
      OBVIOUS
    <3>1. x \in upstream
      BY <1>1 DEF ListingType
    <3>2. Rank(x) \in Nat
      BY <1>1, <3>1, RankFacts DEF ListingType
    <3>3. UpstreamType /\ UpstreamType'
      BY <1>1, <1>3 DEF ListingType
    <3>4. Rank(x) <= Rank(x)'
      BY <2>1, <3>1, <3>3, RankGrows
    <3>5. Rank(x)' \in Nat
      <4>1. IsFiniteSet(upstream')
        BY <3>3, PositiveNumbers DEF UpstreamType
      <4> DEFINE from == { y \in upstream' : y >= x }
      <4>2. from \subseteq upstream' /\ Rank(x)' = Cardinality(from)
        BY DEF Rank
      <4> HIDE DEF from
      <4> QED
        BY <4>1, <4>2, FS_Subset, FS_CardinalityType
    <3> QED
      BY <3>2, <3>4, <3>5
  <2>3. Got \in Nat
    BY <1>1, GotFacts, ListingAssumption DEF ClientType
  <2>4. Missed'
    BY <1>1, <1>2, <2>1, <2>2, <2>3 DEF SoFar, Missed
  <2>5. Exact'
    BY <1>1, <2>1, ListingAssumption DEF Exact, ListingType, UpstreamType
  <2>6. NoGap'
    BY <1>1, <2>1 DEF SoFar, NoGap
  <2>7. NewestFirstUnlessAgain'
    <3>1. latest' - AtStart <= PerPage => latest - AtStart <= PerPage
      BY <1>1, <2>1, ListingAssumption DEF ListingType, UpstreamType
    <3> QED
      BY <1>1, <2>1, <3>1 DEF SoFar, NewestFirstUnlessAgain
  <2> QED
    BY <1>3, <1>4, <2>4, <2>5, <2>6, <2>7 DEF SoFar
<1>6. CASE \/ \E x \in upstream \ final : Promote(x)
           \/ \E x \in upstream : Withdraw(x)
  <2>1. edits' # {}
    BY <1>6 DEF Promote, Withdraw
  <2>2. Missed'
    <3>1. CASE "withdrawn" \in edits'
      BY <3>1 DEF Missed
    <3>2. CASE "withdrawn" \notin edits'
      <4>1. PICK x \in upstream \ final : Promote(x)
        BY <1>6, <3>2 DEF Withdraw
      <4>2. always' = always /\ upstream' = upstream /\ "withdrawn" \notin edits
        BY <3>2, <4>1 DEF Promote
      <4>3. \A y : Rank(y)' = Rank(y)
        BY <4>2 DEF Rank
      <4> QED
        BY <1>1, <1>2, <4>2, <4>3 DEF SoFar, Missed
    <3> QED
      BY <3>1, <3>2
  <2>3. Exact' /\ NoGap' /\ NewestFirstUnlessAgain'
    BY <2>1 DEF Exact, NoGap, NewestFirstUnlessAgain
  <2> QED
    BY <1>3, <1>4, <2>2, <2>3 DEF SoFar
<1> QED
  BY <1>5, <1>6 DEF GitHubChanges

LEMMA ListInvChanges ==
    ASSUME ListInv, pc = "page", GitHubChanges, UNCHANGED client
    PROVE  ListInv'
BY ChangesKeep DEF ListInv

\* The versions on a page, and what is listed after it.
LEMMA TagsFacts ==
    ASSUME ListingType, ClientType, pc = "page"
    PROVE  /\ Got \in Nat /\ PerPage * page = Got + PerPage
           /\ \A x \in upstream : x \in Nat /\ Rank(x) \in Nat /\ Rank(x) > 0
           /\ Page(page) = { x \in upstream : Got < Rank(x) /\ Rank(x) <= Got + PerPage }
           /\ TagsOf(Page(page)) \in Seq(Page(page) \cap final)
           /\ Len(TagsOf(Page(page))) <= PerPage
           /\ ToSet(TagsOf(Page(page))) = Page(page) \cap final
           /\ Falling(TagsOf(Page(page)))
<1> DEFINE S == Page(page) \cap final
<1>1. page \in Nat \ {0}
  BY ListingAssumption DEF ClientType
<1>2. \A x \in upstream : x \in Nat /\ Rank(x) \in Nat /\ Rank(x) > 0
  BY RankFacts DEF ListingType
<1>3. /\ Page(page) \subseteq upstream
      /\ IsFiniteSet(Page(page)) /\ Cardinality(Page(page)) <= PerPage
  BY <1>1, PageFacts DEF ListingType
<1>4. latest \in Nat /\ S \subseteq 1 .. latest
  BY <1>3 DEF ListingType, UpstreamType
<1>5. /\ NewestFirst(S) \in Seq(S)
      /\ Len(NewestFirst(S)) = Cardinality(S)
      /\ ToSet(NewestFirst(S)) = S
      /\ Falling(NewestFirst(S))
  <2> HIDE DEF S
  <2> QED
    BY <1>4, NewestFirstFacts
<1>6. Cardinality(S) <= PerPage
  <2>1. S \subseteq Page(page)
    OBVIOUS
  <2> HIDE DEF S
  <2>2. IsFiniteSet(S) /\ Cardinality(S) <= Cardinality(Page(page))
    BY <1>3, <2>1, FS_Subset
  <2>3. Cardinality(S) \in Nat /\ Cardinality(Page(page)) \in Nat
    BY <1>3, <2>2, FS_CardinalityType
  <2> QED
    BY <1>3, <2>2, <2>3, ListingAssumption
<1>7. TagsOf(Page(page)) = NewestFirst(S)
  BY DEF TagsOf
<1> QED
  BY <1>1, <1>2, <1>5, <1>6, <1>7, GotFacts

\* A page, the last one too, keeps what is listed as it should be.
LEMMA ListInvGetPage ==
    ASSUME ListInv, GetPage
    PROVE  /\ ListingType' /\ ClientType' /\ SoFar'
           /\ Got' = PerPage * page
<1> DEFINE tags == TagsOf(Page(page))
<1> USE DEF github
<1>1. ListingType /\ ClientType /\ SoFar /\ pc = "page"
  BY DEF ListInv, GetPage
<1>2. /\ Got \in Nat /\ PerPage * page = Got + PerPage
      /\ \A x \in upstream : x \in Nat /\ Rank(x) \in Nat /\ Rank(x) > 0
      /\ Page(page) = { x \in upstream : Got < Rank(x) /\ Rank(x) <= Got + PerPage }
      /\ tags \in Seq(Page(page) \cap final)
      /\ Len(tags) <= PerPage
      /\ ToSet(tags) = Page(page) \cap final
      /\ Falling(tags)
  BY <1>1, TagsFacts
<1>3. allTags' = allTags \o tags /\ page' = page + 1
  BY DEF GetPage
<1> HIDE DEF tags
<1>4. /\ final \subseteq upstream /\ always \subseteq final /\ final \subseteq sometime
      /\ latest \in Nat /\ sometime \subseteq 1 .. latest
      /\ UpstreamType
  BY <1>1 DEF ListingType, UpstreamType
<1>5. UNCHANGED << upstream, final, latest, always, sometime, edits >>
  BY DEF GetPage
<1>6. ListingType'
  BY <1>1, <1>5 DEF ListingType, UpstreamType
<1>7. Got' = PerPage * page
  <2>1. page \in Nat
    BY <1>1, ListingAssumption DEF ClientType
  <2>2. page' - 1 = page
    BY <1>3, <2>1
  <2>3. Got' = PerPage * (page' - 1)
    BY DEF Got
  <2> QED
    BY <2>2, <2>3
<1>8. allTags \in Seq(sometime) /\ tags \in Seq(sometime)
  <2>1. Page(page) \cap final \subseteq sometime
    BY <1>4
  <2>2. tags \in Seq(sometime)
    BY <1>2, <2>1
  <2> QED
    BY <1>1, <2>2 DEF ClientType
<1>9. /\ Len(allTags) \in Nat /\ Len(tags) \in Nat
      /\ DOMAIN allTags = 1 .. Len(allTags) /\ DOMAIN tags = 1 .. Len(tags)
      /\ allTags' \in Seq(sometime) /\ Len(allTags') = Len(allTags) + Len(tags)
      /\ DOMAIN allTags' = 1 .. Len(allTags) + Len(tags)
      /\ \A i \in 1 .. Len(allTags) : allTags'[i] = allTags[i]
      /\ \A i \in 1 .. Len(tags) : allTags'[Len(allTags) + i] = tags[i]
  <2>1. /\ Len(allTags) \in Nat /\ Len(tags) \in Nat
        /\ DOMAIN allTags = 1 .. Len(allTags) /\ DOMAIN tags = 1 .. Len(tags)
    BY <1>8
  <2>2. allTags' \in Seq(sometime) /\ Len(allTags') = Len(allTags) + Len(tags)
    BY <1>3, <1>8
  <2>3. DOMAIN allTags' = 1 .. Len(allTags) + Len(tags)
    BY <2>2
  <2>4. ASSUME NEW i \in 1 .. Len(allTags)
        PROVE  allTags'[i] = allTags[i]
    BY <1>3, <1>8, <2>1
  <2>5. ASSUME NEW i \in 1 .. Len(tags)
        PROVE  allTags'[Len(allTags) + i] = tags[i]
    BY <1>3, <1>8, <2>1
  <2> QED
    BY <2>1, <2>2, <2>3, <2>4, <2>5
<1>10. ClientType'
  <2>1. pc' \in {"page", "done"} /\ page' \in 1 .. MaxPages + 1
        /\ (pc' = "page" => page' <= MaxPages)
    BY <1>1, ListingAssumption DEF GetPage, LastPage, ClientType
  <2>2. Len(allTags') <= Got'
    BY <1>1, <1>2, <1>7, <1>9, ListingAssumption DEF ClientType
  <2> QED
    BY <1>5, <1>9, <2>1, <2>2 DEF ClientType
<1>11. ToSet(allTags') = ToSet(allTags) \cup ToSet(tags)
  <2>1. ToSet(allTags') \subseteq ToSet(allTags) \cup ToSet(tags)
    <3> SUFFICES ASSUME NEW i \in 1 .. Len(allTags) + Len(tags)
                 PROVE  allTags'[i] \in ToSet(allTags) \cup ToSet(tags)
      BY <1>9 DEF ToSet
    <3>1. CASE i <= Len(allTags)
      <4>1. i \in 1 .. Len(allTags)
        BY <1>9, <3>1
      <4> QED
        BY <1>9, <4>1 DEF ToSet
    <3>2. CASE i > Len(allTags)
      <4>1. i - Len(allTags) \in 1 .. Len(tags) /\ Len(allTags) + (i - Len(allTags)) = i
        BY <1>9, <3>2
      <4> QED
        BY <1>9, <4>1 DEF ToSet
    <3> QED
      BY <1>9, <3>1, <3>2
  <2>2. ToSet(allTags) \subseteq ToSet(allTags')
    <3>1. \A i \in 1 .. Len(allTags) : i \in DOMAIN allTags'
      BY <1>9
    <3> QED
      BY <1>9, <3>1 DEF ToSet
  <2>3. ToSet(tags) \subseteq ToSet(allTags')
    <3>1. \A i \in 1 .. Len(tags) : Len(allTags) + i \in DOMAIN allTags'
      BY <1>9
    <3> QED
      BY <1>9, <3>1 DEF ToSet
  <2> QED
    BY <2>1, <2>2, <2>3
<1>12. \A x : Rank(x)' = Rank(x)
  BY <1>5 DEF Rank
<1>13. Missed'
  <2> SUFFICES ASSUME "withdrawn" \notin edits, NEW x \in always,
                      Rank(x) <= Got + PerPage
               PROVE  x \in ToSet(allTags')
    BY <1>2, <1>5, <1>7, <1>12 DEF Missed
  <2>1. x \in upstream /\ x \in final
    BY <1>4
  <2>2. CASE Rank(x) <= Got
    BY <1>1, <1>11, <2>2 DEF SoFar, Missed
  <2>3. CASE Got < Rank(x)
    BY <1>2, <1>11, <2>1, <2>3
  <2> QED
    BY <1>2, <2>1, <2>2, <2>3
<1>14. Exact'
  <2> SUFFICES ASSUME edits = {}, latest = AtStart
               PROVE  allTags' = NewestFirst({ x \in final : Rank(x) <= Got + PerPage })
    BY <1>2, <1>5, <1>7, <1>12 DEF Exact
  <2> DEFINE A == { x \in final : Rank(x) <= Got }
             B == Page(page) \cap final
  <2>1. allTags = NewestFirst(A) /\ tags = NewestFirst(B)
    BY <1>1 DEF SoFar, Exact, TagsOf, tags
  <2>2. A \subseteq 1 .. latest /\ B \subseteq 1 .. latest
    BY <1>4
  <2>3. ASSUME NEW a \in A, NEW b \in B
        PROVE  a > b
    <3>1. a \in upstream /\ b \in upstream /\ Rank(a) < Rank(b)
      <4>1. a \in final /\ Rank(a) <= Got
        BY <2>3
      <4>2. b \in upstream /\ Got < Rank(b)
        BY <1>2, <2>3
      <4>3. a \in upstream /\ Rank(a) \in Nat /\ Rank(b) \in Nat
        BY <1>2, <1>4, <4>1, <4>2
      <4> QED
        BY <1>2, <4>1, <4>2, <4>3
    <3>2. ~ (a < b) /\ a # b
      BY <1>2, <1>4, <3>1, RankFacts
    <3> QED
      BY <1>2, <3>1, <3>2
  <2>4. A \cup B = { x \in final : Rank(x) <= Got + PerPage }
    <3>1. \A x \in final : x \in upstream /\ Rank(x) \in Nat
      BY <1>2, <1>4
    <3>2. \A x \in final : x \in A \cup B <=> Rank(x) <= Got + PerPage
      BY <1>2, <3>1, ListingAssumption
    <3> QED
      BY <3>2
  <2> HIDE DEF A, B
  <2>5. NewestFirst(A) \o NewestFirst(B) = NewestFirst(A \cup B)
    BY <1>4, <2>2, <2>3, NewestFirstConcat
  <2> QED
    BY <1>3, <2>1, <2>4, <2>5
<1>15. NoGap'
  <2> SUFFICES ASSUME edits = {}, NEW x \in always, NEW y \in ToSet(allTags'), x >= y
               PROVE  x \in ToSet(allTags')
    BY <1>5 DEF NoGap
  <2>1. CASE y \in ToSet(allTags)
    BY <1>1, <1>11, <2>1 DEF SoFar, NoGap
  <2>2. CASE y \in ToSet(tags)
    <3>1. x \in upstream /\ y \in upstream /\ Rank(y) <= Got + PerPage
      BY <1>2, <1>4, <2>2
    <3>2. Rank(x) <= Rank(y)
      <4>1. y < x => Rank(x) < Rank(y)
        BY <1>4, <3>1, RankFacts
      <4>2. x \in Nat /\ y \in Nat /\ Rank(x) \in Nat /\ Rank(y) \in Nat
        BY <1>2, <3>1
      <4>3. y = x \/ y < x
        BY <4>2
      <4> QED
        BY <4>1, <4>2, <4>3
    <3>3. Rank(x) <= Got + PerPage
      BY <1>2, <3>1, <3>2, ListingAssumption
    <3> QED
      BY <1>2, <1>5, <1>7, <1>12, <1>13, <3>3 DEF Missed
  <2> QED
    BY <1>11, <2>1, <2>2
<1>16. NewestFirstUnlessAgain'
  <2> SUFFICES ASSUME edits = {}, latest - AtStart <= PerPage,
                      NEW i \in 2 .. Len(allTags')
               PROVE  \/ \E k \in 1 .. i - 1 : allTags'[k] = allTags'[i]
                      \/ \A k \in 1 .. i - 1 : allTags'[k] > allTags'[i]
    BY <1>5 DEF NewestFirstUnlessAgain
  <2>1. CASE i <= Len(allTags)
    <3>1. \A k \in 1 .. i : k \in 1 .. Len(allTags) /\ allTags'[k] = allTags[k]
      BY <1>9, <2>1
    <3>2. i \in 2 .. Len(allTags) /\ i \in 1 .. i /\ \A k \in 1 .. i - 1 : k \in 1 .. i
      BY <1>9, <2>1
    <3>3. \/ \E k \in 1 .. i - 1 : allTags[k] = allTags[i]
          \/ \A k \in 1 .. i - 1 : allTags[k] > allTags[i]
      BY <1>1, <3>2 DEF SoFar, NewestFirstUnlessAgain
    <3> QED
      BY <3>1, <3>2, <3>3
  <2>2. CASE i > Len(allTags)
    <3> DEFINE n == i - Len(allTags)
               x == tags[n]
    <3>1. n \in 1 .. Len(tags) /\ allTags'[i] = x /\ x \in ToSet(tags)
      <4>1. n \in 1 .. Len(tags) /\ Len(allTags) + n = i
        BY <1>9, <2>2
      <4> QED
        BY <1>9, <4>1 DEF ToSet
    <3> HIDE DEF x
    <3>2. x \in upstream /\ x \in final /\ x \in Nat /\ Rank(x) \in Nat /\ Rank(x) > Got
      BY <1>2, <1>4, <3>1
    <3>3. CASE x \in ToSet(allTags)
      <4>1. PICK k \in 1 .. Len(allTags) : allTags[k] = x
        BY <1>9, <3>3 DEF ToSet
      <4>2. k \in 1 .. i - 1
        BY <1>9, <2>2
      <4> QED
        BY <1>9, <3>1, <4>1, <4>2
    <3>4. CASE x \notin ToSet(allTags)
      <4> SUFFICES ASSUME NEW k \in 1 .. i - 1
                   PROVE  allTags'[k] > x
        BY <3>1
      <4>1. CASE k > Len(allTags)
        <5> DEFINE m == k - Len(allTags)
        <5>1. m \in 1 .. Len(tags) /\ Len(allTags) + m = k /\ m < n
          BY <1>9, <3>1, <4>1
        <5>2. allTags'[k] = tags[m]
          BY <1>9, <5>1
        <5>3. tags[m] > tags[n]
          BY <1>2, <1>9, <3>1, <5>1 DEF Falling
        <5> QED
          BY <5>2, <5>3 DEF x
      <4>2. CASE k <= Len(allTags)
        <5> DEFINE y == allTags[k]
        <5>1. k \in 1 .. Len(allTags) /\ allTags'[k] = y
          BY <1>9, <4>2
        <5>2. y \in ToSet(allTags) /\ y \in sometime
          <6>1. k \in DOMAIN allTags
            BY <1>9, <5>1
          <6>2. y \in ToSet(allTags)
            BY <6>1 DEF ToSet
          <6> HIDE DEF y
          <6>3. allTags[k] \in sometime
            BY <1>8, <6>1
          <6> QED
            BY <6>2, <6>3 DEF y
        <5> HIDE DEF y
        <5>3. y \in Nat
          BY <1>4, <5>2
        <5>4. ASSUME y <= x
              PROVE  FALSE
          <6>1. Got >= PerPage
            <7>1. Got > 0
              BY <1>1, <1>2, <1>9, <5>1 DEF ClientType
            <7>2. page \in Nat \ {0}
              BY <1>1, ListingAssumption DEF ClientType
            <7>3. page > 1
              BY <7>1, <7>2, ListingAssumption DEF Got
            <7> QED
              BY <7>2, <7>3, GotFacts
          <6>2. Rank(x) <= latest - x + 1
            BY <1>4, <3>2, RankFacts
          <6>3. x <= AtStart
            BY <1>2, <1>4, <3>2, <6>1, <6>2, ListingAssumption
          <6>4. x \in always
            BY <1>1, <3>2, <6>3 DEF ListingType
          <6>5. x \in ToSet(allTags)
            BY <1>1, <3>2, <5>2, <5>3, <5>4, <6>4 DEF SoFar, NoGap
          <6> QED
            BY <3>4, <6>5
        <5> QED
          BY <3>2, <5>1, <5>3, <5>4
      <4> QED
        BY <1>9, <4>1, <4>2
    <3> QED
      BY <3>3, <3>4
  <2> QED
    BY <1>9, <2>1, <2>2
<1> QED
  BY <1>6, <1>7, <1>10, <1>13, <1>14, <1>15, <1>16 DEF SoFar

\* Behind an empty page there is nothing.
LEMMA NothingBehind ==
    ASSUME ListInv, pc = "page", Page(page) = {}
    PROVE  \A x \in upstream : /\ Rank(x) \in Nat
                               /\ Rank(x) <= Cap <=> Rank(x) <= Got
<1>1. ListingType /\ ClientType
  BY DEF ListInv
<1>2. /\ Got \in Nat /\ \A x \in upstream : Rank(x) \in Nat
      /\ Page(page) = { x \in upstream : Got < Rank(x) /\ Rank(x) <= Got + PerPage }
  BY <1>1, TagsFacts
<1>3. ASSUME NEW x \in upstream, Rank(x) > Got
      PROVE  FALSE
  <2>1. Got + 1 \in Nat \ {0} /\ Got + 1 <= Rank(x)
    BY <1>2, <1>3
  <2>2. PICK y \in upstream : Rank(y) = Got + 1
    BY <1>1, <2>1, RankTaken DEF ListingType
  <2>3. y \in Page(page)
    BY <1>2, <2>2, ListingAssumption
  <2> QED
    BY <2>3
<1>4. Got <= Cap /\ Cap \in Nat
  <2>1. page \in Nat \ {0} /\ page <= MaxPages
    BY <1>1, ListingAssumption DEF ClientType
  <2>2. PerPage * page = Got + PerPage /\ PerPage * page <= Cap
    BY <2>1, GotFacts
  <2>3. Cap \in Nat
    BY ListingAssumption DEF Cap
  <2> QED
    BY <1>2, <2>2, <2>3, ListingAssumption
<1> QED
  BY <1>2, <1>3, <1>4

LEMMA ListInvNext == ListInv /\ [Next]_vars => ListInv'
<1> SUFFICES ASSUME ListInv, [Next]_vars
             PROVE  ListInv'
  OBVIOUS
<1>1. CASE GetPage
  BY <1>1, ListInvGetPage DEF ListInv
<1>2. CASE GetEmptyPage \/ GetPageFails \/ UNCHANGED vars
  <2>1. UNCHANGED << upstream, final, latest, always, sometime, edits, page, allTags >>
    BY <1>2 DEF GetEmptyPage, GetPageFails, vars, github, client
  <2>2. pc' \in {"done", "failed"} \/ pc' = pc
    BY <1>2 DEF GetEmptyPage, GetPageFails, vars, client
  <2>3. Got' = Got /\ \A x : Rank(x)' = Rank(x)
    BY <2>1 DEF Got, Rank
  <2>4. ListingType' /\ ClientType'
    BY <2>1, <2>2, <2>3 DEF ListInv, ListingType, UpstreamType, ClientType
  <2>5. pc' = "page" => SoFar'
    BY <2>1, <2>2, <2>3
       DEF ListInv, SoFar, Missed, Exact, NoGap, NewestFirstUnlessAgain
  <2> QED
    BY <2>4, <2>5 DEF ListInv
<1>3. CASE pc = "page" /\ GitHubChanges /\ UNCHANGED client
  BY <1>3, ListInvChanges
<1> QED
  BY <1>1, <1>2, <1>3 DEF Next

LEMMA ListInvAlways == Spec => []ListInv
BY ListInvInit, ListInvNext, PTL DEF Spec

\* Types, and no more tags than the pages that were asked for can hold.
THEOREM DiscoveryTypeOK == Spec => []TypeOK
<1>1. ListInv => TypeOK
  BY DEF ListInv, ListingType, UpstreamType, ClientType, TypeOK, Got
<1> QED
  BY <1>1, ListInvAlways, PTL

-----------------------------------------------------------------------------
(* The pages implement Listing *)

result == IF pc = "done" THEN << allTags >> ELSE << >>

\* Listing's own names for what it shares with Discovery.
LEMMA SameSize == \A S : L!Cardinality(S) = Cardinality(S) /\ L!ToSet(S) = ToSet(S)
<1> SUFFICES ASSUME NEW S
             PROVE  L!Cardinality(S) = Cardinality(S) /\ L!ToSet(S) = ToSet(S)
  OBVIOUS
<1>1. L!Cardinality(S) = Cardinality(S)
  BY DEF L!Cardinality, Cardinality
<1>2. L!ToSet(S) = ToSet(S)
  BY DEF L!ToSet, ToSet
<1> QED
  BY <1>1, <1>2

LEMMA SameList == \A S : L!NewestFirst(S) = NewestFirst(S)
<1> SUFFICES ASSUME NEW S
             PROVE  L!NewestFirst(S) = NewestFirst(S)
  OBVIOUS
<1>1. L!Cardinality(S) = Cardinality(S)
  BY SameSize
<1>2. L!SetToSeqs(S) = SetToSeqs(S)
  BY <1>1 DEF L!SetToSeqs, SetToSeqs
<1> QED
  BY <1>2 DEF L!NewestFirst, NewestFirst

LEMMA SameRank == (\A x : L!Rank(x) = Rank(x)) /\ L!Cap = Cap
<1>1. \A x : L!Rank(x) = Rank(x)
  <2> SUFFICES ASSUME NEW x
               PROVE  L!Rank(x) = Rank(x)
    OBVIOUS
  <2>1. \A S : L!Cardinality(S) = Cardinality(S)
    BY SameSize
  <2> QED
    BY <2>1 DEF L!Rank, Rank
<1> QED
  BY <1>1 DEF L!Cap, Cap

LEMMA SameGitHub ==
    /\ L!github = github
    /\ L!GitHubInit <=> GitHubInit
    /\ L!GitHubChanges <=> GitHubChanges
<1>1. L!github = github /\ (L!GitHubInit <=> GitHubInit)
  BY DEF L!github, github, L!GitHubInit, GitHubInit
<1>2. L!Publish <=> Publish
  BY DEF L!Publish, Publish
<1>3. \A x : (L!Promote(x) <=> Promote(x)) /\ (L!Withdraw(x) <=> Withdraw(x))
  BY DEF L!Promote, Promote, L!Withdraw, Withdraw
<1>4. L!GitHubChanges <=> GitHubChanges
  BY <1>2, <1>3 DEF L!GitHubChanges, GitHubChanges
<1> QED
  BY <1>1, <1>4

\* A list that is as it should be after the last page is the answer.
LEMMA AnswerIs ==
    ASSUME ListingType', ClientType', SoFar', pc = "page", pc' = "done",
           UNCHANGED github,
           \A x \in upstream : Rank(x) <= Cap <=> Rank(x) <= Got'
    PROVE  L!Answer
<1>1. UNCHANGED << upstream, final, latest, always, sometime, edits >>
  BY DEF github
<1>2. \A x : Rank(x)' = Rank(x)
  BY <1>1 DEF Rank
<1>3. L!ListsReleases(allTags')
  <2>1. allTags' \in Seq(sometime)
    BY <1>1 DEF ClientType
  <2>2. \A i \in DOMAIN allTags' : allTags'[i] \in sometime
    BY <2>1
  <2> QED
    BY <1>1, <2>2, SameSize DEF L!ListsReleases, ToSet
<1>4. L!MissesNothing(allTags')
  <2> SUFFICES ASSUME "withdrawn" \notin edits, NEW x \in always, Rank(x) <= Cap
               PROVE  x \in ToSet(allTags')
    BY SameSize, SameRank DEF L!MissesNothing
  <2>1. x \in upstream
    BY <1>1 DEF ListingType
  <2>2. Rank(x)' <= Got'
    BY <1>2, <2>1
  <2>3. Missed'
    BY DEF SoFar
  <2> QED
    BY <1>1, <2>2, <2>3 DEF Missed
<1>5. L!IsExactWhenQuiet(allTags')
  <2>1. { x \in final : Rank(x) <= Cap } = { x \in final : Rank(x) <= Got' }
    BY <1>1 DEF ListingType
  <2> QED
    BY <1>1, <1>2, <2>1, SameRank, SameList
       DEF L!IsExactWhenQuiet, SoFar, Exact
<1>6. L!IsNewestFirst(allTags')
  BY <1>1 DEF L!IsNewestFirst, SoFar, NewestFirstUnlessAgain
<1>7. result = << >> /\ result' = << allTags' >>
  BY DEF result
<1>8. Len(<< allTags' >>) = 1 /\ << allTags' >>[1] = allTags'
  OBVIOUS
<1>9. result'[1] = allTags' /\ Len(result') = 1
  BY <1>7, <1>8
<1>10. L!Answer <=> /\ result = << >> /\ Len(result') = 1
                    /\ L!ListsReleases(result'[1])
                    /\ L!MissesNothing(result'[1])
                    /\ L!IsExactWhenQuiet(result'[1])
                    /\ L!IsNewestFirst(result'[1])
                    /\ UNCHANGED github
  BY DEF L!Answer, result, L!github, github
<1> QED
  BY <1>3, <1>4, <1>5, <1>6, <1>7, <1>9, <1>10

\* listGitHubReleases implements Listing, for any page size and number of pages.
THEOREM DiscoveryImplementsListing == Spec => ListingPromise
<1>1. Init => L!ListingInit
  BY SameGitHub DEF Init, L!ListingInit, result
<1>2. ListInv /\ [Next]_vars => [L!ListingNext]_<< L!github, result >>
  <2> SUFFICES ASSUME ListInv, [Next]_vars
               PROVE  L!ListingNext \/ UNCHANGED << github, result >>
    BY DEF L!github, github
  <2>1. CASE GetPage
    <3>1. /\ ListingType' /\ ClientType' /\ SoFar'
          /\ Got' = PerPage * page /\ pc = "page" /\ UNCHANGED github
      BY <2>1, ListInvGetPage DEF GetPage
    <3>2. CASE page = MaxPages
      <4>1. pc' = "done"
        BY <2>1, <3>2 DEF GetPage, LastPage
      <4>2. Got' = Cap
        BY <3>1, <3>2 DEF Cap
      <4> QED
        BY <3>1, <4>1, <4>2, AnswerIs DEF L!ListingNext
    <3>3. CASE page # MaxPages
      BY <2>1, <3>1, <3>3 DEF GetPage, LastPage, result
    <3> QED
      BY <3>2, <3>3
  <2>2. CASE GetEmptyPage
    <3>1. /\ pc = "page" /\ pc' = "done" /\ Page(page) = {}
          /\ UNCHANGED << github, page, allTags >>
      BY <2>2 DEF GetEmptyPage
    <3>2. ListingType /\ ClientType /\ SoFar
      BY <3>1 DEF ListInv
    <3>3. UNCHANGED << upstream, final, latest, always, sometime, edits >>
      BY <3>1 DEF github
    <3>4. Got' = Got /\ \A x : Rank(x)' = Rank(x)
      BY <3>1, <3>3 DEF Got, Rank
    <3>5. ListingType' /\ ClientType' /\ SoFar'
      <4>1. ListingType' /\ ClientType'
        BY <3>1, <3>2, <3>3, <3>4 DEF ListingType, UpstreamType, ClientType
      <4>2. SoFar'
        BY <3>1, <3>2, <3>3, <3>4
           DEF SoFar, Missed, Exact, NoGap, NewestFirstUnlessAgain
      <4> QED
        BY <4>1, <4>2
    <3>6. \A x \in upstream : Rank(x) <= Cap <=> Rank(x) <= Got'
      BY <3>1, <3>4, NothingBehind
    <3> QED
      BY <3>1, <3>5, <3>6, AnswerIs DEF L!ListingNext
  <2>3. CASE GetPageFails
    BY <2>3 DEF GetPageFails, result
  <2>4. CASE pc = "page" /\ GitHubChanges /\ UNCHANGED client
    BY <2>4, SameGitHub DEF L!ListingNext, client, result
  <2>5. CASE UNCHANGED vars
    BY <2>5 DEF vars, client, result
  <2> QED
    BY <2>1, <2>2, <2>3, <2>4, <2>5 DEF Next
<1> QED
  BY <1>1, <1>2, ListInvAlways, PTL
     DEF Spec, ListingPromise, L!ListingSpec, result

-----------------------------------------------------------------------------
(* The choice of crictl's version.  No release that was there all the time
   comes later in the list than an older one, though the list may be out of
   order and hold releases twice; so the first tag of the minor version is not
   older than any such release of it. *)

Quiet == edits = {} /\ latest = AtStart

NotLate ==
    ~ Withdrawn =>
        \A i \in DOMAIN allTags : \A x \in always :
            x > allTags[i] => \E k \in 1 .. i - 1 : allTags[k] = x

ListedIsFinal == ~ Withdrawn => \A i \in DOMAIN allTags : allTags[i] \in final

Complete ==
    ~ Withdrawn => \A x \in always : Rank(x) <= Cap => x \in ToSet(allTags)

InReach == Quiet => \A i \in DOMAIN allTags : Rank(allTags[i]) <= Cap

Listing == ListingType /\ ClientType /\ SoFar /\ NotLate /\ ListedIsFinal

Listed == pc = "done" => Complete /\ InReach

ChosenType ==
    /\ asked \in 1 .. Lookups
    /\ chosen \in Seq(sometime)
    /\ Len(chosen) = asked \/ Len(chosen) = asked - 1
    /\ Len(chosen) = asked => pc = "done"

ChosenIsThere ==
    ~ Withdrawn => \A i \in DOMAIN chosen : /\ chosen[i] \in final
                                            /\ i < asked => chosen[i] \in always

ChosenIsBest ==
    Quiet => \A i \in DOMAIN chosen :
                 /\ Rank(chosen[i]) <= Cap
                 /\ \A x \in final : Rank(x) <= Cap => NoWorse(chosen[i], x)

LaterIsNoWorse ==
    ~ Withdrawn =>
        \A k \in DOMAIN chosen : \A i \in 1 .. k - 1 :
            Rank(chosen[i]) <= Cap => NoWorse(chosen[k], chosen[i])

Chosen == ChosenType /\ ChosenIsThere /\ CrictlTracksMinor /\ ChosenIsBest /\ LaterIsNoWorse

ToolsInv == Listing /\ Listed /\ Chosen

-----------------------------------------------------------------------------

\* What the choice is, in a list with those properties.
LEMMA ChoiceIs ==
    ASSUME Listing, allTags # << >>,
           NEW c, c = latestCRIToolsForK8s(allTags)
    PROVE  /\ \E i \in DOMAIN allTags : c = allTags[i]
           /\ ~ Withdrawn => \A x \in always : x \in ToSet(allTags) => NoWorse(c, x)
<1> DEFINE matches == { i \in DOMAIN allTags : allTags[i] \in OfMinor }
<1>1. /\ allTags \in Seq(sometime) /\ sometime \subseteq 1 .. latest /\ latest \in Nat
      /\ always \subseteq sometime
  BY DEF Listing, ListingType, ClientType, UpstreamType
<1>2. /\ DOMAIN allTags = 1 .. Len(allTags) /\ Len(allTags) \in Nat
      /\ 1 \in DOMAIN allTags
      /\ \A i \in DOMAIN allTags : allTags[i] \in Nat
  <2>1. DOMAIN allTags = 1 .. Len(allTags) /\ Len(allTags) \in Nat /\ Len(allTags) # 0
    BY <1>1
  <2> QED
    <3>1. \A i \in DOMAIN allTags : allTags[i] \in sometime
      BY <1>1
    <3>2. \A x \in sometime : x \in Nat
      BY <1>1
    <3> QED
      BY <2>1, <3>1, <3>2
<1>3. \A x \in always : x \in Nat
  BY <1>1
<1>4. PICK i \in DOMAIN allTags :
          /\ c = allTags[i]
          /\ \A k \in matches : i <= k
          /\ (matches = {} /\ i = 1) \/ i \in matches
  <2>1. CASE matches = {}
    BY <1>2, <2>1 DEF latestCRIToolsForK8s
  <2>2. CASE matches # {}
    <3>1. \E k \in matches : \A m \in matches : k <= m
      <4>1. matches \subseteq Nat
        BY <1>2
      <4> HIDE DEF matches
      <4> QED
        BY <2>2, <4>1, LeastNat
    <3>2. Min(matches) \in matches /\ \A m \in matches : Min(matches) <= m
      <4> HIDE DEF matches
      <4> QED
        BY <3>1 DEF Min
    <3>3. c = allTags[Min(matches)]
      BY <2>2 DEF latestCRIToolsForK8s
    <3> QED
      BY <3>2, <3>3
  <2> QED
    BY <2>1, <2>2
<1>5. ASSUME ~ Withdrawn, NEW x \in always, x \in ToSet(allTags)
      PROVE  NoWorse(c, x)
  <2>1. PICK j \in DOMAIN allTags : allTags[j] = x
    BY <1>5 DEF ToSet
  <2>2. x \in OfMinor => j \in matches /\ i \in matches /\ c \in OfMinor
    BY <1>4, <2>1
  <2>3. ASSUME x > c, ~ (c \in OfMinor /\ x \notin OfMinor)
        PROVE  FALSE
    <3>1. PICK k \in 1 .. i - 1 : allTags[k] = x
      BY <1>4, <1>5, <2>3 DEF Listing, NotLate
    <3>2. k \in DOMAIN allTags /\ k < i /\ i # 1
      BY <1>2, <3>1
    <3>3. x \in OfMinor => k \in matches
      BY <3>1, <3>2
    <3>4. x \notin OfMinor
      BY <1>2, <1>4, <3>2, <3>3
    <3>5. c \in OfMinor
      BY <1>4, <3>2
    <3> QED
      BY <2>3, <3>4, <3>5
  <2>4. c \in Nat /\ x \in Nat
    BY <1>2, <1>3, <1>4
  <2> QED
    BY <2>2, <2>3, <2>4 DEF NoWorse
<1> QED
  BY <1>4, <1>5

\* What GitHub does leaves what was there in its place or moves it down.
LEMMA ChangesMoveDown ==
    ASSUME ListingType, ListingType', GitHubChanges
    PROVE  /\ ~ Quiet'
           /\ ~ Withdrawn' =>
                  /\ ~ Withdrawn
                  /\ always' = always /\ final \subseteq final'
                  /\ \A x \in upstream :
                         Rank(x) \in Nat /\ Rank(x)' \in Nat /\ Rank(x) <= Rank(x)'
<1>1. ~ Quiet'
  <2>1. CASE Publish
    BY <2>1, ListingAssumption DEF Publish, Quiet, ListingType, UpstreamType
  <2>2. CASE \E x \in upstream \ final : Promote(x)
    BY <2>2 DEF Promote, Quiet
  <2>3. CASE \E x \in upstream : Withdraw(x)
    BY <2>3 DEF Withdraw, Quiet
  <2> QED
    BY <2>1, <2>2, <2>3 DEF GitHubChanges
<1>2. ASSUME ~ Withdrawn'
      PROVE  /\ ~ Withdrawn
             /\ always' = always /\ final \subseteq final' /\ upstream \subseteq upstream'
  <2>1. CASE Publish
    BY <1>2, <2>1 DEF Publish, Withdrawn
  <2>2. CASE \E x \in upstream \ final : Promote(x)
    BY <1>2, <2>2 DEF Promote, Withdrawn
  <2>3. CASE \E x \in upstream : Withdraw(x)
    BY <1>2, <2>3 DEF Withdraw, Withdrawn
  <2> QED
    BY <2>1, <2>2, <2>3 DEF GitHubChanges
<1>3. ASSUME upstream \subseteq upstream', NEW x \in upstream
      PROVE  Rank(x) \in Nat /\ Rank(x)' \in Nat /\ Rank(x) <= Rank(x)'
  <2>1. UpstreamType /\ UpstreamType'
    BY DEF ListingType
  <2>2. Rank(x) \in Nat
    BY <2>1, RankFacts
  <2>3. Rank(x) <= Rank(x)'
    BY <1>3, <2>1, RankGrows
  <2>4. Rank(x)' \in Nat
    <3>1. IsFiniteSet(upstream')
      BY <2>1, PositiveNumbers DEF UpstreamType
    <3> DEFINE from == { y \in upstream' : y >= x }
    <3>2. from \subseteq upstream' /\ Rank(x)' = Cardinality(from)
      BY DEF Rank
    <3> HIDE DEF from
    <3> QED
      BY <3>1, <3>2, FS_Subset, FS_CardinalityType
  <2> QED
    BY <2>2, <2>3, <2>4
<1> QED
  BY <1>1, <1>2, <1>3

\* A page keeps what is new here as it should be.
LEMMA ListingGetPage ==
    ASSUME Listing, GetPage
    PROVE  Listing' /\ Got' = PerPage * page
<1> DEFINE tags == TagsOf(Page(page))
<1> USE DEF github
<1>1. ListInv /\ ListingType /\ ClientType /\ SoFar /\ pc = "page"
  BY DEF ListInv, Listing, GetPage
<1>2. ListingType' /\ ClientType' /\ SoFar' /\ Got' = PerPage * page
  BY <1>1, ListInvGetPage
<1>3. /\ Got \in Nat
      /\ \A x \in upstream : x \in Nat /\ Rank(x) \in Nat /\ Rank(x) > 0
      /\ Page(page) = { x \in upstream : Got < Rank(x) /\ Rank(x) <= Got + PerPage }
      /\ tags \in Seq(Page(page) \cap final)
      /\ ToSet(tags) = Page(page) \cap final
      /\ Falling(tags)
  BY <1>1, TagsFacts
<1>4. allTags' = allTags \o tags
  BY DEF GetPage
<1> HIDE DEF tags
<1>5. /\ final \subseteq upstream /\ always \subseteq final /\ final \subseteq sometime
      /\ latest \in Nat /\ sometime \subseteq 1 .. latest
      /\ UpstreamType
  BY <1>1 DEF ListingType, UpstreamType
<1>6. UNCHANGED << upstream, final, latest, always, sometime, edits >>
  BY DEF GetPage
<1>7. allTags \in Seq(sometime) /\ tags \in Seq(sometime)
  <2>1. Page(page) \cap final \subseteq sometime
    BY <1>5
  <2> QED
    BY <1>1, <1>3, <2>1 DEF ClientType
<1>8. /\ Len(allTags) \in Nat /\ Len(tags) \in Nat
      /\ DOMAIN allTags = 1 .. Len(allTags) /\ DOMAIN tags = 1 .. Len(tags)
      /\ DOMAIN allTags' = 1 .. Len(allTags) + Len(tags)
      /\ \A i \in 1 .. Len(allTags) : allTags'[i] = allTags[i]
      /\ \A i \in 1 .. Len(tags) : allTags'[Len(allTags) + i] = tags[i]
  <2>1. /\ Len(allTags) \in Nat /\ Len(tags) \in Nat
        /\ DOMAIN allTags = 1 .. Len(allTags) /\ DOMAIN tags = 1 .. Len(tags)
    BY <1>7
  <2>2. allTags' \in Seq(sometime) /\ Len(allTags') = Len(allTags) + Len(tags)
    BY <1>4, <1>7
  <2>3. DOMAIN allTags' = 1 .. Len(allTags) + Len(tags)
    BY <2>2
  <2>4. ASSUME NEW i \in 1 .. Len(allTags)
        PROVE  allTags'[i] = allTags[i]
    BY <1>4, <1>7, <2>1
  <2>5. ASSUME NEW i \in 1 .. Len(tags)
        PROVE  allTags'[Len(allTags) + i] = tags[i]
    BY <1>4, <1>7, <2>1
  <2> QED
    BY <2>1, <2>3, <2>4, <2>5
<1>9. \A i \in DOMAIN allTags' :
          \/ i \in 1 .. Len(allTags) /\ allTags'[i] = allTags[i]
          \/ /\ i - Len(allTags) \in 1 .. Len(tags)
             /\ allTags'[i] = tags[i - Len(allTags)]
  <2> SUFFICES ASSUME NEW i \in 1 .. Len(allTags) + Len(tags), ~ (i <= Len(allTags))
               PROVE  /\ i - Len(allTags) \in 1 .. Len(tags)
                      /\ allTags'[i] = tags[i - Len(allTags)]
    BY <1>8
  <2>1. i - Len(allTags) \in 1 .. Len(tags) /\ Len(allTags) + (i - Len(allTags)) = i
    BY <1>8
  <2> QED
    BY <1>8, <2>1
<1>10. \A n \in 1 .. Len(tags) : tags[n] \in Page(page) /\ tags[n] \in final
  BY <1>3, <1>8
<1>11. ListedIsFinal'
  <2> SUFFICES ASSUME ~ Withdrawn, NEW i \in DOMAIN allTags'
               PROVE  allTags'[i] \in final
    BY <1>6 DEF ListedIsFinal, Withdrawn
  <2> QED
    BY <1>8, <1>9, <1>10 DEF Listing, ListedIsFinal
<1>12. NotLate'
  <2> SUFFICES ASSUME ~ Withdrawn, NEW i \in DOMAIN allTags', NEW x \in always,
                      x > allTags'[i]
               PROVE  \E k \in 1 .. i - 1 : allTags'[k] = x
    BY <1>6 DEF NotLate, Withdrawn
  <2>1. CASE i \in 1 .. Len(allTags) /\ allTags'[i] = allTags[i]
    <3>1. PICK k \in 1 .. i - 1 : allTags[k] = x
      BY <1>8, <2>1 DEF Listing, NotLate
    <3>2. k \in 1 .. Len(allTags)
      BY <1>8, <2>1
    <3> QED
      BY <1>8, <3>1, <3>2
  <2>2. CASE /\ i - Len(allTags) \in 1 .. Len(tags)
             /\ allTags'[i] = tags[i - Len(allTags)]
    <3> DEFINE n == i - Len(allTags)
    <3>1. n \in 1 .. Len(tags) /\ tags[n] \in upstream /\ Rank(tags[n]) <= Got + PerPage
      BY <1>3, <1>10, <2>2
    <3>2. x \in upstream /\ x \in final /\ tags[n] < x
      <4>1. x \in upstream /\ x \in final
        BY <1>5
      <4>2. x \in Nat /\ tags[n] \in Nat
        BY <1>3, <3>1, <4>1
      <4> QED
        BY <2>2, <4>1, <4>2
    <3>3. Rank(x) < Rank(tags[n])
      BY <1>5, <3>1, <3>2, RankFacts
    <3>4. Rank(x) \in Nat /\ Rank(tags[n]) \in Nat
      BY <1>3, <3>1, <3>2
    <3>5. CASE Rank(x) <= Got
      <4>1. x \in ToSet(allTags)
        BY <1>1, <3>5 DEF SoFar, Missed, Withdrawn
      <4>2. PICK k \in 1 .. Len(allTags) : allTags[k] = x
        BY <1>8, <4>1 DEF ToSet
      <4>3. k \in 1 .. i - 1
        BY <1>8, <3>1
      <4> QED
        BY <1>8, <4>2, <4>3
    <3>6. CASE ~ (Rank(x) <= Got)
      <4>1. x \in Page(page) \cap final
        BY <1>3, <3>1, <3>2, <3>3, <3>4, <3>6, ListingAssumption
      <4>2. PICK m \in 1 .. Len(tags) : tags[m] = x
        BY <1>3, <1>8, <4>1 DEF ToSet
      <4>3. ~ (n < m) /\ n # m
        <5>1. n < m => tags[n] > tags[m]
          BY <1>3, <1>8, <3>1, <4>2 DEF Falling
        <5>2. tags[n] \in Nat /\ x \in Nat
          BY <1>3, <3>1, <3>2
        <5> QED
          BY <3>2, <4>2, <5>1, <5>2
      <4>4. Len(allTags) + m \in 1 .. i - 1
        BY <1>8, <3>1, <4>2, <4>3
      <4> QED
        BY <1>8, <4>2, <4>4
    <3> QED
      BY <3>5, <3>6
  <2> QED
    BY <1>9, <2>1, <2>2
<1> QED
  BY <1>2, <1>11, <1>12 DEF Listing

\* After the last page the list is complete.
LEMMA CompleteWhenDone ==
    ASSUME Listing', UNCHANGED github,
           \A x \in upstream : Rank(x) <= Cap => Rank(x) <= Got',
           Quiet => \A x \in upstream : Rank(x) <= Got' => Rank(x) <= Cap
    PROVE  Complete' /\ InReach'
<1>1. UNCHANGED << upstream, final, latest, always, sometime, edits >>
  BY DEF github
<1>2. \A x : Rank(x)' = Rank(x)
  BY <1>1 DEF Rank
<1>3. final \subseteq upstream /\ always \subseteq upstream
  BY <1>1 DEF Listing, ListingType
<1>4. Complete'
  <2> SUFFICES ASSUME ~ Withdrawn, NEW x \in always, Rank(x) <= Cap
               PROVE  x \in ToSet(allTags')
    BY <1>1, <1>2 DEF Complete, Withdrawn
  <2>1. Rank(x)' <= Got'
    BY <1>2, <1>3
  <2>2. Missed'
    BY DEF Listing, SoFar
  <2> QED
    BY <1>1, <2>1, <2>2 DEF Missed, Withdrawn
<1>5. InReach'
  <2> SUFFICES ASSUME Quiet, NEW i \in DOMAIN allTags'
               PROVE  Rank(allTags'[i]) <= Cap
    BY <1>1, <1>2 DEF InReach, Quiet
  <2> DEFINE S == { x \in final : Rank(x) <= Got' }
  <2>1. allTags' = NewestFirst(S)
    BY <1>1, <1>2 DEF Listing, SoFar, Exact, Quiet
  <2>2. latest \in Nat /\ S \subseteq 1 .. latest
    BY <1>1 DEF Listing, ListingType, UpstreamType
  <2>3. allTags'[i] \in S
    <3> HIDE DEF S
    <3>1. ToSet(allTags') = S
      BY <2>1, <2>2, NewestFirstFacts
    <3> QED
      BY <3>1 DEF ToSet
  <2> QED
    BY <1>3, <2>3
<1> QED
  BY <1>4, <1>5

LEMMA ToolsInvInit == CRIToolsInit => ToolsInv
<1> SUFFICES ASSUME CRIToolsInit
             PROVE  ToolsInv
  OBVIOUS
<1>1. Init /\ asked = 1 /\ chosen = << >>
  BY DEF CRIToolsInit
<1>2. pc = "page" /\ allTags = << >>
  BY <1>1 DEF Init
<1>3. Listing /\ Listed
  BY <1>1, <1>2, ListInvInit DEF ListInv, Listing, Listed, NotLate, ListedIsFinal
<1>4. Chosen
  <2>1. Len(chosen) = 0 /\ DOMAIN chosen = {} /\ chosen \in Seq(sometime)
    BY <1>1
  <2> QED
    BY <1>1, <2>1, CRIToolsAssumption
       DEF Chosen, ChosenType, ChosenIsThere, CrictlTracksMinor, ChosenIsBest,
           LaterIsNoWorse
<1> QED
  BY <1>3, <1>4 DEF ToolsInv

\* The requests of a lookup and the end of one without releases.
LEMMA ToolsInvClient ==
    ASSUME ToolsInv, UNCHANGED << github, asked, chosen >>,
           Listing', Listed', pc = "done" => pc' = "done" \/ Len(chosen) < asked
    PROVE  ToolsInv'
<1>1. UNCHANGED << upstream, final, latest, always, sometime, edits, asked, chosen >>
  BY DEF github
<1>2. \A x : Rank(x)' = Rank(x)
  BY <1>1 DEF Rank
<1>3. ChosenType'
  <2>1. ChosenType
    BY DEF ToolsInv, Chosen
  <2> QED
    BY <1>1, <2>1 DEF ChosenType
<1>4. ChosenIsThere' /\ CrictlTracksMinor' /\ ChosenIsBest' /\ LaterIsNoWorse'
  BY <1>1, <1>2 DEF ToolsInv, Chosen, ChosenIsThere, CrictlTracksMinor, ChosenIsBest,
                    LaterIsNoWorse, Withdrawn, Quiet
<1> QED
  BY <1>3, <1>4 DEF ToolsInv, Chosen

LEMMA ToolsInvChoose == ToolsInv /\ Choose => ToolsInv'
<1> SUFFICES ASSUME ToolsInv, Choose
             PROVE  ToolsInv'
  OBVIOUS
<1> DEFINE c == latestCRIToolsForK8s(allTags)
<1>1. /\ UNCHANGED << upstream, final, latest, always, sometime, edits >>
      /\ UNCHANGED << pc, page, allTags, asked >>
      /\ pc = "done" /\ allTags # << >> /\ Len(chosen) < asked
      /\ chosen' = Append(chosen, c)
  BY DEF Choose, github, client
<1>2. \A x : Rank(x)' = Rank(x)
  BY <1>1 DEF Rank
<1>3. Listing' /\ Listed'
  <2>1. Got' = Got
    BY <1>1 DEF Got
  <2>2. ListingType' /\ ClientType' /\ SoFar'
    BY <1>1, <1>2, <2>1 DEF ToolsInv, Listing, ListingType, UpstreamType, ClientType,
           SoFar, Missed, Exact, NoGap, NewestFirstUnlessAgain
  <2>3. NotLate' /\ ListedIsFinal' /\ Listed'
    BY <1>1, <1>2 DEF ToolsInv, Listing, Listed, NotLate, ListedIsFinal, Complete,
                      InReach, Withdrawn, Quiet
  <2> QED
    BY <2>2, <2>3 DEF Listing
<1>4. /\ \E i \in DOMAIN allTags : c = allTags[i]
      /\ ~ Withdrawn => \A x \in always : x \in ToSet(allTags) => NoWorse(c, x)
  <2> HIDE DEF c
  <2> QED
    BY <1>1, ChoiceIs DEF ToolsInv, c
<1>5. Complete /\ InReach /\ ListedIsFinal
  BY <1>1 DEF ToolsInv, Listed, Listing
<1> HIDE DEF c
<1>6. /\ ~ Withdrawn => c \in final
      /\ Quiet => Rank(c) <= Cap
      /\ c \in sometime
  <2>1. PICK i \in DOMAIN allTags : c = allTags[i]
    BY <1>4
  <2>2. allTags[i] \in sometime
    BY DEF ToolsInv, Listing, ClientType
  <2> QED
    BY <1>5, <2>1, <2>2 DEF ListedIsFinal, InReach
<1>7. ~ Withdrawn => \A x \in always : Rank(x) <= Cap => NoWorse(c, x)
  BY <1>4, <1>5 DEF Complete
<1>8. /\ chosen \in Seq(sometime) /\ Len(chosen) = asked - 1 /\ asked \in 1 .. Lookups
      /\ Lookups \in Nat
  BY <1>1, CRIToolsAssumption DEF ToolsInv, Chosen, ChosenType
<1>9. /\ chosen' \in Seq(sometime) /\ Len(chosen') = asked
      /\ DOMAIN chosen = 1 .. asked - 1 /\ DOMAIN chosen' = 1 .. asked
      /\ chosen'[asked] = c
      /\ \A i \in 1 .. asked - 1 : chosen'[i] = chosen[i]
  BY <1>1, <1>6, <1>8
<1>10. ChosenType'
  BY <1>1, <1>8, <1>9 DEF ChosenType
<1>11. ChosenIsThere'
  <2> SUFFICES ASSUME ~ Withdrawn, NEW i \in 1 .. asked
               PROVE  chosen'[i] \in final /\ (i < asked => chosen'[i] \in always)
    BY <1>1, <1>9 DEF ChosenIsThere, Withdrawn
  <2>1. CASE i = asked
    BY <1>6, <1>9, <2>1
  <2>2. CASE i # asked
    <3>1. i \in 1 .. asked - 1
      BY <1>8, <2>2
    <3> QED
      BY <1>9, <3>1 DEF ToolsInv, Chosen, ChosenIsThere
  <2> QED
    BY <2>1, <2>2
<1>12. CrictlTracksMinor'
  BY <1>1, <1>2, <1>7, <1>9 DEF CrictlTracksMinor, Withdrawn
<1>13. ChosenIsBest'
  <2> SUFFICES ASSUME Quiet, NEW i \in 1 .. asked
               PROVE  /\ Rank(chosen'[i]) <= Cap
                      /\ \A x \in final : Rank(x) <= Cap => NoWorse(chosen'[i], x)
    BY <1>1, <1>2, <1>9 DEF ChosenIsBest, Quiet
  <2>1. CASE i = asked
    <3>1. ~ Withdrawn
      BY DEF Quiet, Withdrawn
    <3>2. \A x \in final : x \in always
      <4>1. \A x \in final : x \in 1 .. latest
        BY DEF ToolsInv, Listing, ListingType, UpstreamType
      <4>2. \A x \in final : x <= AtStart
        BY <4>1 DEF Quiet
      <4> QED
        BY <4>2 DEF Quiet, ToolsInv, Listing, ListingType
    <3> QED
      BY <1>6, <1>7, <1>9, <2>1, <3>1, <3>2
  <2>2. CASE i # asked
    <3>1. i \in 1 .. asked - 1
      BY <1>8, <2>2
    <3> QED
      BY <1>9, <3>1 DEF ToolsInv, Chosen, ChosenIsBest
  <2> QED
    BY <2>1, <2>2
<1>14. LaterIsNoWorse'
  <2> SUFFICES ASSUME ~ Withdrawn, NEW k \in 1 .. asked, NEW i \in 1 .. k - 1,
                      Rank(chosen'[i]) <= Cap
               PROVE  NoWorse(chosen'[k], chosen'[i])
    BY <1>1, <1>2, <1>9 DEF LaterIsNoWorse, Withdrawn
  <2>1. i \in 1 .. asked - 1 /\ chosen'[i] = chosen[i]
    BY <1>8, <1>9
  <2>2. CASE k = asked
    <3>1. chosen[i] \in always
      BY <1>8, <1>9, <2>1 DEF ToolsInv, Chosen, ChosenIsThere
    <3> QED
      BY <1>7, <1>9, <2>1, <2>2, <3>1
  <2>3. CASE k # asked
    <3>1. k \in 1 .. asked - 1 /\ chosen'[k] = chosen[k]
      BY <1>8, <1>9, <2>3
    <3> QED
      BY <1>9, <2>1, <3>1 DEF ToolsInv, Chosen, LaterIsNoWorse
  <2> QED
    BY <2>2, <2>3
<1> QED
  BY <1>3, <1>10, <1>11, <1>12, <1>13, <1>14 DEF ToolsInv, Chosen

LEMMA ToolsInvNextLookup == ToolsInv /\ NextLookup => ToolsInv'
<1> SUFFICES ASSUME ToolsInv, NextLookup
             PROVE  ToolsInv'
  OBVIOUS
<1>1. /\ UNCHANGED << upstream, final, latest, sometime, edits, chosen >>
      /\ always' = final
      /\ pc' = "page" /\ page' = 1 /\ allTags' = << >>
      /\ Len(chosen) = asked /\ asked < Lookups /\ asked' = asked + 1
  BY DEF NextLookup
<1>2. \A x : Rank(x)' = Rank(x)
  BY <1>1 DEF Rank
<1>3. ListingType'
  BY <1>1 DEF ToolsInv, Listing, ListingType, UpstreamType
<1>4. SoFar'
  <2>1. (ListingType /\ page = 1 /\ allTags = << >> => SoFar)'
    BY NothingYet, PTL
  <2> QED
    BY <1>1, <1>3, <2>1
<1>5. ClientType'
  <2>1. Got' = 0
    BY <1>1, ListingAssumption DEF Got
  <2> QED
    BY <1>1, <2>1, ListingAssumption DEF ClientType
<1>6. Listing' /\ Listed'
  BY <1>1, <1>3, <1>4, <1>5 DEF Listing, Listed, NotLate, ListedIsFinal
<1>7. /\ chosen \in Seq(sometime) /\ asked \in 1 .. Lookups /\ Lookups \in Nat
      /\ DOMAIN chosen = 1 .. asked
  BY <1>1, CRIToolsAssumption DEF ToolsInv, Chosen, ChosenType
<1>8. ChosenType' /\ Len(chosen') # asked'
  BY <1>1, <1>7 DEF ChosenType
<1>9. ChosenIsThere' /\ CrictlTracksMinor'
  BY <1>1, <1>7, <1>8
     DEF ToolsInv, Chosen, ChosenIsThere, CrictlTracksMinor, Withdrawn
<1>10. ChosenIsBest' /\ LaterIsNoWorse'
  BY <1>1, <1>2 DEF ToolsInv, Chosen, ChosenIsBest, LaterIsNoWorse, Withdrawn, Quiet
<1> QED
  BY <1>6, <1>8, <1>9, <1>10 DEF ToolsInv, Chosen

LEMMA ToolsInvChanges ==
    ToolsInv /\ GitHubChanges /\ UNCHANGED << client, asked, chosen >> => ToolsInv'
<1> SUFFICES ASSUME ToolsInv, GitHubChanges, UNCHANGED << client, asked, chosen >>
             PROVE  ToolsInv'
  OBVIOUS
<1>1. UNCHANGED << pc, page, allTags, asked, chosen >>
  BY DEF client
<1>2. ListingType' /\ ClientType' /\ SoFar' /\ sometime \subseteq sometime'
  BY ChangesKeep DEF ToolsInv, Listing
<1>3. /\ ~ Quiet'
      /\ ~ Withdrawn' =>
             /\ ~ Withdrawn
             /\ always' = always /\ final \subseteq final'
             /\ \A x \in upstream :
                    Rank(x) \in Nat /\ Rank(x)' \in Nat /\ Rank(x) <= Rank(x)'
  BY <1>2, ChangesMoveDown DEF ToolsInv, Listing
<1>4. Cap \in Nat /\ always \subseteq upstream /\ final \subseteq upstream
  BY ListingAssumption DEF Cap, ToolsInv, Listing, ListingType
<1>5. NotLate' /\ ListedIsFinal'
  BY <1>1, <1>3 DEF ToolsInv, Listing, NotLate, ListedIsFinal
<1>6. Listed'
  <2>1. ASSUME pc = "done", ~ Withdrawn', NEW x \in always', Rank(x)' <= Cap
        PROVE  x \in ToSet(allTags)
    <3>1. Rank(x) <= Cap /\ x \in always /\ ~ Withdrawn
      BY <1>3, <1>4, <2>1
    <3> QED
      BY <2>1, <3>1 DEF ToolsInv, Listed, Complete
  <2> QED
    BY <1>1, <1>3, <2>1 DEF Listed, Complete, InReach
<1>7. ChosenType'
  <2>1. chosen \in Seq(sometime')
    BY <1>2 DEF ToolsInv, Chosen, ChosenType
  <2> QED
    BY <1>1, <2>1 DEF ToolsInv, Chosen, ChosenType
<1>8. ChosenIsThere'
  BY <1>1, <1>3 DEF ToolsInv, Chosen, ChosenIsThere
<1>9. CrictlTracksMinor'
  <2> SUFFICES ASSUME Len(chosen) = asked, ~ Withdrawn', NEW x \in always', Rank(x)' <= Cap
               PROVE  NoWorse(chosen[asked], x)
    BY <1>1 DEF CrictlTracksMinor
  <2>1. Rank(x) <= Cap /\ x \in always /\ ~ Withdrawn
    BY <1>3, <1>4
  <2> QED
    BY <2>1 DEF ToolsInv, Chosen, CrictlTracksMinor
<1>10. LaterIsNoWorse'
  <2> SUFFICES ASSUME ~ Withdrawn', NEW k \in DOMAIN chosen, NEW i \in 1 .. k - 1,
                      NEW x, x = chosen[i], Rank(x)' <= Cap
               PROVE  NoWorse(chosen[k], chosen[i])
    <3>1. ASSUME ~ Withdrawn', NEW k \in DOMAIN chosen', NEW i \in 1 .. k - 1,
                 Rank(chosen[i])' <= Cap
          PROVE  NoWorse(chosen[k], chosen[i])'
      <4>1. chosen' = chosen
        BY <1>1
      <4>2. Rank(chosen[i])' = Cardinality({ y \in upstream' : y >= chosen'[i] })
        BY DEF Rank
      <4>3. Rank(chosen[i])' = Cardinality({ y \in upstream' : y >= chosen[i] })
        BY <4>1, <4>2
      <4>4. PICK z : z = chosen[i]
        OBVIOUS
      <4>5. Rank(z)' <= Cap
        BY <3>1, <4>3, <4>4 DEF Rank
      <4>6. NoWorse(chosen[k], chosen[i])
        BY <3>1, <4>1, <4>4, <4>5
      <4> QED
        BY <4>1, <4>6 DEF NoWorse
    <3> QED
      BY <3>1 DEF LaterIsNoWorse
  <2>1. i \in DOMAIN chosen
    <3>1. DOMAIN chosen = 1 .. Len(chosen) /\ Len(chosen) \in Nat
      BY DEF ToolsInv, Chosen, ChosenType
    <3> QED
      BY <3>1
  <2>2. ~ Withdrawn /\ chosen[i] \in final
    BY <1>3, <2>1 DEF ToolsInv, Chosen, ChosenIsThere
  <2>3. Rank(x) <= Cap
    BY <1>3, <1>4, <2>2
  <2> QED
    BY <2>2, <2>3 DEF ToolsInv, Chosen, LaterIsNoWorse
<1> QED
  BY <1>2, <1>3, <1>5, <1>6, <1>7, <1>8, <1>9, <1>10
     DEF ToolsInv, Listing, Chosen, ChosenIsBest

LEMMA ToolsInvNext == ToolsInv /\ [CRIToolsNext]_toolsVars => ToolsInv'
<1> SUFFICES ASSUME ToolsInv, [CRIToolsNext]_toolsVars
             PROVE  ToolsInv'
  OBVIOUS
<1>1. CASE GetPage /\ UNCHANGED << asked, chosen >>
  <2>1. Listing' /\ Got' = PerPage * page
    BY <1>1, ListingGetPage DEF ToolsInv
  <2>2. UNCHANGED github /\ pc = "page"
    BY <1>1 DEF GetPage
  <2>3. Listed'
    <3> SUFFICES ASSUME pc' = "done"
                 PROVE  Complete' /\ InReach'
      BY DEF Listed
    <3>1. page = MaxPages /\ page \in Nat \ {0}
      BY <1>1, <2>2, ListingAssumption
         DEF GetPage, LastPage, ToolsInv, Listing, ClientType
    <3>2. Got' = Cap
      BY <2>1, <3>1 DEF Cap
    <3> QED
      BY <2>1, <2>2, <3>2, CompleteWhenDone
  <2> QED
    BY <1>1, <2>1, <2>2, <2>3, ToolsInvClient
<1>2. CASE (GetEmptyPage \/ GetPageFails \/ NoReleases) /\ UNCHANGED << asked, chosen >>
  <2>1. /\ UNCHANGED << github, page, allTags >> /\ pc' \in {"done", "failed"}
        /\ UNCHANGED << upstream, final, latest, always, sometime, edits >>
        /\ pc = "done" => Len(chosen) < asked
    BY <1>2 DEF GetEmptyPage, GetPageFails, NoReleases, github
  <2>2. Got' = Got /\ \A x : Rank(x)' = Rank(x)
    BY <2>1 DEF Got, Rank
  <2>3. ListingType' /\ ClientType' /\ SoFar'
    BY <2>1, <2>2 DEF ToolsInv, Listing, ListingType, UpstreamType, ClientType,
           SoFar, Missed, Exact, NoGap, NewestFirstUnlessAgain
  <2>4. Listing'
    BY <2>1, <2>3 DEF ToolsInv, Listing, NotLate, ListedIsFinal, Withdrawn
  <2>5. Listed'
    <3> SUFFICES ASSUME pc' = "done"
                 PROVE  Complete' /\ InReach'
      BY DEF Listed
    <3>1. pc = "page" /\ Page(page) = {}
      BY <1>2 DEF GetEmptyPage, GetPageFails, NoReleases
    <3>2. \A x \in upstream : Rank(x) <= Cap <=> Rank(x) <= Got
      BY <3>1, NothingBehind DEF ToolsInv, Listing, ListInv
    <3> QED
      BY <2>1, <2>2, <2>4, <3>2, CompleteWhenDone
  <2> QED
    BY <1>2, <2>1, <2>4, <2>5, ToolsInvClient
<1>3. CASE Choose \/ NextLookup
  BY <1>3, ToolsInvChoose, ToolsInvNextLookup
<1>4. CASE GitHubChanges /\ UNCHANGED << client, asked, chosen >>
  BY <1>4, ToolsInvChanges
<1>5. CASE UNCHANGED toolsVars
  <2>1. /\ UNCHANGED << upstream, final, latest, always, sometime, edits >>
        /\ UNCHANGED << pc, page, allTags, asked, chosen, github >>
    BY <1>5 DEF toolsVars, vars, client, github
  <2>2. Got' = Got /\ \A x : Rank(x)' = Rank(x)
    BY <2>1 DEF Got, Rank
  <2>3. ListingType' /\ ClientType' /\ SoFar'
    BY <2>1, <2>2 DEF ToolsInv, Listing, ListingType, UpstreamType, ClientType,
           SoFar, Missed, Exact, NoGap, NewestFirstUnlessAgain
  <2>4. Listing' /\ Listed'
    BY <2>1, <2>2, <2>3 DEF ToolsInv, Listing, Listed, NotLate, ListedIsFinal,
           Complete, InReach, Withdrawn, Quiet
  <2> QED
    BY <2>1, <2>4, ToolsInvClient
<1>6. NoReleases => UNCHANGED << asked, chosen >>
  BY DEF NoReleases
<1> QED
  BY <1>1, <1>2, <1>3, <1>4, <1>5, <1>6 DEF CRIToolsNext, List

LEMMA ToolsInvAlways == CRIToolsSpec => []ToolsInv
BY ToolsInvInit, ToolsInvNext, PTL DEF CRIToolsSpec

\* Types; one choice for each lookup but the one that is under way.
THEOREM CRIToolsTypes == CRIToolsSpec => []CRIToolsTypeOK
<1>1. ToolsInv => CRIToolsTypeOK
  <2> SUFFICES ASSUME ToolsInv
               PROVE  CRIToolsTypeOK
    OBVIOUS
  <2>1. TypeOK
    BY DEF ToolsInv, Listing, ListingType, UpstreamType, ClientType, TypeOK, Got
  <2> QED
    BY <2>1 DEF ToolsInv, Chosen, ChosenType, CRIToolsTypeOK
<1> QED
  BY <1>1, ToolsInvAlways, PTL

\* latestCRIToolsForK8s, for every page size, number of pages and number of
\* releases, whichever of them are of the minor version: no release among the
\* newest Cap that was there all the time is a better answer, unless one was
\* withdrawn.
THEOREM CRIToolsCrictlTracksMinor == CRIToolsSpec => []CrictlTracksMinor
BY ToolsInvAlways, PTL DEF ToolsInv, Chosen

\* The lookups of one invocation, for every number of architectures: the same
\* answer if nothing happens, and no worse one later if something does.
THEOREM CRIToolsImagesAgree == CRIToolsSpec => []ImagesAgreeOnCrictl
<1>1. ToolsInv => ImagesAgreeOnCrictl
  <2> SUFFICES ASSUME ToolsInv, NEW k \in DOMAIN chosen, NEW i \in 1 .. k - 1
               PROVE  /\ ~ Withdrawn /\ Rank(chosen[i]) <= Cap =>
                             NoWorse(chosen[k], chosen[i])
                      /\ Quiet => chosen[k] = chosen[i]
    BY DEF ImagesAgreeOnCrictl, Quiet
  <2>1. ~ Withdrawn /\ Rank(chosen[i]) <= Cap => NoWorse(chosen[k], chosen[i])
    BY DEF ToolsInv, Chosen, LaterIsNoWorse
  <2>2. ASSUME Quiet
        PROVE  chosen[k] = chosen[i]
    <3>1. ~ Withdrawn
      BY <2>2 DEF Quiet, Withdrawn
    <3>2. i \in DOMAIN chosen
      <4>1. DOMAIN chosen = 1 .. Len(chosen) /\ Len(chosen) \in Nat
        BY DEF ToolsInv, Chosen, ChosenType
      <4> QED
        BY <4>1
    <3>3. chosen[k] \in final /\ chosen[i] \in final
      BY <3>1, <3>2 DEF ToolsInv, Chosen, ChosenIsThere
    <3>4. NoWorse(chosen[k], chosen[i]) /\ NoWorse(chosen[i], chosen[k])
      BY <2>2, <3>2, <3>3 DEF ToolsInv, Chosen, ChosenIsBest
    <3>5. chosen[k] \in Nat /\ chosen[i] \in Nat
      <4>1. \A x \in final : x \in Nat
        BY DEF ToolsInv, Listing, ListingType, UpstreamType
      <4> QED
        BY <3>3, <4>1
    <3> QED
      BY <3>4, <3>5 DEF NoWorse
  <2> QED
    BY <2>1, <2>2
<1> QED
  BY <1>1, ToolsInvAlways, PTL

-----------------------------------------------------------------------------
(* The order of versions *)

\* Dividing by one power of ten after another.
LEMMA NumberIsNat ==
    ASSUME NEW n \in Numbers
    PROVE  n \in Nat /\ n < 100000
BY DEF Numbers

LEMMA Quotients ==
    ASSUME NEW n \in Numbers
    PROVE  /\ n \div 10000 \in 0 .. 9
           /\ n \div 1000 \in Nat /\ (n \div 1000) \div 10 = n \div 10000
           /\ n \div 100 \in Nat /\ (n \div 100) \div 10 = n \div 1000
           /\ n \div 10 \in Nat /\ (n \div 10) \div 10 = n \div 100
           /\ n \div 1 = n
<1>1. n \in Nat /\ n < 100000
  BY NumberIsNat
<1>2. n \div 10000 \in 0 .. 9
  BY <1>1
<1>3. n \div 1000 \in Nat /\ (n \div 1000) \div 10 = n \div 10000
  BY <1>1
<1>4. n \div 100 \in Nat /\ (n \div 100) \div 10 = n \div 1000
  BY <1>1
<1>5. n \div 10 \in Nat /\ (n \div 10) \div 10 = n \div 100
  BY <1>1
<1>6. n \div 1 = n
  BY <1>1
<1> QED
  BY <1>2, <1>3, <1>4, <1>5, <1>6

LEMMA QuotientsGrow ==
    ASSUME NEW n \in Numbers, NEW m \in Numbers, n < m
    PROVE  /\ n \div 10000 <= m \div 10000
           /\ n \div 1000 <= m \div 1000
           /\ n \div 100 <= m \div 100
           /\ n \div 10 <= m \div 10
BY DEF Numbers

\* The last digits of two numbers that begin alike.
LEMMA LastDigit ==
    ASSUME NEW q \in Nat, NEW r \in Nat, q < r, q \div 10 = r \div 10
    PROVE  q % 10 < r % 10
OBVIOUS

Pads == {Space, Zero}

\* The digit that differs first decides.
LEMMA PaddedLess ==
    ASSUME NEW n \in Numbers, NEW m \in Numbers, n < m, NEW p \in Pads
    PROVE  \E i \in 1 .. 5 :
               /\ Padded(n, i, p) < Padded(m, i, p)
               /\ \A k \in 1 .. i - 1 : Padded(n, k, p) = Padded(m, k, p)
<1>0. n \in Nat /\ m \in Nat
  BY NumberIsNat
<1> DEFINE q(i) == n \div Power[i]
           r(i) == m \div Power[i]
           Char(x, i) == IF x = 0 /\ i < 5 THEN p ELSE Zero + (x % 10)
<1>1. /\ \A i \in 1 .. 5 : q(i) \in Nat /\ r(i) \in Nat /\ q(i) <= r(i)
      /\ \A i \in 2 .. 5 : q(i) \div 10 = q(i - 1) /\ r(i) \div 10 = r(i - 1)
      /\ q(1) < 10 /\ r(1) < 10 /\ q(5) < r(5)
  <2>1. /\ q(1) = n \div 10000 /\ q(2) = n \div 1000 /\ q(3) = n \div 100
        /\ q(4) = n \div 10 /\ q(5) = n
    BY Quotients DEF Power
  <2>2. /\ r(1) = m \div 10000 /\ r(2) = m \div 1000 /\ r(3) = m \div 100
        /\ r(4) = m \div 10 /\ r(5) = m
    BY Quotients DEF Power
  <2> HIDE DEF q, r
  <2>4. \A i \in 1 .. 5 : i = 1 \/ i = 2 \/ i = 3 \/ i = 4 \/ i = 5
    OBVIOUS
  <2>5. \A i \in 1 .. 5 : q(i) \in Nat /\ r(i) \in Nat /\ q(i) <= r(i)
    BY <2>1, <2>2, <1>0, <2>4, Quotients, QuotientsGrow
  <2>6. \A i \in 2 .. 5 : q(i) \div 10 = q(i - 1) /\ r(i) \div 10 = r(i - 1)
    BY <2>1, <2>2, <2>4, Quotients
  <2> QED
    BY <2>1, <2>2, <1>0, <2>5, <2>6, Quotients
<1>2. \A i \in 1 .. 5 : Padded(n, i, p) = Char(q(i), i) /\ Padded(m, i, p) = Char(r(i), i)
  BY DEF Padded
<1>3. ASSUME NEW i \in 1 .. 5, q(i) # r(i), \A k \in 1 .. i - 1 : q(k) = r(k)
      PROVE  Char(q(i), i) < Char(r(i), i)
  <2> DEFINE x == q(i)
             y == r(i)
  <2>1. x \in Nat /\ y \in Nat /\ x < y
    BY <1>1, <1>3
  <2>2. x % 10 < y % 10
    <3>1. CASE i = 1
      <4>1. x < 10 /\ y < 10
        BY <1>1, <3>1
      <4> HIDE DEF x, y
      <4> QED
        BY <2>1, <4>1
    <3>2. CASE i # 1
      <4>1. x \div 10 = y \div 10
        BY <1>1, <1>3, <3>2
      <4> HIDE DEF x, y
      <4> QED
        BY <2>1, <4>1, LastDigit
    <3> QED
      BY <3>1, <3>2
  <2> HIDE DEF x, y
  <2>3. Char(x, i) < Char(y, i)
    <3>1. x % 10 \in Nat /\ y % 10 \in Nat /\ y # 0
      BY <2>1
    <3>2. p <= Zero /\ p \in Nat
      BY DEF Pads, Space, Zero
    <3> QED
      BY <2>2, <3>1, <3>2 DEF Zero
  <2> QED
    BY <2>3 DEF x, y
<1>4. PICK i \in 1 .. 5 : q(i) # r(i) /\ \A k \in 1 .. i - 1 : q(k) = r(k)
  <2>1. q(5) # r(5)
    BY <1>1
  <2> HIDE DEF q, r
  <2> QED
    BY <2>1
<1> HIDE DEF q, r
<1>5. \A k \in 1 .. i - 1 : Char(q(k), k) = Char(r(k), k)
  BY <1>4
<1> QED
  BY <1>2, <1>3, <1>4, <1>5

-----------------------------------------------------------------------------

\* Every character of a tuple.
LEMMA TupleChar ==
    ASSUME NEW v \in Version, NEW p \in Pads, NEW g \in 1 .. 3, NEW i \in 1 .. 5
    PROVE  /\ 6 * (g - 1) + i \in 1 .. 17
           /\ semverTuple(v, p)[6 * (g - 1) + i] = Padded(v[g], i, p)
<1> DEFINE j == 6 * (g - 1) + i
<1>1. j \in 1 .. 17 /\ j % 6 = i /\ j \div 6 = g - 1
  OBVIOUS
<1> HIDE DEF j
<1>2. 1 + (j \div 6) = g /\ i # 0
  BY <1>1
<1>3. semverTuple(v, p)[j] = Padded(v[g], i, p)
  BY <1>1, <1>2 DEF semverTuple
<1> QED
  BY <1>1, <1>3 DEF j

\* The numbers that differ first decide.
LEMMA TupleLess ==
    ASSUME NEW a \in Version, NEW b \in Version, NEW p \in Pads, NEW g \in 1 .. 3,
           a[g] < b[g], \A h \in 1 .. g - 1 : a[h] = b[h]
    PROVE  semverLess(a, b, p)
<1>1. a[g] \in Numbers /\ b[g] \in Numbers
  BY DEF Version
<1>2. PICK i \in 1 .. 5 :
          /\ Padded(a[g], i, p) < Padded(b[g], i, p)
          /\ \A k \in 1 .. i - 1 : Padded(a[g], k, p) = Padded(b[g], k, p)
  BY <1>1, PaddedLess
<1> DEFINE j == 6 * (g - 1) + i
<1>3. j \in 1 .. 17 /\ semverTuple(a, p)[j] < semverTuple(b, p)[j]
  BY <1>2, TupleChar
<1>4. ASSUME NEW k \in 1 .. j - 1
      PROVE  semverTuple(a, p)[k] = semverTuple(b, p)[k]
  <2>1. k \in 1 .. 17
    BY <1>3
  <2>2. CASE k % 6 = 0
    BY <2>1, <2>2 DEF semverTuple
  <2>3. CASE k % 6 # 0
    <3>1. PICK h \in 1 .. 3, c \in 1 .. 5 : k = 6 * (h - 1) + c
      <4>1. 1 + (k \div 6) \in 1 .. 3 /\ k % 6 \in 1 .. 5 /\ k = (6 * (k \div 6)) + (k % 6)
        BY <2>1, <2>3
      <4> QED
        BY <4>1
    <3>2. h < g \/ (h = g /\ c < i)
      BY <3>1
    <3>3. Padded(a[h], c, p) = Padded(b[h], c, p)
      BY <3>2, <1>2
    <3> QED
      BY <3>1, <3>3, TupleChar
  <2> QED
    BY <2>2, <2>3
<1> HIDE DEF j
<1> QED
  BY <1>3, <1>4 DEF semverLess, StringLess

LEMMA OlderIsLess ==
    ASSUME NEW a \in Version, NEW b \in Version, NEW p \in Pads, Older(a, b)
    PROVE  semverLess(a, b, p)
<1>1. PICK g \in 1 .. 3 : a[g] < b[g] /\ \A h \in 1 .. g - 1 : a[h] = b[h]
  <2>1. CASE a[1] < b[1]
    <3>1. \A h \in 1 .. 1 - 1 : a[h] = b[h]
      OBVIOUS
    <3> QED
      BY <2>1, <3>1
  <2>2. CASE a[1] = b[1] /\ a[2] < b[2]
    <3>1. \A h \in 1 .. 2 - 1 : a[h] = b[h]
      BY <2>2
    <3> QED
      BY <2>2, <3>1
  <2>3. CASE a[1] = b[1] /\ a[2] = b[2] /\ a[3] < b[3]
    <3>1. \A h \in 1 .. 3 - 1 : a[h] = b[h]
      BY <2>3
    <3> QED
      BY <2>3, <3>1
  <2> QED
    BY <2>1, <2>2, <2>3 DEF Older
<1> QED
  BY <1>1, TupleLess

LEMMA CharIsNumber ==
    ASSUME NEW v \in Version, NEW p \in Pads, NEW j \in 1 .. 17
    PROVE  semverTuple(v, p)[j] \in Int
<1>1. p \in Int
  BY DEF Pads, Space, Zero
<1>2. CASE j % 6 = 0
  BY <1>2 DEF semverTuple, Dot
<1>3. CASE j % 6 # 0
  <2> DEFINE n == v[1 + (j \div 6)]
             i == j % 6
  <2>1. n \in Nat /\ i \in 1 .. 5
    <3>1. 1 + (j \div 6) \in 1 .. 3 /\ i \in 1 .. 5
      BY <1>3
    <3>2. \A g \in 1 .. 3 : v[g] \in Nat
      BY NumberIsNat DEF Version
    <3> QED
      BY <3>1, <3>2
  <2>2. semverTuple(v, p)[j] = Padded(n, i, p)
    BY <1>3 DEF semverTuple
  <2> HIDE DEF n, i
  <2>3. n \div Power[i] \in Int
    BY <2>1 DEF Power
  <2> QED
    BY <1>1, <2>2, <2>3 DEF Padded, Zero
<1> QED
  BY <1>2, <1>3

\* The order in which fetchK8sVersions sorts is the order of the versions.
THEOREM SemverOrder ==
    ASSUME NEW a \in Version, NEW b \in Version, NEW p \in {Space, Zero}
    PROVE  semverLess(a, b, p) <=> Older(a, b)
<1> p \in Pads
  BY DEF Pads
<1>1. Older(a, b) => semverLess(a, b, p)
  BY OlderIsLess
<1>2. ASSUME semverLess(a, b, p), ~ Older(a, b)
      PROVE  FALSE
  <2>1. PICK i \in 1 .. 17 :
            /\ semverTuple(a, p)[i] < semverTuple(b, p)[i]
            /\ \A k \in 1 .. i - 1 : semverTuple(a, p)[k] = semverTuple(b, p)[k]
    BY <1>2 DEF semverLess, StringLess
  <2>2. a = b \/ Older(b, a)
    <3>1. /\ a = << a[1], a[2], a[3] >> /\ b = << b[1], b[2], b[3] >>
          /\ \A g \in 1 .. 3 : a[g] \in Nat /\ b[g] \in Nat
      BY NumberIsNat DEF Version
    <3> QED
      BY <1>2, <3>1 DEF Older
  <2>3. CASE a = b
    BY <2>1, <2>3, CharIsNumber
  <2>4. CASE Older(b, a)
    <3>1. PICK j \in 1 .. 17 :
              /\ semverTuple(b, p)[j] < semverTuple(a, p)[j]
              /\ \A k \in 1 .. j - 1 : semverTuple(b, p)[k] = semverTuple(a, p)[k]
      BY <2>4, OlderIsLess DEF semverLess, StringLess
    <3>2. i < j \/ i = j \/ j < i
      OBVIOUS
    <3> QED
      BY <2>1, <3>1, <3>2, CharIsNumber
  <2> QED
    BY <2>2, <2>3, <2>4
<1> QED
  BY <1>1, <1>2

-----------------------------------------------------------------------------
(* Sorting *)

\* The order of versions by their numbers is a strict total order.
LEMMA OlderIsOrder ==
    ASSUME NEW a \in Version, NEW b \in Version
    PROVE  /\ ~ Older(a, a)
           /\ a = b \/ Older(a, b) \/ Older(b, a)
           /\ \A c \in Version : Older(a, b) /\ Older(b, c) => Older(a, c)
<1>1. \A v \in Version : /\ v = << v[1], v[2], v[3] >>
                         /\ v[1] \in Nat /\ v[2] \in Nat /\ v[3] \in Nat
  <2> TAKE v \in Version
  <2> QED
    BY NumberIsNat DEF Version
<1>2. ~ Older(a, a)
  BY <1>1 DEF Older
<1>3. a = b \/ Older(a, b) \/ Older(b, a)
  BY <1>1 DEF Older
<1>4. ASSUME NEW c \in Version, Older(a, b), Older(b, c)
      PROVE  Older(a, c)
  BY <1>1, <1>4 DEF Older
<1> QED
  BY <1>2, <1>3, <1>4

\* Different versions at a finite set of places, sorted: each once, newest first.
LEMMA SortedFacts ==
    ASSUME pad \in {Space, Zero},
           NEW S, IsFiniteSet(S), NEW f \in [S -> Version],
           \A a, b \in S : f[a] = f[b] => a = b
    PROVE  /\ Sorted(f) \in Seq(Version)
           /\ \A r \in 2 .. Len(Sorted(f)) : Older(Sorted(f)[r], Sorted(f)[r - 1])
           /\ ToSet(Sorted(f)) = { f[a] : a \in S }
<1> DEFINE behind == [a \in S |-> { b \in S \ {a} : semverLess(f[b], f[a], pad) }]
           before == [a \in S |-> { b \in S : a \in behind[b] }]
           size == Cardinality(S)
           Here(r, a) == Cardinality(before[a]) < r /\ r <= size - Cardinality(behind[a])
           At(r) == CHOOSE a \in S : Here(r, a)
           rank == [a \in S |-> Cardinality(before[a]) + 1]
<1>1. DOMAIN f = S /\ Sorted(f) = [r \in 1 .. size |-> f[At(r)]]
  BY DEF Sorted
<1>2. \A a \in S : behind[a] = { b \in S : Older(f[b], f[a]) }
  <2> TAKE a \in S
  <2>1. \A b \in S : semverLess(f[b], f[a], pad) <=> Older(f[b], f[a])
    BY SemverOrder
  <2>2. ~ Older(f[a], f[a])
    BY OlderIsOrder
  <2> QED
    BY <2>1, <2>2
<1>3. \A a \in S : before[a] = { b \in S : Older(f[a], f[b]) }
  BY <1>2
<1> HIDE DEF behind, before
<1>4. \A a \in S : /\ IsFiniteSet(before[a]) /\ IsFiniteSet(behind[a])
                   /\ Cardinality(before[a]) \in Nat /\ Cardinality(behind[a]) \in Nat
  <2> TAKE a \in S
  <2>1. before[a] \in SUBSET S /\ behind[a] \in SUBSET S
    BY <1>2, <1>3
  <2>2. IsFiniteSet(before[a]) /\ IsFiniteSet(behind[a])
    BY <2>1, FS_Subset
  <2> QED
    BY <2>2, FS_CardinalityType
<1>5. size \in Nat
  BY FS_CardinalityType
<1>6. \A a \in S : Cardinality(before[a]) + Cardinality(behind[a]) = size - 1
  <2> TAKE a \in S
  <2>1. S = (before[a] \cup behind[a]) \cup {a}
    <3>1. \A b \in S : b = a \/ b \in before[a] \/ b \in behind[a]
      <4> TAKE b \in S
      <4>1. f[a] \in Version /\ f[b] \in Version
        OBVIOUS
      <4>2. f[a] = f[b] \/ Older(f[a], f[b]) \/ Older(f[b], f[a])
        BY <4>1, OlderIsOrder
      <4> QED
        BY <4>2, <1>2, <1>3
    <3> QED
      BY <3>1, <1>2, <1>3
  <2>2. a \notin before[a] \cup behind[a]
    <3>1. ~ Older(f[a], f[a])
      BY OlderIsOrder
    <3> QED
      BY <3>1, <1>2, <1>3
  <2>3. before[a] \cap behind[a] = {}
    <3>1. ASSUME NEW b \in S, Older(f[a], f[b]), Older(f[b], f[a])
          PROVE  FALSE
      <4>1. f[a] \in Version /\ f[b] \in Version
        OBVIOUS
      <4>2. Older(f[a], f[a])
        BY <3>1, <4>1, OlderIsOrder
      <4> QED
        BY <4>1, <4>2, OlderIsOrder
    <3> QED
      BY <3>1, <1>2, <1>3
  <2>4. /\ IsFiniteSet(before[a] \cup behind[a])
        /\ Cardinality(before[a] \cup behind[a])
             = Cardinality(before[a]) + Cardinality(behind[a])
    <3>1. /\ IsFiniteSet(before[a] \cup behind[a])
          /\ Cardinality(before[a] \cup behind[a]) = Cardinality(before[a])
               + Cardinality(behind[a]) - Cardinality(before[a] \cap behind[a])
      BY <1>4, FS_Union
    <3>2. Cardinality(before[a] \cap behind[a]) = 0
      BY <2>3, FS_EmptySet
    <3> QED
      BY <1>4, <3>1, <3>2
  <2>5. size = Cardinality(before[a] \cup behind[a]) + 1
    BY <2>1, <2>2, <2>4, FS_AddElement
  <2> QED
    BY <2>4, <2>5, <1>4
<1>7. \A r \in 1 .. size : \A a \in S : Here(r, a) <=> rank[a] = r
  <2> TAKE r \in 1 .. size
  <2> TAKE a \in S
  <2> QED
    BY <1>4, <1>5, <1>6
<1>8. rank \in [S -> 1 .. size]
  <2>1. \A a \in S : Cardinality(before[a]) + 1 \in 1 .. size
    BY <1>4, <1>5, <1>6
  <2> QED
    BY <2>1
\* A newer version stands nearer to the head.
<1>9. \A a, b \in S : Older(f[a], f[b]) => rank[b] < rank[a]
  <2> SUFFICES ASSUME NEW a \in S, NEW b \in S, Older(f[a], f[b])
               PROVE  rank[b] < rank[a]
    OBVIOUS
  <2>1. before[b] \in SUBSET before[a]
    <3>1. \A c \in S : Older(f[b], f[c]) => Older(f[a], f[c])
      <4> TAKE c \in S
      <4>1. f[a] \in Version /\ f[b] \in Version /\ f[c] \in Version
        OBVIOUS
      <4> QED
        BY <4>1, OlderIsOrder
    <3> QED
      BY <3>1, <1>3
  <2>2. b \in before[a] /\ b \notin before[b]
    <3>1. ~ Older(f[b], f[b])
      BY OlderIsOrder
    <3> QED
      BY <3>1, <1>3
  <2>3. /\ Cardinality(before[b]) <= Cardinality(before[a])
        /\ Cardinality(before[b]) # Cardinality(before[a])
    BY <2>1, <2>2, <1>4, FS_Subset
  <2> QED
    BY <2>3, <1>4
<1>10. \A a, b \in S : rank[a] = rank[b] => a = b
  <2> SUFFICES ASSUME NEW a \in S, NEW b \in S, rank[a] = rank[b]
               PROVE  a = b
    OBVIOUS
  <2>1. f[a] \in Version /\ f[b] \in Version
    OBVIOUS
  <2>2. f[a] = f[b] \/ Older(f[a], f[b]) \/ Older(f[b], f[a])
    BY <2>1, OlderIsOrder
  <2>3. rank[a] \in Int /\ rank[b] \in Int
    BY <1>8
  <2> HIDE DEF rank
  <2> QED
    BY <2>2, <2>3, <1>9
<1> HIDE DEF rank, Here
<1>11. \A r \in 1 .. size : \E a \in S : rank[a] = r
  <2>1. rank \in Injection(S, 1 .. size)
    BY <1>8, <1>10 DEF Injection, IsInjective
  <2>2. IsFiniteSet(1 .. size) /\ Cardinality(1 .. size) = size
    BY <1>5, FS_Interval
  <2>3. rank \in Surjection(S, 1 .. size)
    BY <2>1, <2>2, FS_Injection
  <2> QED
    BY <2>3 DEF Surjection
<1>12. \A r \in 1 .. size : At(r) \in S /\ rank[At(r)] = r
  <2> TAKE r \in 1 .. size
  <2>1. \E a \in S : Here(r, a)
    BY <1>7, <1>11
  <2>2. At(r) \in S /\ Here(r, At(r))
    BY <2>1
  <2> QED
    BY <2>2, <1>7
<1> HIDE DEF At
<1>13. Sorted(f) \in Seq(Version) /\ Len(Sorted(f)) = size
  <2>1. \A r \in 1 .. size : f[At(r)] \in Version
    BY <1>12
  <2> QED
    BY <1>1, <1>5, <2>1
<1>14. \A r \in 2 .. size : Older(Sorted(f)[r], Sorted(f)[r - 1])
  <2> TAKE r \in 2 .. size
  <2>1. r \in 1 .. size /\ r - 1 \in 1 .. size /\ r \in Int
    BY <1>5
  <2>2. PICK a \in S, b \in S : a = At(r) /\ b = At(r - 1)
    BY <2>1, <1>12
  <2>3. rank[a] = r /\ rank[b] = r - 1
    BY <2>1, <2>2, <1>12
  <2>4. f[a] \in Version /\ f[b] \in Version
    OBVIOUS
  <2>5. f[a] = f[b] \/ Older(f[a], f[b]) \/ Older(f[b], f[a])
    BY <2>4, OlderIsOrder
  <2>6. ~ Older(f[b], f[a])
    BY <2>1, <2>3, <1>9
  <2>7. f[a] # f[b]
    BY <2>1, <2>3
  <2>8. Sorted(f)[r] = f[a] /\ Sorted(f)[r - 1] = f[b]
    BY <1>1, <2>1, <2>2
  <2> QED
    BY <2>5, <2>6, <2>7, <2>8
<1>15. ToSet(Sorted(f)) = { f[a] : a \in S }
  <2>1. ToSet(Sorted(f)) = { f[At(r)] : r \in 1 .. size }
    BY <1>1 DEF ToSet
  <2>2. \A a \in S : \E r \in 1 .. size : At(r) = a
    <3> TAKE a \in S
    <3>1. rank[a] \in 1 .. size
      BY <1>8
    <3> WITNESS rank[a] \in 1 .. size
    <3> QED
      BY <3>1, <1>10, <1>12
  <2> QED
    BY <2>1, <2>2, <1>12
<1> QED
  BY <1>13, <1>14, <1>15

-----------------------------------------------------------------------------
(* The schedule *)

Entry == [minor : Minors, previousPatches : Seq(Patches)]

\* Upstream lists the newest minor version and the newest patch first.
ScheduleInv ==
    /\ schedules \in Seq(Entry)
    /\ pad \in {Space, Zero}
    /\ \A i, k \in DOMAIN schedules : i < k => MinorOf(i) > MinorOf(k)
    /\ \A i \in DOMAIN schedules : Falling(schedules[i].previousPatches)

LEMMA Prepended ==
    ASSUME NEW S, NEW s \in Seq(S), NEW x \in S
    PROVE  /\ << x >> \o s \in Seq(S)
           /\ DOMAIN (<< x >> \o s) = 1 .. Len(s) + 1
           /\ (<< x >> \o s)[1] = x
           /\ \A i \in 2 .. Len(s) + 1 : i - 1 \in DOMAIN s /\ (<< x >> \o s)[i] = s[i - 1]
<1>1. Len(s) \in Nat /\ DOMAIN s = 1 .. Len(s)
  OBVIOUS
<1>2. /\ << x >> \in Seq(S) /\ Len(<< x >>) = 1
      /\ << x >> \o s \in Seq(S) /\ Len(<< x >> \o s) = Len(s) + 1
  OBVIOUS
<1>3. (<< x >> \o s)[1] = x
  BY <1>1
<1>4. ASSUME NEW i \in 2 .. Len(s) + 1
      PROVE  i - 1 \in DOMAIN s /\ (<< x >> \o s)[i] = s[i - 1]
  BY <1>1
<1> QED
  BY <1>2, <1>3, <1>4

LEMMA ScheduleInvInit == VersionsInit => ScheduleInv
BY DEF VersionsInit, ScheduleInv

LEMMA ScheduleInvNext == ScheduleInv /\ [VersionsNext]_versionsVars => ScheduleInv'
<1> SUFFICES ASSUME ScheduleInv, [VersionsNext]_versionsVars
             PROVE  ScheduleInv'
  OBVIOUS
<1>1. ASSUME NEW m \in Minors, StartMinor(m)
      PROVE  ScheduleInv'
  <2> DEFINE entry == [minor |-> m, previousPatches |-> << >>]
  <2>1. entry \in Entry
    BY DEF Entry
  <2>2. /\ schedules' \in Seq(Entry)
        /\ DOMAIN schedules' = 1 .. Len(schedules) + 1
        /\ schedules'[1] = entry
        /\ \A i \in 2 .. Len(schedules) + 1 :
               i - 1 \in DOMAIN schedules /\ schedules'[i] = schedules[i - 1]
    BY <1>1, <2>1, Prepended DEF ScheduleInv, StartMinor
  <2>3. Len(schedules) \in Nat /\ DOMAIN schedules = 1 .. Len(schedules)
    BY DEF ScheduleInv
  <2>4. ASSUME NEW i \in DOMAIN schedules', NEW k \in DOMAIN schedules', i < k
        PROVE  MinorOf(i)' > MinorOf(k)'
    <3>1. k \in 2 .. Len(schedules) + 1 /\ k - 1 \in DOMAIN schedules
      BY <2>2, <2>3, <2>4
    <3>2. CASE i = 1
      BY <1>1, <2>2, <3>1, <3>2 DEF StartMinor, MinorOf, ScheduleInv, Entry
    <3>3. CASE i # 1
      <4>1. i - 1 \in DOMAIN schedules /\ i - 1 < k - 1 /\ schedules'[i] = schedules[i - 1]
        BY <2>2, <2>3, <2>4, <3>3
      <4> QED
        BY <2>2, <3>1, <4>1 DEF MinorOf, ScheduleInv
    <3> QED
      BY <3>2, <3>3
  <2>5. ASSUME NEW i \in DOMAIN schedules'
        PROVE  Falling(schedules'[i].previousPatches)
    <3>1. CASE i = 1
      BY <2>2, <3>1 DEF Falling
    <3>2. CASE i # 1
      <4>1. i - 1 \in DOMAIN schedules /\ schedules'[i] = schedules[i - 1]
        BY <2>2, <2>3, <2>5, <3>2
      <4> QED
        BY <4>1 DEF ScheduleInv
    <3> QED
      BY <3>1, <3>2
  <2>6. pad' \in {Space, Zero}
    BY <1>1 DEF StartMinor, ScheduleInv
  <2> QED
    BY <2>2, <2>4, <2>5, <2>6 DEF ScheduleInv
<1>2. ASSUME NEW e \in DOMAIN schedules, NEW n \in Patches, ReleasePatch(e, n)
      PROVE  ScheduleInv'
  <2> DEFINE old == schedules[e].previousPatches
             new == << n >> \o old
  <2>1. schedules[e] \in Entry /\ old \in Seq(Patches) /\ Falling(old)
    <3>1. schedules[e] \in Entry /\ Falling(old)
      BY DEF ScheduleInv
    <3> QED
      BY <3>1 DEF Entry
  <2>2. /\ schedules' = [schedules EXCEPT ![e].previousPatches = new]
        /\ \A k \in DOMAIN old : old[k] < n
    BY <1>2 DEF ReleasePatch
  <2>3. /\ new \in Seq(Patches) /\ DOMAIN new = 1 .. Len(old) + 1 /\ new[1] = n
        /\ \A i \in 2 .. Len(old) + 1 : i - 1 \in DOMAIN old /\ new[i] = old[i - 1]
    BY <2>1, Prepended
  <2>4. Falling(new)
    <3> SUFFICES ASSUME NEW i \in DOMAIN new, NEW k \in DOMAIN new, i < k
                 PROVE  new[i] > new[k]
      BY DEF Falling
    <3>1. Len(old) \in Nat
      BY <2>1
    <3>2. k \in 2 .. Len(old) + 1
      BY <2>3, <3>1
    <3>3. CASE i = 1
      BY <2>2, <2>3, <3>2, <3>3
    <3>4. CASE i # 1
      <4>1. i \in 2 .. Len(old) + 1 /\ i - 1 < k - 1
        BY <2>3, <3>1, <3>4
      <4> QED
        BY <2>1, <2>3, <3>2, <4>1 DEF Falling
    <3> QED
      BY <3>3, <3>4
  <2> HIDE DEF new
  <2>5. [schedules[e] EXCEPT !.previousPatches = new] \in Entry
    BY <2>1, <2>3 DEF Entry
  <2>6. /\ schedules' \in Seq(Entry) /\ DOMAIN schedules' = DOMAIN schedules
        /\ \A i \in DOMAIN schedules :
               /\ schedules'[i].minor = schedules[i].minor
               /\ schedules'[i].previousPatches
                    = IF i = e THEN new ELSE schedules[i].previousPatches
    <3>1. schedules' = [schedules EXCEPT ![e] = [schedules[e] EXCEPT !.previousPatches = new]]
      BY <2>2
    <3>2. schedules' \in Seq(Entry) /\ DOMAIN schedules' = DOMAIN schedules
      BY <2>5, <3>1 DEF ScheduleInv
    <3>3. /\ [schedules[e] EXCEPT !.previousPatches = new].minor = schedules[e].minor
          /\ [schedules[e] EXCEPT !.previousPatches = new].previousPatches = new
      BY <2>1 DEF Entry
    <3> QED
      BY <3>1, <3>2, <3>3
  <2>7. pad' \in {Space, Zero}
    BY <1>2 DEF ReleasePatch, ScheduleInv
  <2>8. \A i, k \in DOMAIN schedules' : i < k => MinorOf(i)' > MinorOf(k)'
    BY <2>6 DEF ScheduleInv, MinorOf
  <2>9. \A i \in DOMAIN schedules' : Falling(schedules'[i].previousPatches)
    BY <2>4, <2>6 DEF ScheduleInv
  <2> QED
    BY <2>6, <2>7, <2>8, <2>9 DEF ScheduleInv
<1>3. CASE UNCHANGED versionsVars
  BY <1>3 DEF versionsVars, ScheduleInv, MinorOf
<1> QED
  BY <1>1, <1>2, <1>3 DEF VersionsNext

LEMMA ScheduleInvAlways == VersionsSpec => []ScheduleInv
BY ScheduleInvInit, ScheduleInvNext, PTL DEF VersionsSpec

\* What an entry gives: different versions of its minor version.
LEMMA GatherFacts ==
    ASSUME NEW entry \in Entry, Falling(entry.previousPatches), NEW latestOnly \in BOOLEAN
    PROVE  /\ \E n \in Nat : DOMAIN Gather(entry, latestOnly) = 1 .. n
           /\ \A j \in DOMAIN Gather(entry, latestOnly) :
                  /\ Gather(entry, latestOnly)[j] \in Version
                  /\ Gather(entry, latestOnly)[j][2] = entry.minor
           /\ \A j, k \in DOMAIN Gather(entry, latestOnly) :
                  Gather(entry, latestOnly)[j] = Gather(entry, latestOnly)[k] => j = k
<1> DEFINE old == entry.previousPatches
<1>1. /\ entry.minor \in Numbers /\ old \in Seq(Patches)
      /\ 0 \in Numbers /\ 1 \in Numbers
      /\ \A j \in DOMAIN old : old[j] \in Numbers
  <2>1. entry.minor \in Numbers /\ old \in Seq(Patches)
    BY NumbersAssumption DEF Entry
  <2>2. 0 \in Numbers /\ 1 \in Numbers
    BY DEF Numbers
  <2>3. \A j \in DOMAIN old : old[j] \in Numbers
    BY <2>1, NumbersAssumption
  <2> QED
    BY <2>1, <2>2, <2>3
<1>2. Len(old) \in Nat /\ DOMAIN old = 1 .. Len(old)
  BY <1>1
<1>3. /\ DOMAIN PatchVersions(entry) = 1 .. Len(old)
      /\ \A j \in 1 .. Len(old) : PatchVersions(entry)[j] = << 1, entry.minor, old[j] >>
  BY <1>2 DEF PatchVersions
<1>4. CASE ~ latestOnly
  <2>1. Gather(entry, latestOnly) = PatchVersions(entry)
    BY <1>4 DEF Gather
  <2>2. \A j, k \in DOMAIN old : old[j] = old[k] => j = k
    <3> SUFFICES ASSUME NEW j \in DOMAIN old, NEW k \in DOMAIN old, old[j] = old[k]
                 PROVE  j = k
      OBVIOUS
    <3>1. j \in Int /\ k \in Int /\ old[j] \in Int
      BY <1>1, <1>2, NumberIsNat
    <3> QED
      BY <3>1 DEF Falling
  <2>3. \A j \in 1 .. Len(old) : << 1, entry.minor, old[j] >> \in Version
    BY <1>1, <1>2 DEF Version
  <2>4. \A j, k \in 1 .. Len(old) :
            PatchVersions(entry)[j] = PatchVersions(entry)[k] => j = k
    <3> SUFFICES ASSUME NEW j \in 1 .. Len(old), NEW k \in 1 .. Len(old),
                        << 1, entry.minor, old[j] >> = << 1, entry.minor, old[k] >>
                 PROVE  j = k
      BY <1>3
    <3>1. old[j] = old[k]
      OBVIOUS
    <3> QED
      BY <1>2, <2>2, <3>1
  <2>5. \A j \in 1 .. Len(old) : /\ PatchVersions(entry)[j] \in Version
                                 /\ PatchVersions(entry)[j][2] = entry.minor
    BY <1>3, <2>3
  <2> QED
    BY <1>2, <1>3, <2>1, <2>4, <2>5
<1>5. CASE latestOnly
  <2>1. PICK v \in Version : Gather(entry, latestOnly) = << v >> /\ v[2] = entry.minor
    <3>1. CASE old # << >>
      <4>1. 1 \in 1 .. Len(old)
        BY <1>1, <1>2, <3>1
      <4>2. << 1, entry.minor, old[1] >> \in Version
        BY <1>1, <1>2, <4>1 DEF Version
      <4>3. Gather(entry, latestOnly) = << << 1, entry.minor, old[1] >> >>
        BY <1>5, <1>3, <3>1, <4>1 DEF Gather, LatestOf
      <4> QED
        BY <4>2, <4>3
    <3>2. CASE old = << >>
      <4>1. << 1, entry.minor, 0 >> \in Version
        BY <1>1 DEF Version
      <4>2. Gather(entry, latestOnly) = << << 1, entry.minor, 0 >> >>
        BY <1>5, <3>2 DEF Gather, LatestOf
      <4> QED
        BY <4>1, <4>2
    <3> QED
      BY <3>1, <3>2
  <2>2. DOMAIN << v >> = 1 .. 1 /\ << v >>[1] = v
    OBVIOUS
  <2> QED
    BY <2>1, <2>2
<1> QED
  BY <1>4, <1>5

LEMMA PlaceFacts ==
    ASSUME NEW latestOnly \in BOOLEAN
    PROVE  /\ \A place \in Places(latestOnly) :
                  /\ place = << place[1], place[2] >>
                  /\ place[1] \in DOMAIN schedules
                  /\ place[2] \in DOMAIN Gather(schedules[place[1]], latestOnly)
                  /\ Gathered(latestOnly)[place]
                       = Gather(schedules[place[1]], latestOnly)[place[2]]
           /\ \A i \in DOMAIN schedules :
                  \A j \in DOMAIN Gather(schedules[i], latestOnly) :
                      << i, j >> \in Places(latestOnly)
<1> DEFINE given(i) == Gather(schedules[i], latestOnly)
<1> HIDE DEF given
<1>1. Places(latestOnly) = UNION { {i} \X DOMAIN given(i) : i \in DOMAIN schedules }
  BY DEF Places, given
<1>2. Gathered(latestOnly) = [place \in Places(latestOnly) |-> given(place[1])[place[2]]]
  BY DEF Gathered, Places, given
<1>3. \A place \in Places(latestOnly) :
          /\ place = << place[1], place[2] >>
          /\ place[1] \in DOMAIN schedules /\ place[2] \in DOMAIN given(place[1])
          /\ Gathered(latestOnly)[place] = given(place[1])[place[2]]
  BY <1>1, <1>2
<1>4. \A i \in DOMAIN schedules : \A j \in DOMAIN given(i) :
          << i, j >> \in Places(latestOnly)
  BY <1>1
<1> QED
  BY <1>3, <1>4 DEF given

\* What the schedule gives: different versions, finitely many.
LEMMA GatheredFacts ==
    ASSUME ScheduleInv, NEW latestOnly \in BOOLEAN
    PROVE  /\ IsFiniteSet(Places(latestOnly))
           /\ Gathered(latestOnly) \in [Places(latestOnly) -> Version]
           /\ \A a, b \in Places(latestOnly) :
                  Gathered(latestOnly)[a] = Gathered(latestOnly)[b] => a = b
<1> DEFINE given(i) == Gather(schedules[i], latestOnly)
           part == [i \in DOMAIN schedules |-> {i} \X DOMAIN given(i)]
           parts == { part[i] : i \in DOMAIN schedules }
<1>1. \A i \in DOMAIN schedules :
          /\ \E n \in Nat : DOMAIN given(i) = 1 .. n
          /\ \A j \in DOMAIN given(i) :
                 given(i)[j] \in Version /\ given(i)[j][2] = MinorOf(i)
          /\ \A j, k \in DOMAIN given(i) : given(i)[j] = given(i)[k] => j = k
  <2> TAKE i \in DOMAIN schedules
  <2>1. schedules[i] \in Entry /\ Falling(schedules[i].previousPatches)
    BY DEF ScheduleInv
  <2> QED
    BY <2>1, GatherFacts DEF MinorOf
<1> HIDE DEF given
<1>2. \A place \in Places(latestOnly) :
          /\ place = << place[1], place[2] >>
          /\ place[1] \in DOMAIN schedules /\ place[2] \in DOMAIN given(place[1])
          /\ Gathered(latestOnly)[place] = given(place[1])[place[2]]
  BY PlaceFacts DEF given
<1>3. IsFiniteSet(Places(latestOnly))
  <2>1. IsFiniteSet(DOMAIN schedules)
    <3>1. DOMAIN schedules = 1 .. Len(schedules) /\ Len(schedules) \in Nat
      BY DEF ScheduleInv
    <3> QED
      BY <3>1, FS_Interval
  <2>2. IsFiniteSet(parts)
    <3>1. part \in Surjection(DOMAIN schedules, parts)
      BY DEF Surjection
    <3> QED
      BY <2>1, <3>1, FS_Surjection
  <2>3. \A T \in parts : IsFiniteSet(T)
    <3> SUFFICES ASSUME NEW i \in DOMAIN schedules
                 PROVE  IsFiniteSet({i} \X DOMAIN given(i))
      OBVIOUS
    <3>1. IsFiniteSet({i})
      BY FS_Singleton
    <3>2. IsFiniteSet(DOMAIN given(i))
      <4>1. PICK n \in Nat : DOMAIN given(i) = 1 .. n
        BY <1>1
      <4> QED
        BY <4>1, FS_Interval
    <3> QED
      BY <3>1, <3>2, FS_Product
  <2>4. Places(latestOnly) = UNION parts
    BY DEF Places, given
  <2> QED
    BY <2>2, <2>3, <2>4, FS_UNION
<1>4. Gathered(latestOnly) \in [Places(latestOnly) -> Version]
  <2>1. \A place \in Places(latestOnly) : Gathered(latestOnly)[place] \in Version
    BY <1>1, <1>2
  <2>2. Gathered(latestOnly)
          = [place \in Places(latestOnly) |-> Gathered(latestOnly)[place]]
    BY DEF Gathered, Places
  <2> QED
    BY <2>1, <2>2
<1>5. ASSUME NEW a \in Places(latestOnly), NEW b \in Places(latestOnly),
             Gathered(latestOnly)[a] = Gathered(latestOnly)[b]
      PROVE  a = b
  <2>1. MinorOf(a[1]) = MinorOf(b[1])
    BY <1>1, <1>2, <1>5
  <2>2. a[1] = b[1]
    <3>1. /\ a[1] \in DOMAIN schedules /\ b[1] \in DOMAIN schedules
          /\ a[1] \in Int /\ b[1] \in Int
      BY <1>2 DEF ScheduleInv
    <3>2. MinorOf(a[1]) \in Int
      <4>1. schedules[a[1]] \in Entry
        BY <3>1 DEF ScheduleInv
      <4>2. MinorOf(a[1]) \in Numbers
        BY <4>1, NumbersAssumption DEF Entry, MinorOf
      <4> QED
        BY <4>2, NumberIsNat
    <3>3. ~ (a[1] < b[1]) /\ ~ (b[1] < a[1])
      BY <2>1, <3>1, <3>2 DEF ScheduleInv
    <3> QED
      BY <3>1, <3>3
  <2>3. a[2] = b[2]
    BY <1>1, <1>2, <1>5, <2>2
  <2> QED
    BY <1>2, <2>2, <2>3
<1> QED
  BY <1>3, <1>4, <1>5

LEMMA FetchedFacts ==
    ASSUME ScheduleInv, NEW latestOnly \in BOOLEAN
    PROVE  /\ fetchK8sVersions(latestOnly) \in Seq(Version)
           /\ \A r \in 2 .. Len(fetchK8sVersions(latestOnly)) :
                  Older(fetchK8sVersions(latestOnly)[r], fetchK8sVersions(latestOnly)[r - 1])
           /\ ToSet(fetchK8sVersions(latestOnly))
                = { Gathered(latestOnly)[a] : a \in Places(latestOnly) }
<1>1. pad \in {Space, Zero}
  BY DEF ScheduleInv
<1>2. /\ IsFiniteSet(Places(latestOnly))
      /\ Gathered(latestOnly) \in [Places(latestOnly) -> Version]
      /\ \A a, b \in Places(latestOnly) :
             Gathered(latestOnly)[a] = Gathered(latestOnly)[b] => a = b
  BY GatheredFacts
<1> QED
  BY <1>1, <1>2, SortedFacts DEF fetchK8sVersions

\* fetchK8sVersions returns versions of three numbers, with latestOnly too, where
\* a minor version may have no patches yet.
THEOREM VersionsTypes == VersionsSpec => []VersionsTypeOK
<1>1. ScheduleInv => VersionsTypeOK
  <2> SUFFICES ASSUME ScheduleInv
               PROVE  VersionsTypeOK
    OBVIOUS
  <2>1. \A latestOnly \in BOOLEAN : fetchK8sVersions(latestOnly) \in Seq(Version)
    BY FetchedFacts
  <2> QED
    BY <2>1 DEF ScheduleInv, VersionsTypeOK, Entry
<1> QED
  BY <1>1, ScheduleInvAlways, PTL

\* ListKubernetesVersions returns the patch releases of the schedule, each once and
\* newest first, for every schedule of numbers of up to five digits.
THEOREM VersionsListed == VersionsSpec => []ListedNewestFirst
<1>1. ScheduleInv => ListedNewestFirst
  <2> SUFFICES ASSUME ScheduleInv
               PROVE  ListedNewestFirst
    OBVIOUS
  <2>1. /\ \A r \in 2 .. Len(ListKubernetesVersions) :
               Older(ListKubernetesVersions[r], ListKubernetesVersions[r - 1])
        /\ ToSet(ListKubernetesVersions) = { Gathered(FALSE)[a] : a \in Places(FALSE) }
    BY FetchedFacts DEF ListKubernetesVersions
  <2>2. { Gathered(FALSE)[a] : a \in Places(FALSE) }
          = UNION { ToSet(PatchVersions(schedules[i])) : i \in DOMAIN schedules }
    <3>1. \A i : Gather(schedules[i], FALSE) = PatchVersions(schedules[i])
      BY DEF Gather
    <3> DEFINE given(i) == PatchVersions(schedules[i])
    <3>2. \A a \in Places(FALSE) :
              /\ a[1] \in DOMAIN schedules /\ a[2] \in DOMAIN given(a[1])
              /\ Gathered(FALSE)[a] = given(a[1])[a[2]]
      BY <3>1, PlaceFacts
    <3>3. \A i \in DOMAIN schedules : \A j \in DOMAIN given(i) : << i, j >> \in Places(FALSE)
      BY <3>1, PlaceFacts
    <3> DEFINE values(i) == ToSet(given(i))
    <3> HIDE DEF given
    <3>4. \A i : values(i) = { given(i)[j] : j \in DOMAIN given(i) }
      BY DEF ToSet
    <3> HIDE DEF values
    <3>5. \A a \in Places(FALSE) : Gathered(FALSE)[a] \in values(a[1])
      BY <3>2, <3>4
    <3>6. \A i \in DOMAIN schedules : \A v \in values(i) :
              \E a \in Places(FALSE) : v = Gathered(FALSE)[a]
      <4> TAKE i \in DOMAIN schedules
      <4> TAKE v \in values(i)
      <4>1. PICK j \in DOMAIN given(i) : v = given(i)[j]
        BY <3>4
      <4>2. << i, j >> \in Places(FALSE) /\ v = Gathered(FALSE)[<< i, j >>]
        BY <3>2, <3>3, <4>1
      <4> QED
        BY <4>2
    <3>7. { Gathered(FALSE)[a] : a \in Places(FALSE) }
            = UNION { values(i) : i \in DOMAIN schedules }
      <4> DEFINE all == UNION { values(i) : i \in DOMAIN schedules }
                 mine == { Gathered(FALSE)[a] : a \in Places(FALSE) }
      <4>1. \A v : v \in mine => v \in all
        BY <3>2, <3>5
      <4>2. \A v : v \in all => v \in mine
        BY <3>6
      <4> HIDE DEF all, mine
      <4>3. mine = all
        BY <4>1, <4>2
      <4> QED
        BY <4>3 DEF all, mine
    <3> QED
      BY <3>7 DEF values, given
  <2> QED
    BY <2>1, <2>2 DEF ListedNewestFirst
<1> QED
  BY <1>1, ScheduleInvAlways, PTL

-----------------------------------------------------------------------------
(* Combinations.  A set of components is part of a valid combination exactly if
   it fits: at most one node component, at most one runtime, and nothing besides
   k3s.  The roles say the same of every two components. *)

Name == Component \cup {Unknown}

Nodes == {"kubernetes", "eksd"}
Runtimes == {"containerd", "crio"}

Fits(S) ==
    /\ S \subseteq Component
    /\ \A c, d \in S : c # d =>
           /\ c # "k3s"
           /\ ~ (c \in Nodes /\ d \in Nodes)
           /\ ~ (c \in Runtimes /\ d \in Runtimes)

\* Two components have no role in common exactly if they fit.
LEMMA RolesDecide ==
    ASSUME NEW c \in Component, NEW d \in Component, c # d
    PROVE  Roles(c) \cap Roles(d) = {} <=> Fits({c, d})
BY DEF Component, Roles, Fits, Nodes, Runtimes

\* Every component has a role.
LEMMA RolesNotEmpty ==
    ASSUME NEW c \in Component
    PROVE  Roles(c) # {}
BY DEF Component, Roles

LEMMA ValidFits ==
    ASSUME NEW valid \in ValidCombination
    PROVE  Fits(valid)
<1>1. CASE valid = {"k3s"}
  BY <1>1 DEF Fits, Component
<1>2. CASE valid # {"k3s"}
  <2>1. PICK node \in Nodes, runtime \in Runtimes, cni \in { {}, {"cni-plugins"} } :
            valid = {node, runtime} \cup cni
    BY <1>2 DEF ValidCombination, Nodes, Runtimes
  <2> QED
    BY <2>1 DEF Fits, Component, Nodes, Runtimes
<1> QED
  BY <1>1, <1>2

LEMMA ValidNotEmpty ==
    ASSUME NEW valid \in ValidCombination
    PROVE  \E name : name \in valid
<1>1. CASE valid = {"k3s"}
  BY <1>1
<1>2. CASE valid # {"k3s"}
  <2>1. PICK node \in Nodes, runtime \in Runtimes, cni \in { {}, {"cni-plugins"} } :
            valid = {node, runtime} \cup cni
    BY <1>2 DEF ValidCombination, Nodes, Runtimes
  <2> QED
    BY <2>1
<1> QED
  BY <1>1, <1>2

\* A part of a valid combination, and no other set of components.
LEMMA PartOfValid ==
    ASSUME NEW S
    PROVE  (\E valid \in ValidCombination : S \subseteq valid) <=> Fits(S)
<1>1. ASSUME NEW valid \in ValidCombination, S \subseteq valid
      PROVE  Fits(S)
  <2>1. Fits(valid)
    BY ValidFits
  <2> QED
    BY <1>1, <2>1 DEF Fits
<1>2. ASSUME Fits(S)
      PROVE  \E valid \in ValidCombination : S \subseteq valid
  <2>1. CASE "k3s" \in S
    <3>1. S \subseteq {"k3s"}
      BY <1>2, <2>1 DEF Fits
    <3>2. {"k3s"} \in ValidCombination
      BY DEF ValidCombination
    <3> QED
      BY <3>1, <3>2
  <2>2. CASE "k3s" \notin S
    <3> DEFINE node == IF "eksd" \in S THEN "eksd" ELSE "kubernetes"
               runtime == IF "crio" \in S THEN "crio" ELSE "containerd"
               valid == {node, runtime} \cup {"cni-plugins"}
    <3>1. node \in {"kubernetes", "eksd"} /\ runtime \in {"containerd", "crio"}
      OBVIOUS
    <3>2. valid \in ValidCombination
      BY <3>1 DEF ValidCombination
    <3>3. S \subseteq valid
      BY <1>2, <2>2 DEF Fits, Component, Nodes, Runtimes
    <3> QED
      BY <3>2, <3>3
  <2> QED
    BY <2>1, <2>2
<1> QED
  BY <1>1, <1>2

-----------------------------------------------------------------------------

\* What the function accepts has no name twice and is part of a valid
\* combination.
LEMMA AcceptedIsPart ==
    ASSUME NEW list \in Seq(Name), ValidateCombination(list)
    PROVE  IsInjective(list) /\ Fits(ToSet(list))
<1> USE DEF ValidateCombination, PassesAlone, RolesAreFree
<1>1. \A i \in DOMAIN list : list[i] \in Component
  OBVIOUS
<1>2. \A i, k \in DOMAIN list : i # k => Roles(list[i]) \cap Roles(list[k]) = {}
  <2> SUFFICES ASSUME NEW i \in DOMAIN list, NEW k \in DOMAIN list, i # k
               PROVE  Roles(list[i]) \cap Roles(list[k]) = {}
    OBVIOUS
  <2>1. CASE k < i
    BY <2>1
  <2>2. CASE i < k
    BY <2>2
  <2> QED
    BY <2>1, <2>2
<1>3. IsInjective(list)
  BY <1>1, <1>2, RolesNotEmpty DEF IsInjective
<1>4. ASSUME NEW i \in DOMAIN list, NEW k \in DOMAIN list, list[i] # list[k]
      PROVE  Fits({list[i], list[k]})
  BY <1>1, <1>2, <1>4, RolesDecide
<1>5. Fits(ToSet(list))
  BY <1>1, <1>4 DEF Fits, ToSet
<1> QED
  BY <1>3, <1>5

LEMMA PartIsAccepted ==
    ASSUME NEW list \in Seq(Name), list # << >>,
           IsInjective(list), Fits(ToSet(list))
    PROVE  ValidateCombination(list)
<1>1. \A i \in DOMAIN list : list[i] \in Component
  BY DEF Fits, ToSet
<1>2. \A i, k \in DOMAIN list : i # k => list[i] # list[k]
  BY DEF IsInjective
<1>3. \A i, k \in DOMAIN list : i # k => Fits({list[i], list[k]})
  BY <1>1, <1>2 DEF Fits, ToSet
<1>4. ASSUME NEW i \in DOMAIN list
      PROVE  PassesAlone(list[i], list)
  <2>1. Exclusive(list[i]) => Len(list) = 1
    <3> SUFFICES ASSUME list[i] = "k3s", Len(list) # 1
                 PROVE  FALSE
      BY DEF Exclusive
    <3>1. PICK k \in DOMAIN list : k # i
      <4>1. DOMAIN list = 1 .. Len(list) /\ Len(list) \in Nat
        OBVIOUS
      <4>2. Len(list) # 0
        OBVIOUS
      <4>3. 1 \in DOMAIN list /\ 2 \in DOMAIN list
        BY <4>1, <4>2
      <4> QED
        BY <4>3
    <3> QED
      BY <1>2, <1>3, <3>1 DEF Fits
  <2>2. ASSUME NEW k \in DOMAIN list
        PROVE  list[k] \notin Conflicts(list[i])
    <3>1. CASE k = i
      BY <1>1, <3>1 DEF Conflicts, Component
    <3>2. CASE k # i
      BY <1>1, <1>2, <1>3, <3>2 DEF Fits, Conflicts, Component, Nodes, Runtimes
    <3> QED
      BY <3>1, <3>2
  <2> QED
    BY <1>1, <2>1, <2>2 DEF PassesAlone
<1>5. ASSUME NEW i \in DOMAIN list, NEW k \in 1 .. i - 1
      PROVE  Roles(list[i]) \cap Roles(list[k]) = {}
  <2>1. k \in DOMAIN list /\ k # i
    OBVIOUS
  <2> QED
    BY <1>1, <1>2, <1>3, <2>1, RolesDecide
<1> QED
  BY <1>4, <1>5 DEF ValidateCombination, RolesAreFree

-----------------------------------------------------------------------------

\* For a list of every length, in every order, with any repetitions: what is
\* accepted has no rivals, and no order of a valid combination is refused.
THEOREM CombinationsExclude == CombinationSpec => []ExcludesRivals
<1> DEFINE ListOfNames == names \in Seq(Name)
<1>1. CombinationInit => ListOfNames
  BY DEF CombinationInit
<1>2. ListOfNames /\ [CombinationNext]_combination => ListOfNames'
  <2> SUFFICES ASSUME ListOfNames, [CombinationNext]_combination
               PROVE  ListOfNames'
    OBVIOUS
  <2>1. CASE GetFails
    BY <2>1 DEF GetFails
  <2>2. ASSUME NEW name \in Component \cup {Unknown}, Add(name)
        PROVE  ListOfNames'
    BY <2>2 DEF Add, Name
  <2>3. CASE UNCHANGED combination
    BY <2>3 DEF combination
  <2> QED
    BY <2>1, <2>2, <2>3 DEF CombinationNext
<1>3. ListOfNames => ExcludesRivals
  <2> SUFFICES ASSUME ListOfNames
               PROVE  ExcludesRivals
    OBVIOUS
  <2>1. ASSUME ValidateCombination(names)
        PROVE  /\ IsInjective(names)
               /\ \E valid \in ValidCombination : ToSet(names) \subseteq valid
    BY <2>1, AcceptedIsPart, PartOfValid
  <2>2. ASSUME ToSet(names) \in ValidCombination, IsInjective(names)
        PROVE  ValidateCombination(names)
    <3>1. Fits(ToSet(names))
      BY <2>2, ValidFits
    <3>2. names # << >>
      <4>1. PICK name : name \in ToSet(names)
        BY <2>2, ValidNotEmpty
      <4>2. PICK i \in DOMAIN names : name = names[i]
        BY <4>1 DEF ToSet
      <4> QED
        BY <4>2
    <3> QED
      BY <2>2, <3>1, <3>2, PartIsAccepted
  <2> QED
    BY <2>1, <2>2 DEF ExcludesRivals
<1> QED
  BY <1>1, <1>2, <1>3, PTL DEF CombinationSpec

LEMMA SixComponents == IsFiniteSet(Component) /\ Cardinality(Component) = 6
<1> DEFINE A == {"kubernetes"}
           B == A \cup {"eksd"}
           C == B \cup {"containerd"}
           D == C \cup {"crio"}
           E == D \cup {"k3s"}
           F == E \cup {"cni-plugins"}
<1>1. /\ "eksd" \notin A /\ "containerd" \notin B /\ "crio" \notin C
      /\ "k3s" \notin D /\ "cni-plugins" \notin E /\ Component = F
  BY DEF Component
<1>2. IsFiniteSet(A) /\ Cardinality(A) = 1
  BY FS_Singleton
<1> HIDE DEF A
<1>3. IsFiniteSet(B) /\ Cardinality(B) = 2
  BY <1>1, <1>2, FS_AddElement
<1> HIDE DEF B
<1>4. IsFiniteSet(C) /\ Cardinality(C) = 3
  BY <1>1, <1>3, FS_AddElement
<1> HIDE DEF C
<1>5. IsFiniteSet(D) /\ Cardinality(D) = 4
  BY <1>1, <1>4, FS_AddElement
<1> HIDE DEF D
<1>6. IsFiniteSet(E) /\ Cardinality(E) = 5
  BY <1>1, <1>5, FS_AddElement
<1> HIDE DEF E
<1> QED
  BY <1>1, <1>6, FS_AddElement

\* Types; and what knownNames answers is every name once, in whichever order the
\* map is iterated.
THEOREM CombinationTypes == CombinationSpec => []CombinationTypeOK
<1> DEFINE TypeInv == /\ names \in Seq(Component \cup {Unknown})
                      /\ Len(names) <= MaxNames
                      /\ listed = << >> \/ listed \in knownNames
<1>1. CombinationInit => TypeInv
  BY CombinationAssumption DEF CombinationInit
<1>2. TypeInv /\ [CombinationNext]_combination => TypeInv'
  <2> SUFFICES ASSUME TypeInv, [CombinationNext]_combination
               PROVE  TypeInv'
    OBVIOUS
  <2>1. CASE GetFails
    BY <2>1 DEF GetFails
  <2>2. ASSUME NEW name \in Component \cup {Unknown}, Add(name)
        PROVE  TypeInv'
    BY <2>2, CombinationAssumption DEF Add
  <2>3. CASE UNCHANGED combination
    BY <2>3 DEF combination
  <2> QED
    BY <2>1, <2>2, <2>3 DEF CombinationNext
<1>3. TypeInv => CombinationTypeOK
  <2> SUFFICES ASSUME TypeInv, listed # << >>
               PROVE  ToSet(listed) = Component /\ Len(listed) = 6
    BY DEF CombinationTypeOK
  <2> QED
    BY SixComponents, SetToSeqsFacts DEF knownNames
<1> QED
  BY <1>1, <1>2, <1>3, PTL DEF CombinationSpec
=============================================================================
