---------------------------- MODULE StagingProofs ----------------------------
(***************************************************************************)
(* What is packed, for all trees that may be fetched or static, with       *)
(* whatever links, and all orders in which mergeDir comes to their entries.*)
(*                                                                         *)
(* The invariant, SInv, says of the staging directory at each entry what   *)
(* the properties say of the image: it is a tree, nothing is missing, an   *)
(* entry that mergeDir came to has gone to its own path or to where a link *)
(* led, and what no entry has gone to is as it was fetched.  That its      *)
(* links are known, fetched or static, makes the excuse of a link a fact   *)
(* about what was given.                                                   *)
(***************************************************************************)
EXTENDS Staging, SequenceTheorems, TLAPS

-----------------------------------------------------------------------------
(* Pieces of sequences *)

LEMMA PieceFacts ==
    ASSUME NEW S, NEW s \in Seq(S), NEW m \in 1 .. Len(s) + 1, NEW n \in m - 1 .. Len(s)
    PROVE  /\ SubSeq(s, m, n) \in Seq(S) /\ Len(SubSeq(s, m, n)) = n - m + 1
           /\ \A i \in 1 .. n - m + 1 : SubSeq(s, m, n)[i] = s[m + i - 1]
<1>1. Len(s) \in Nat /\ m \in Int /\ n \in Int
  BY LenProperties
<1>2. \A i \in m .. n : s[i] \in S
  <2> SUFFICES ASSUME NEW i \in m .. n
               PROVE  s[i] \in S
    OBVIOUS
  <2>1. i \in 1 .. Len(s)
    BY <1>1
  <2> QED
    BY <2>1, ElementOfSeq
<1>3. /\ SubSeq(s, m, n) \in Seq(S)
      /\ Len(SubSeq(s, m, n)) = IF m <= n THEN n - m + 1 ELSE 0
      /\ \A i \in 1 .. n - m + 1 : SubSeq(s, m, n)[i] = s[m + i - 1]
  BY <1>1, <1>2, SubSeqProperties
<1>4. (IF m <= n THEN n - m + 1 ELSE 0) = n - m + 1
  BY <1>1
<1> QED
  BY <1>3, <1>4

LEMMA OneName ==
    ASSUME NEW S, NEW s \in Seq(S), NEW k \in 1 .. Len(s)
    PROVE  SubSeq(s, k, k) = << s[k] >>
<1>1. Len(s) \in Nat /\ s[k] \in S
  BY LenProperties, ElementOfSeq
<1>2. k \in 1 .. Len(s) + 1 /\ k \in k - 1 .. Len(s) /\ k - k + 1 = 1
  BY <1>1
<1>3. SubSeq(s, k, k) \in Seq(S)
  BY <1>2, PieceFacts
<1>4. Len(SubSeq(s, k, k)) = k - k + 1
  BY <1>2, PieceFacts
<1>5. \A i \in 1 .. k - k + 1 : SubSeq(s, k, k)[i] = s[k + i - 1]
  BY <1>2, PieceFacts
<1>6. SubSeq(s, k, k)[1] = s[k]
  BY <1>1, <1>2, <1>5
<1>7. ASSUME NEW e \in S
      PROVE  << e >> \in Seq(S) /\ Len(<< e >>) = 1 /\ << e >>[1] = e
  OBVIOUS
<1>8. << s[k] >> \in Seq(S) /\ Len(<< s[k] >>) = 1 /\ << s[k] >>[1] = s[k]
  BY <1>1, <1>7
<1>9. Len(SubSeq(s, k, k)) = 1
  BY <1>2, <1>4
<1>10. \A i \in 1 .. 1 : SubSeq(s, k, k)[i] = << s[k] >>[i]
  BY <1>6, <1>8
<1> QED
  BY <1>3, <1>8, <1>9, <1>10, SeqEqual

LEMMA PrefixOfPrefix ==
    ASSUME NEW S, NEW s \in Seq(S), NEW m \in 0 .. Len(s), NEW l \in 0 .. m
    PROVE  SubSeq(SubSeq(s, 1, m), 1, l) = SubSeq(s, 1, l)
<1> DEFINE a == SubSeq(s, 1, m)
           x == SubSeq(a, 1, l)
           y == SubSeq(s, 1, l)
<1>1. Len(s) \in Nat /\ m \in Nat /\ l \in Nat
  BY LenProperties
<1>2. /\ a \in Seq(S) /\ Len(a) = m
      /\ \A i \in 1 .. m : a[i] = s[i]
  <2>1. 1 \in 1 .. Len(s) + 1 /\ m \in 1 - 1 .. Len(s)
    BY <1>1
  <2>2. /\ a \in Seq(S) /\ Len(a) = m - 1 + 1
        /\ \A i \in 1 .. m - 1 + 1 : a[i] = s[1 + i - 1]
    BY <2>1, PieceFacts
  <2> HIDE DEF a
  <2> QED
    BY <1>1, <2>2
<1>3. /\ y \in Seq(S) /\ Len(y) = l
      /\ \A i \in 1 .. l : y[i] = s[i]
  <2>1. 1 \in 1 .. Len(s) + 1 /\ l \in 1 - 1 .. Len(s)
    BY <1>1
  <2>2. /\ y \in Seq(S) /\ Len(y) = l - 1 + 1
        /\ \A i \in 1 .. l - 1 + 1 : y[i] = s[1 + i - 1]
    BY <2>1, PieceFacts
  <2> HIDE DEF y
  <2> QED
    BY <1>1, <2>2
<1> HIDE DEF a
<1>4. /\ x \in Seq(S) /\ Len(x) = l
      /\ \A i \in 1 .. l : x[i] = a[i]
  <2>1. 1 \in 1 .. Len(a) + 1 /\ l \in 1 - 1 .. Len(a)
    BY <1>1, <1>2
  <2>2. /\ x \in Seq(S) /\ Len(x) = l - 1 + 1
        /\ \A i \in 1 .. l - 1 + 1 : x[i] = a[1 + i - 1]
    BY <1>2, <2>1, PieceFacts
  <2> HIDE DEF x
  <2> QED
    BY <1>1, <2>2
<1> HIDE DEF x, y
<1>5. \A i \in 1 .. l : x[i] = y[i]
  BY <1>1, <1>2, <1>3, <1>4
<1>6. x = y
  BY <1>3, <1>4, <1>5, SeqEqual
<1> QED
  BY <1>6 DEF x, y, a

\* The names of a base, and then those of s from k + 1 on.
LEMMA JoinedPrefix ==
    ASSUME NEW S, NEW b \in Seq(S), NEW s \in Seq(S),
           NEW k \in 0 .. Len(s), NEW j \in k .. Len(s)
    PROVE  /\ b \o SubSeq(s, k + 1, j) \in Seq(S)
           /\ Len(b \o SubSeq(s, k + 1, j)) = Len(b) + j - k
           /\ \A i \in 1 .. Len(b) + j - k :
                  (b \o SubSeq(s, k + 1, j))[i] =
                      IF i <= Len(b) THEN b[i] ELSE s[k + i - Len(b)]
<1> DEFINE t == SubSeq(s, k + 1, j)
           joined == b \o t
<1>1. Len(s) \in Nat /\ Len(b) \in Nat /\ k \in Nat /\ j \in Nat /\ k <= j
  BY LenProperties
<1>2. /\ t \in Seq(S) /\ Len(t) = j - k
      /\ \A i \in 1 .. j - k : t[i] = s[k + i]
  <2>1. k + 1 \in 1 .. Len(s) + 1 /\ j \in (k + 1) - 1 .. Len(s)
    BY <1>1
  <2>2. /\ t \in Seq(S) /\ Len(t) = j - (k + 1) + 1
        /\ \A i \in 1 .. j - (k + 1) + 1 : t[i] = s[(k + 1) + i - 1]
    BY <2>1, PieceFacts
  <2> HIDE DEF t
  <2> QED
    BY <1>1, <2>2
<1> HIDE DEF t
<1>3. /\ joined \in Seq(S) /\ Len(joined) = Len(b) + Len(t)
      /\ \A i \in 1 .. Len(b) + Len(t) :
             joined[i] = IF i <= Len(b) THEN b[i] ELSE t[i - Len(b)]
  BY <1>2, ConcatProperties
<1> HIDE DEF joined
<1>4. ASSUME NEW i \in 1 .. Len(b) + j - k
      PROVE  joined[i] = IF i <= Len(b) THEN b[i] ELSE s[k + i - Len(b)]
  <2>1. i \in 1 .. Len(b) + Len(t)
    BY <1>1, <1>2
  <2>2. CASE i <= Len(b)
    BY <1>3, <2>1, <2>2
  <2>3. CASE ~ (i <= Len(b))
    <3>1. i - Len(b) \in 1 .. j - k /\ k + (i - Len(b)) = k + i - Len(b)
      BY <1>1, <2>3
    <3> QED
      BY <1>2, <1>3, <2>1, <2>3, <3>1
  <2> QED
    BY <2>2, <2>3
<1>5. Len(joined) = Len(b) + j - k
  BY <1>1, <1>2, <1>3
<1> QED
  BY <1>3, <1>4, <1>5 DEF joined, t

\* A prefix of the two joined is one of the base, or is joined itself.
LEMMA PrefixOfJoined ==
    ASSUME NEW S, NEW b \in Seq(S), NEW s \in Seq(S),
           NEW k \in 0 .. Len(s), NEW j \in k .. Len(s), NEW l \in 0 .. Len(b) + j - k
    PROVE  SubSeq(b \o SubSeq(s, k + 1, j), 1, l) =
               IF l <= Len(b) THEN SubSeq(b, 1, l) ELSE b \o SubSeq(s, k + 1, k + l - Len(b))
<1> DEFINE joined == b \o SubSeq(s, k + 1, j)
           x == SubSeq(joined, 1, l)
<1>1. Len(s) \in Nat /\ Len(b) \in Nat /\ k \in Nat /\ j \in Nat /\ l \in Nat /\ k <= j
  BY LenProperties
<1>2. /\ joined \in Seq(S) /\ Len(joined) = Len(b) + j - k
      /\ \A i \in 1 .. Len(b) + j - k :
             joined[i] = IF i <= Len(b) THEN b[i] ELSE s[k + i - Len(b)]
  <2>1. \A i \in 1 .. Len(b) + j - k :
            joined[i] = IF i <= Len(b) THEN b[i] ELSE s[k + i - Len(b)]
    BY JoinedPrefix
  <2>2. joined \in Seq(S)
    BY JoinedPrefix
  <2>3. Len(joined) = Len(b) + j - k
    BY JoinedPrefix
  <2> QED
    BY <2>1, <2>2, <2>3
<1> HIDE DEF joined
<1>3. /\ x \in Seq(S) /\ Len(x) = l
      /\ \A i \in 1 .. l : x[i] = joined[i]
  <2>1. 1 \in 1 .. Len(joined) + 1 /\ l \in 1 - 1 .. Len(joined)
    BY <1>1, <1>2
  <2>2. /\ x \in Seq(S) /\ Len(x) = l - 1 + 1
        /\ \A i \in 1 .. l - 1 + 1 : x[i] = joined[1 + i - 1]
    BY <1>2, <2>1, PieceFacts
  <2> HIDE DEF x
  <2> QED
    BY <1>1, <2>2
<1> HIDE DEF x
<1>4. ASSUME l <= Len(b)
      PROVE  x = SubSeq(b, 1, l)
  <2> DEFINE y == SubSeq(b, 1, l)
  <2>1. /\ y \in Seq(S) /\ Len(y) = l
        /\ \A i \in 1 .. l : y[i] = b[i]
    <3>1. 1 \in 1 .. Len(b) + 1 /\ l \in 1 - 1 .. Len(b)
      BY <1>1, <1>4
    <3>2. /\ y \in Seq(S) /\ Len(y) = l - 1 + 1
          /\ \A i \in 1 .. l - 1 + 1 : y[i] = b[1 + i - 1]
      BY <3>1, PieceFacts
    <3> HIDE DEF y
    <3> QED
      BY <1>1, <3>2
  <2> HIDE DEF y
  <2>2. ASSUME NEW i \in 1 .. l
        PROVE  x[i] = y[i]
    <3>1. i \in 1 .. Len(b) + j - k /\ i <= Len(b)
      BY <1>1, <1>4
    <3> QED
      BY <1>2, <1>3, <2>1, <3>1
  <2>3. x = y
    BY <1>3, <2>1, <2>2, SeqEqual
  <2> QED
    BY <2>3 DEF y
<1>5. ASSUME ~ (l <= Len(b))
      PROVE  x = b \o SubSeq(s, k + 1, k + l - Len(b))
  <2> DEFINE m == k + l - Len(b)
             y == b \o SubSeq(s, k + 1, m)
  <2>1. m \in k .. Len(s) /\ Len(b) + m - k = l
    BY <1>1, <1>5
  <2> HIDE DEF m
  <2>2. /\ y \in Seq(S) /\ Len(y) = Len(b) + m - k
        /\ \A i \in 1 .. Len(b) + m - k :
               y[i] = IF i <= Len(b) THEN b[i] ELSE s[k + i - Len(b)]
    BY <2>1, JoinedPrefix
  <2> HIDE DEF y
  <2>3. ASSUME NEW i \in 1 .. l
        PROVE  x[i] = y[i]
    <3>1. i \in 1 .. Len(b) + j - k
      BY <1>1
    <3> QED
      BY <1>2, <1>3, <2>1, <2>2, <3>1
  <2>4. x = y
    BY <1>3, <2>1, <2>2, <2>3, SeqEqual
  <2> QED
    BY <2>4 DEF y, m
<1> QED
  BY <1>4, <1>5 DEF x, joined

LEMMA SplitFacts ==
    ASSUME NEW S, NEW s \in Seq(S), NEW k \in 0 .. Len(s), NEW j \in k .. Len(s)
    PROVE  SubSeq(s, 1, k) \o SubSeq(s, k + 1, j) = SubSeq(s, 1, j)
<1> DEFINE b == SubSeq(s, 1, k)
           y == SubSeq(s, 1, j)
           x == b \o SubSeq(s, k + 1, j)
<1>1. Len(s) \in Nat /\ k \in Nat /\ j \in Nat /\ k <= j
  BY LenProperties
<1>2. /\ b \in Seq(S) /\ Len(b) = k - 1 + 1
      /\ \A i \in 1 .. k - 1 + 1 : b[i] = s[1 + i - 1]
  <2>1. 1 \in 1 .. Len(s) + 1 /\ k \in 1 - 1 .. Len(s)
    BY <1>1
  <2> QED
    BY <2>1, PieceFacts
<1>3. /\ y \in Seq(S) /\ Len(y) = j - 1 + 1
      /\ \A i \in 1 .. j - 1 + 1 : y[i] = s[1 + i - 1]
  <2>1. 1 \in 1 .. Len(s) + 1 /\ j \in 1 - 1 .. Len(s)
    BY <1>1
  <2> QED
    BY <2>1, PieceFacts
<1> HIDE DEF b, y
<1>4. /\ x \in Seq(S) /\ Len(x) = Len(b) + j - k
      /\ \A i \in 1 .. Len(b) + j - k :
             x[i] = IF i <= Len(b) THEN b[i] ELSE s[k + i - Len(b)]
  <2>1. b \in Seq(S)
    BY <1>2
  <2>2. \A i \in 1 .. Len(b) + j - k :
            x[i] = IF i <= Len(b) THEN b[i] ELSE s[k + i - Len(b)]
    BY <2>1, JoinedPrefix
  <2>3. x \in Seq(S)
    BY <2>1, JoinedPrefix
  <2>4. Len(x) = Len(b) + j - k
    BY <2>1, JoinedPrefix
  <2> QED
    BY <2>2, <2>3, <2>4
<1> HIDE DEF x
<1>5. Len(b) = k /\ Len(y) = j /\ Len(x) = j
  BY <1>1, <1>2, <1>3, <1>4
<1>6. ASSUME NEW i \in 1 .. j
      PROVE  x[i] = y[i]
  <2>1. /\ 1 + i - 1 = i /\ k - 1 + 1 = k /\ j - 1 + 1 = j /\ Len(b) + j - k = j
        /\ k + i - Len(b) = i
    BY <1>1, <1>5
  <2>2. y[i] = s[i]
    BY <1>3, <2>1
  <2>3. i <= k => i \in 1 .. k /\ b[i] = s[i]
    BY <1>1, <1>2, <2>1
  <2>4. x[i] = IF i <= k THEN b[i] ELSE s[i]
    BY <1>4, <1>5, <2>1
  <2> QED
    BY <2>2, <2>3, <2>4
<1>7. x = y
  BY <1>3, <1>4, <1>5, <1>6, SeqEqual
<1> QED
  BY <1>7 DEF x, y, b

-----------------------------------------------------------------------------
(* Paths and their parents *)

LEMMA PathFacts ==
    ASSUME NEW p \in Path
    PROVE  p \in Seq(Name) /\ Len(p) \in Nat \ {0} /\ p[1] \in Name
<1>1. p \in Seq(Name) /\ p # << >>
  BY DEF Path
<1>2. Len(p) \in Nat \ {0}
  BY <1>1, EmptySeq
<1>3. 1 \in 1 .. Len(p)
  BY <1>2
<1> QED
  BY <1>1, <1>2, <1>3, ElementOfSeq

\* The host, and what leads nowhere, are no paths.
LEMMA OutsideFacts ==
    /\ Outside \notin Path /\ Nowhere \notin Path
    /\ Outside \notin Seq(Name) /\ Nowhere \notin Seq(Name)
<1>1. Outside[1] = "/" /\ Nowhere[1] = "/" /\ Outside # << >> /\ Nowhere # << >>
  BY DEF Outside, Nowhere
<1>2. "/" \notin Name
  BY DEF Name
<1>3. Outside \notin Path
  BY <1>1, <1>2, PathFacts
<1>4. Nowhere \notin Path
  BY <1>1, <1>2, PathFacts
<1> QED
  BY <1>1, <1>3, <1>4 DEF Path

\* A parent is shorter, starts alike, and its parents are parents too.
LEMMA ParentFacts ==
    ASSUME NEW p \in Path, NEW q \in Parents(p)
    PROVE  /\ q \in Path /\ Len(q) \in 1 .. Len(p) - 1 /\ q[1] = p[1] /\ q # p
           /\ Parents(q) \subseteq Parents(p)
<1>1. p \in Seq(Name) /\ Len(p) \in Nat \ {0}
  BY PathFacts
<1>2. PICK k \in 1 .. Len(p) - 1 : q = SubSeq(p, 1, k)
  BY DEF Parents
<1>3. /\ q \in Seq(Name) /\ Len(q) = k /\ q[1] = p[1]
  <2>1. 1 \in 1 .. Len(p) + 1 /\ k \in 1 - 1 .. Len(p) /\ 1 \in 1 .. k - 1 + 1
    BY <1>1
  <2>2. /\ q \in Seq(Name) /\ Len(q) = k - 1 + 1
        /\ \A i \in 1 .. k - 1 + 1 : q[i] = p[1 + i - 1]
    BY <1>1, <1>2, <2>1, PieceFacts
  <2> QED
    BY <1>1, <2>1, <2>2
<1>4. q \in Path /\ q # p
  <2>1. q # << >>
    BY <1>3
  <2> QED
    BY <1>1, <1>3, <2>1 DEF Path
<1>5. ASSUME NEW r \in Parents(q)
      PROVE  r \in Parents(p)
  <2>1. PICK l \in 1 .. Len(q) - 1 : r = SubSeq(q, 1, l)
    BY DEF Parents
  <2>2. l \in 0 .. k /\ k \in 0 .. Len(p) /\ l \in 1 .. Len(p) - 1
    BY <1>1, <1>3, <2>1
  <2>3. r = SubSeq(p, 1, l)
    BY <1>1, <1>2, <2>1, <2>2, PrefixOfPrefix
  <2> QED
    BY <2>2, <2>3 DEF Parents
<1> QED
  BY <1>1, <1>3, <1>4, <1>5

\* The directory of an entry, and the entry's name.
LEMMA FrontFacts ==
    ASSUME NEW p \in Path
    PROVE  /\ Front(p) \in Seq(Name) /\ Len(Front(p)) = Len(p) - 1
           /\ Last(p) \in Name /\ Front(p) \o << Last(p) >> = p
           /\ Parents(p) \subseteq Way(Front(p))
           /\ Way(Front(p)) \subseteq Parents(p) \cup {<< >>}
<1> DEFINE f == Front(p)
<1>1. p \in Seq(Name) /\ Len(p) \in Nat \ {0}
  BY PathFacts
<1>2. f = SubSeq(p, 1, Len(p) - 1)
  BY DEF Front
<1> HIDE DEF f
<1>3. f \in Seq(Name) /\ Len(f) = Len(p) - 1
  <2>1. 1 \in 1 .. Len(p) + 1 /\ Len(p) - 1 \in 1 - 1 .. Len(p)
    BY <1>1
  <2>2. f \in Seq(Name) /\ Len(f) = Len(p) - 1 - 1 + 1
    BY <1>1, <1>2, <2>1, PieceFacts
  <2> QED
    BY <1>1, <2>2
<1>4. Last(p) \in Name /\ Last(p) = p[Len(p)]
  <2>1. Len(p) \in 1 .. Len(p)
    BY <1>1
  <2> QED
    BY <1>1, <2>1, ElementOfSeq DEF Last
<1>5. f \o << Last(p) >> = p
  <2>1. Len(p) - 1 \in 0 .. Len(p) /\ Len(p) \in Len(p) - 1 .. Len(p)
    BY <1>1
  <2>2. SubSeq(p, 1, Len(p) - 1) \o SubSeq(p, Len(p) - 1 + 1, Len(p)) = SubSeq(p, 1, Len(p))
    BY <1>1, <2>1, SplitFacts
  <2>3. SubSeq(p, 1, Len(p)) = p
    BY <1>1, SubSeqFull
  <2>4. Len(p) - 1 + 1 = Len(p)
    BY <1>1
  <2>5. SubSeq(p, Len(p), Len(p)) = << p[Len(p)] >>
    <3>1. Len(p) \in 1 .. Len(p)
      BY <1>1
    <3> QED
      BY <1>1, <3>1, OneName
  <2> QED
    BY <1>2, <1>4, <2>2, <2>3, <2>4, <2>5
<1>6. ASSUME NEW k \in 1 .. Len(p) - 2
      PROVE  SubSeq(f, 1, k) = SubSeq(p, 1, k)
  <2>1. Len(p) - 1 \in 0 .. Len(p) /\ k \in 0 .. Len(p) - 1
    BY <1>1
  <2> QED
    BY <1>1, <1>2, <2>1, PrefixOfPrefix
<1>7. ASSUME NEW q \in Parents(p)
      PROVE  q \in Way(f)
  <2>1. PICK k \in 1 .. Len(p) - 1 : q = SubSeq(p, 1, k)
    BY DEF Parents
  <2>2. CASE k = Len(p) - 1
    BY <1>2, <2>1, <2>2 DEF Way
  <2>3. CASE k # Len(p) - 1
    <3>1. k \in 1 .. Len(p) - 2 /\ k \in 1 .. Len(f) - 1
      BY <1>1, <1>3, <2>3
    <3> QED
      BY <1>6, <2>1, <3>1 DEF Way, Parents
  <2> QED
    BY <2>2, <2>3
<1>8. ASSUME NEW q \in Way(f), q # << >>
      PROVE  q \in Parents(p)
  <2>1. CASE q \in Parents(f)
    <3>1. PICK k \in 1 .. Len(f) - 1 : q = SubSeq(f, 1, k)
      BY <2>1 DEF Parents
    <3>2. k \in 1 .. Len(p) - 2 /\ k \in 1 .. Len(p) - 1
      BY <1>1, <1>3
    <3> QED
      BY <1>6, <3>1, <3>2 DEF Parents
  <2>2. CASE q = f
    <3>1. Len(f) # 0
      BY <1>3, <1>8, <2>2, EmptySeq
    <3>2. Len(p) - 1 \in 1 .. Len(p) - 1
      BY <1>1, <1>3, <3>1
    <3> QED
      BY <1>2, <2>2, <3>2 DEF Parents
  <2> QED
    BY <1>8, <2>1, <2>2 DEF Way
<1> QED
  BY <1>3, <1>4, <1>5, <1>7, <1>8 DEF f

\* What is before the names of p from k + 1 to j, below a base.
LEMMA JoinedParents ==
    ASSUME NEW b \in Seq(Name), NEW p \in Seq(Name),
           NEW k \in 0 .. Len(p), NEW j \in k + 1 .. Len(p)
    PROVE  LET joined == b \o SubSeq(p, k + 1, j) IN
           /\ joined \in Path
           /\ b \o << p[k + 1] >> \in Way(joined)
           /\ \A q \in Parents(joined) :
                  \/ b # << >> /\ q \in Way(b)
                  \/ \E i \in k + 1 .. j : q = b \o SubSeq(p, k + 1, i)
<1> DEFINE joined == b \o SubSeq(p, k + 1, j)
<1>1. Len(p) \in Nat /\ Len(b) \in Nat /\ k \in Nat /\ j \in Nat /\ k < j /\ j \in k .. Len(p)
  BY LenProperties
<1>2. joined \in Seq(Name) /\ Len(joined) = Len(b) + j - k
  <2>1. joined \in Seq(Name)
    BY <1>1, JoinedPrefix
  <2>2. Len(joined) = Len(b) + j - k
    BY <1>1, JoinedPrefix
  <2> QED
    BY <2>1, <2>2
<1>3. ASSUME NEW l \in 0 .. Len(b) + j - k
      PROVE  SubSeq(joined, 1, l) =
                 IF l <= Len(b) THEN SubSeq(b, 1, l) ELSE b \o SubSeq(p, k + 1, k + l - Len(b))
  BY <1>1, PrefixOfJoined
<1> HIDE DEF joined
<1>4. joined \in Path
  <2>1. Len(joined) # 0
    BY <1>1, <1>2
  <2>2. joined # << >>
    BY <2>1
  <2> QED
    BY <1>2, <2>2 DEF Path
<1>5. SubSeq(joined, 1, Len(b) + 1) = b \o << p[k + 1] >>
  <2>1. Len(b) + 1 \in 0 .. Len(b) + j - k /\ ~ (Len(b) + 1 <= Len(b))
    BY <1>1
  <2>2. k + (Len(b) + 1) - Len(b) = k + 1
    BY <1>1
  <2>3. SubSeq(p, k + 1, k + 1) = << p[k + 1] >>
    <3>1. k + 1 \in 1 .. Len(p)
      BY <1>1
    <3> QED
      BY <3>1, OneName
  <2> QED
    BY <1>3, <2>1, <2>2, <2>3
<1>6. b \o << p[k + 1] >> \in Way(joined)
  <2>1. CASE Len(joined) = Len(b) + 1
    <3>1. SubSeq(joined, 1, Len(joined)) = joined
      BY <1>2, SubSeqFull
    <3> QED
      BY <1>5, <2>1, <3>1 DEF Way
  <2>2. CASE Len(joined) # Len(b) + 1
    <3>1. Len(b) + 1 \in 1 .. Len(joined) - 1
      BY <1>1, <1>2, <2>2
    <3> QED
      BY <1>5, <3>1 DEF Way, Parents
  <2> QED
    BY <2>1, <2>2
<1>7. ASSUME NEW q \in Parents(joined)
      PROVE  \/ b # << >> /\ q \in Way(b)
             \/ \E i \in k + 1 .. j : q = b \o SubSeq(p, k + 1, i)
  <2>1. PICK l \in 1 .. Len(joined) - 1 : q = SubSeq(joined, 1, l)
    BY DEF Parents
  <2>2. l \in 0 .. Len(b) + j - k
    BY <1>1, <1>2
  <2>3. CASE l <= Len(b)
    <3>1. q = SubSeq(b, 1, l) /\ b # << >>
      BY <1>1, <1>3, <2>1, <2>2, <2>3
    <3>2. CASE l = Len(b)
      BY <3>1, <3>2, SubSeqFull DEF Way
    <3>3. CASE l # Len(b)
      <4>1. l \in 1 .. Len(b) - 1
        BY <1>1, <2>3, <3>3
      <4> QED
        BY <3>1, <4>1 DEF Way, Parents
    <3> QED
      BY <3>2, <3>3
  <2>4. CASE ~ (l <= Len(b))
    <3>1. k + l - Len(b) \in k + 1 .. j
      BY <1>1, <1>2, <2>4
    <3>2. q = b \o SubSeq(p, k + 1, k + l - Len(b))
      BY <1>3, <2>1, <2>2, <2>4
    <3> QED
      BY <3>1, <3>2
  <2> QED
    BY <2>3, <2>4
<1> QED
  BY <1>4, <1>6, <1>7 DEF joined

\* The directory at the top is a parent.
LEMMA TopIsParent ==
    ASSUME NEW p \in Path, Len(p) > 1
    PROVE  \E t \in Parents(p) : Len(t) = 1 /\ t[1] = p[1]
<1>1. p \in Seq(Name) /\ Len(p) \in Nat
  BY PathFacts
<1>2. SubSeq(p, 1, 1) \in Parents(p)
  BY <1>1 DEF Parents
<1>3. Len(SubSeq(p, 1, 1)) = 1 /\ SubSeq(p, 1, 1)[1] = p[1]
  BY <1>1
<1> QED
  BY <1>2, <1>3

LEMMA ReleaseFacts ==
    /\ Release \in Path /\ Release[1] = "usr"
    /\ ReleaseDir \in Path /\ ReleaseDir[1] = "usr" /\ Front(Release) = ReleaseDir
<1>1. ASSUME NEW T, NEW a \in T, NEW b \in T, NEW c \in T
      PROVE  /\ << a, b, c >> \in Seq(T) /\ Len(<< a, b, c >>) = 3 /\ << a, b, c >>[1] = a
             /\ << a >> \in Seq(T) /\ Len(<< a >>) = 1
  OBVIOUS
<1>2. /\ "usr" \in Name /\ "lib" \in Name
      /\ "extension-release.d" \in Name /\ "extension-release.name" \in Name
  BY StagingAssumption DEF Name
<1>3. ReleaseDir \in Seq(Name) /\ Len(ReleaseDir) = 3 /\ ReleaseDir[1] = "usr"
  BY <1>1, <1>2 DEF ReleaseDir
<1>4. /\ Release \in Seq(Name) /\ Len(Release) = 4
      /\ \A i \in 1 .. 3 : Release[i] = ReleaseDir[i]
  <2> DEFINE name == << "extension-release.name" >>
  <2>1. name \in Seq(Name) /\ Len(name) = 1
    BY <1>1, <1>2
  <2> HIDE DEF name
  <2>2. /\ ReleaseDir \o name \in Seq(Name)
        /\ Len(ReleaseDir \o name) = Len(ReleaseDir) + Len(name)
        /\ \A i \in 1 .. Len(ReleaseDir) + Len(name) :
               (ReleaseDir \o name)[i] =
                   IF i <= Len(ReleaseDir) THEN ReleaseDir[i] ELSE name[i - Len(ReleaseDir)]
    BY <1>3, <2>1, ConcatProperties
  <2>3. Release = ReleaseDir \o name
    BY DEF Release, name
  <2> QED
    BY <1>3, <2>1, <2>2, <2>3
<1>5. Release \in Path /\ ReleaseDir \in Path
  <2>1. Release # << >> /\ ReleaseDir # << >>
    BY <1>3, <1>4, EmptySeq
  <2> QED
    BY <1>3, <1>4, <2>1 DEF Path
<1>6. Front(Release) = ReleaseDir
  <2> DEFINE f == Front(Release)
  <2>1. f \in Seq(Name) /\ Len(f) = 4 - 1
    BY <1>4, <1>5, FrontFacts
  <2>2. f = SubSeq(Release, 1, 4 - 1)
    BY <1>4 DEF Front
  <2> HIDE DEF f
  <2>3. \A i \in 1 .. 3 - 1 + 1 : SubSeq(Release, 1, 3)[i] = Release[1 + i - 1]
    <3>1. 1 \in 1 .. Len(Release) + 1 /\ 3 \in 1 - 1 .. Len(Release)
      BY <1>4
    <3> QED
      BY <1>4, <3>1, PieceFacts
  <2>4. \A i \in 1 .. 3 : f[i] = ReleaseDir[i]
    BY <1>4, <2>2, <2>3
  <2>5. f = ReleaseDir
    BY <1>3, <2>1, <2>4, SeqEqual
  <2> QED
    BY <2>5 DEF f
<1> QED
  BY <1>3, <1>4, <1>5, <1>6

-----------------------------------------------------------------------------
(* Trees *)

LEMMA FolderIsNode == Folder \in Node
<1>1. << >> \in Seq(Word)
  OBVIOUS
<1> QED
  BY <1>1 DEF Folder, Node

LEMMA KindIs ==
    ASSUME NEW tree, IsTree(tree), NEW p
    PROVE  /\ Kind(tree, p) \in {"none", "dir", "file", "link"}
           /\ Kind(tree, p) = "none" <=> p \notin DOMAIN tree
<1>1. ASSUME NEW n \in Node
      PROVE  n.kind \in {"dir", "file", "link"}
  BY DEF Node
<1>2. p \in DOMAIN tree => tree[p] \in Node
  BY DEF IsTree
<1> QED
  BY <1>1, <1>2 DEF Kind

\* What is written where parents are, and where no directory was, leaves a tree.
LEMMA TreeWritten ==
    ASSUME NEW t, IsTree(t), NEW u, NEW w \in Path,
           DOMAIN u = DOMAIN t \cup {w},
           \A p \in DOMAIN t \ {w} : u[p] = t[p],
           u[w] \in Node,
           \A q \in Parents(w) : Kind(t, q) = "dir",
           u[w].kind = "dir" \/ \A p \in DOMAIN t : w \notin Parents(p)
    PROVE  IsTree(u)
<1> SUFFICES ASSUME NEW p \in DOMAIN u
             PROVE  /\ p \in Path /\ u[p] \in Node
                    /\ \A q \in Parents(p) : Kind(u, q) = "dir"
  BY DEF IsTree
<1>1. p \in Path /\ u[p] \in Node
  BY DEF IsTree
<1>2. ASSUME NEW q \in Parents(p)
      PROVE  Kind(u, q) = "dir"
  <2>1. Kind(t, q) = "dir" /\ q \in DOMAIN t
    <3>1. Kind(t, q) = "dir"
      BY DEF IsTree
    <3> QED
      BY <3>1, KindIs
  <2>2. CASE q # w
    BY <2>1, <2>2 DEF Kind
  <2>3. CASE q = w
    <3>1. p # w
      BY <1>1, <2>3, ParentFacts
    <3>2. u[w].kind = "dir"
      BY <2>3, <3>1
    <3> QED
      BY <2>3, <3>2 DEF Kind
  <2> QED
    BY <2>2, <2>3
<1> QED
  BY <1>1, <1>2

\* Nothing is under what is no directory.
LEMMA NoChildren ==
    ASSUME NEW t, IsTree(t), NEW w, Kind(t, w) # "dir"
    PROVE  \A p \in DOMAIN t : w \notin Parents(p)
BY DEF IsTree

LEMMA NodeFacts ==
    ASSUME NEW n \in Node, NEW m \in Nat
    PROVE  /\ n.kind \in {"dir", "file", "link"}
           /\ [n EXCEPT !.mode = m] \in Node
           /\ [n EXCEPT !.mode = m].kind = n.kind
           /\ [n EXCEPT !.mode = m].data = n.data
BY DEF Node

\* A directory is all that is before it.
LEMMA DirFacts ==
    ASSUME NEW tree, IsTree(tree), NEW b, IsDir(tree, b)
    PROVE  /\ b \in Seq(Name)
           /\ \A q \in Way(b) : b # << >> => Kind(tree, q) = "dir"
           /\ b # << >> => b \in DOMAIN tree /\ b \in Path
<1>1. CASE b = << >>
  <2>1. << >> \in Seq(Name)
    OBVIOUS
  <2> QED
    BY <1>1, <2>1
<1>2. CASE b # << >>
  <2>1. Kind(tree, b) = "dir" /\ b \in DOMAIN tree
    <3>1. Kind(tree, b) = "dir"
      BY <1>2 DEF IsDir
    <3> QED
      BY <3>1, KindIs
  <2>2. b \in Path /\ b \in Seq(Name)
    BY <2>1 DEF IsTree, Path
  <2>3. \A q \in Parents(b) : Kind(tree, q) = "dir"
    BY <2>1 DEF IsTree
  <2> QED
    BY <1>2, <2>1, <2>2, <2>3 DEF Way
<1> QED
  BY <1>1, <1>2

\* Nothing is under what is nothing.
LEMMA NothingUnder ==
    ASSUME NEW tree, IsTree(tree), NEW p, NEW q \in Way(p), Kind(tree, q) = "none"
    PROVE  p \notin DOMAIN tree
<1> SUFFICES ASSUME p \in DOMAIN tree
             PROVE  FALSE
  OBVIOUS
<1>1. Kind(tree, p) # "none" /\ \A x \in Parents(p) : Kind(tree, x) = "dir"
  BY KindIs DEF IsTree
<1> QED
  BY <1>1 DEF Way

LEMMA RealFacts ==
    ASSUME NEW tree, NEW p
    PROVE  /\ Real(tree, p) \in {Outside, Nowhere} \/ Plain(tree, Real(tree, p))
           /\ Plain(tree, p) => Real(tree, p) = p
BY DEF Real

LEMMA PlainFront ==
    ASSUME NEW tree, IsTree(tree), NEW p \in Path,
           \A q \in Parents(p) : Kind(tree, q) # "link"
    PROVE  Plain(tree, Front(p)) /\ EntryAt(tree, p) = p
<1>1. << >> \notin DOMAIN tree
  BY DEF IsTree, Path
<1>2. Kind(tree, << >>) = "none"
  BY <1>1 DEF Kind
<1>3. Plain(tree, Front(p))
  BY <1>2, FrontFacts DEF Plain
<1>4. Real(tree, Front(p)) = Front(p)
  BY <1>3, RealFacts
<1>5. Front(p) \notin {Outside, Nowhere}
  BY FrontFacts, OutsideFacts
<1> QED
  BY <1>3, <1>4, <1>5, FrontFacts DEF EntryAt

LEMMA PlainPrefix ==
    ASSUME NEW tree, IsTree(tree), NEW p, Plain(tree, p), NEW k \in 0 .. Len(p)
    PROVE  Plain(tree, SubSeq(p, 1, k))
<1> DEFINE a == SubSeq(p, 1, k)
<1>1. p \in Seq(Name) /\ Len(p) \in Nat /\ \A q \in Way(p) : Kind(tree, q) # "link"
  BY LenProperties DEF Plain
<1>2. a \in Seq(Name) /\ Len(a) = k
  <2>1. 1 \in 1 .. Len(p) + 1 /\ k \in 1 - 1 .. Len(p)
    BY <1>1
  <2>2. a \in Seq(Name) /\ Len(a) = k - 1 + 1
    BY <1>1, <2>1, PieceFacts
  <2> QED
    BY <2>2
<1>3. ASSUME NEW q \in Way(a), a # << >>
      PROVE  q \in Way(p)
  <2>1. ASSUME NEW l \in 1 .. k, q = SubSeq(p, 1, l)
        PROVE  q \in Way(p)
    <3>1. CASE l = Len(p)
      BY <1>1, <2>1, <3>1, SubSeqFull DEF Way
    <3>2. CASE l # Len(p)
      <4>1. l \in 1 .. Len(p) - 1
        BY <1>1, <3>2
      <4> QED
        BY <2>1, <4>1 DEF Way, Parents
    <3> QED
      BY <3>1, <3>2
  <2>2. CASE q = a
    <3>1. k # 0
      BY <1>2, <1>3, EmptySeq
    <3> QED
      BY <1>1, <2>1, <2>2, <3>1
  <2>3. CASE q \in Parents(a)
    <3>1. PICK l \in 1 .. Len(a) - 1 : q = SubSeq(a, 1, l)
      BY <2>3 DEF Parents
    <3>2. l \in 0 .. k /\ l \in 1 .. k
      BY <1>2
    <3>3. q = SubSeq(p, 1, l)
      BY <1>1, <3>1, <3>2, PrefixOfPrefix
    <3> QED
      BY <2>1, <3>2, <3>3
  <2> QED
    BY <2>2, <2>3 DEF Way
<1>4. ASSUME NEW q \in Way(a)
      PROVE  Kind(tree, q) # "link"
  <2>1. CASE a # << >>
    BY <1>1, <1>3, <2>1
  <2>2. CASE a = << >>
    <3>1. q = << >>
      <4>1. Parents(a) = {}
        <5>1. Len(a) = 0
          BY <2>2, EmptySeq
        <5>2. 1 .. Len(a) - 1 = {}
          BY <5>1
        <5> QED
          BY <5>2 DEF Parents
      <4> QED
        BY <2>2, <4>1 DEF Way
    <3>2. q \notin DOMAIN tree
      BY <3>1 DEF IsTree, Path
    <3> QED
      BY <3>2 DEF Kind
  <2> QED
    BY <2>1, <2>2
<1> QED
  BY <1>2, <1>4 DEF Plain

\* One tree is another with new directories.
Grows(tree, t) ==
    /\ DOMAIN tree \subseteq DOMAIN t
    /\ \A x \in DOMAIN tree : t[x] = tree[x]
    /\ \A x \in DOMAIN t \ DOMAIN tree : t[x] = Folder

LEMMA OverFacts ==
    ASSUME NEW tree, NEW D
    PROVE  LET t == Over(tree, [x \in D |-> Folder]) IN
           Grows(tree, t) /\ DOMAIN t = DOMAIN tree \cup D
<1> DEFINE below == [x \in D |-> Folder]
<1>1. DOMAIN below = D /\ \A x \in D : below[x] = Folder
  OBVIOUS
<1> HIDE DEF below
<1>2. /\ DOMAIN Over(tree, below) = DOMAIN tree \cup D
      /\ \A x \in DOMAIN tree : Over(tree, below)[x] = tree[x]
      /\ \A x \in D \ DOMAIN tree : Over(tree, below)[x] = Folder
  BY <1>1 DEF Over
<1> QED
  BY <1>2 DEF Grows, below

\* os.MkdirAll leaves a tree, with the directory, if no link is in the way.
LEMMA MadeFacts ==
    ASSUME NEW tree, IsTree(tree), NEW p \in Seq(Name), NEW k \in 0 .. Len(p),
           Makes(tree, p, k)
    PROVE  /\ IsTree(Made(tree, p, k)) /\ Grows(tree, Made(tree, p, k))
           /\ Plain(tree, p) =>
                  /\ p # << >> => p \in DOMAIN Made(tree, p, k)
                  /\ \A x \in DOMAIN Made(tree, p, k) \ DOMAIN tree : x[1] = p[1]
<1> DEFINE b == Real(tree, SubSeq(p, 1, k))
           J == k + 1 .. Len(p)
           D == { b \o SubSeq(p, k + 1, j) : j \in J }
           t == Made(tree, p, k)
<1>1. Len(p) \in Nat /\ k \in Nat /\ k <= Len(p)
  BY LenProperties
<1>2. /\ IsDir(tree, b)
      /\ k < Len(p) => Kind(tree, b \o << p[k + 1] >>) = "none"
  BY DEF Makes
<1>3. Grows(tree, t) /\ DOMAIN t = DOMAIN tree \cup D
  <2>1. t = Over(tree, [x \in D |-> Folder])
    BY DEF Made, MadeAt
  <2> HIDE DEF t, D
  <2> QED
    BY <2>1, OverFacts
<1>4. Plain(tree, SubSeq(p, 1, k)) => b = SubSeq(p, 1, k)
  BY RealFacts
<1> HIDE DEF b, t
<1>5. /\ b \in Seq(Name)
      /\ \A q \in Way(b) : b # << >> => Kind(tree, q) = "dir"
  BY <1>2, DirFacts
<1>6. ASSUME NEW j \in J
      PROVE  LET x == b \o SubSeq(p, k + 1, j) IN
             /\ x \in Path /\ x \notin DOMAIN tree
             /\ \A q \in Parents(x) : (b # << >> /\ q \in Way(b)) \/ q \in D
  <2> DEFINE x == b \o SubSeq(p, k + 1, j)
  <2>1. /\ x \in Path /\ b \o << p[k + 1] >> \in Way(x)
        /\ \A q \in Parents(x) :
               \/ b # << >> /\ q \in Way(b)
               \/ \E i \in k + 1 .. j : q = b \o SubSeq(p, k + 1, i)
    BY <1>5, JoinedParents
  <2>2. k < Len(p)
    BY <1>1
  <2>3. x \notin DOMAIN tree
    BY <1>2, <2>1, <2>2, NothingUnder
  <2>4. \A i \in k + 1 .. j : i \in J
    BY <1>1
  <2>5. \A q \in Parents(x) : (b # << >> /\ q \in Way(b)) \/ q \in D
    BY <2>1, <2>4
  <2> QED
    BY <2>1, <2>3, <2>5
<1>7. ASSUME NEW x \in D
      PROVE  /\ x \in Path /\ x \notin DOMAIN tree
             /\ \A q \in Parents(x) : (b # << >> /\ q \in Way(b)) \/ q \in D
  BY <1>6
<1>8. ASSUME NEW q, Kind(tree, q) = "dir" \/ q \in D
      PROVE  Kind(t, q) = "dir"
  <2>1. CASE q \in DOMAIN tree
    <3>1. q \notin D
      BY <1>7, <2>1
    <3> QED
      BY <1>3, <1>8, <2>1, <3>1 DEF Grows, Kind
  <2>2. CASE q \notin DOMAIN tree
    <3>1. q \in D
      BY <1>8, <2>2 DEF Kind
    <3>2. t[q] = Folder /\ q \in DOMAIN t
      BY <1>3, <2>2, <3>1 DEF Grows
    <3> QED
      BY <3>2 DEF Kind, Folder
  <2> QED
    BY <2>1, <2>2
<1>9. ASSUME NEW x \in DOMAIN t
      PROVE  /\ x \in Path /\ t[x] \in Node
             /\ \A q \in Parents(x) : Kind(t, q) = "dir"
  <2>1. CASE x \in DOMAIN tree
    <3>1. x \in Path /\ t[x] \in Node
      BY <1>3, <2>1 DEF Grows, IsTree
    <3>2. \A q \in Parents(x) : Kind(tree, q) = "dir"
      BY <2>1 DEF IsTree
    <3> QED
      BY <1>8, <3>1, <3>2
  <2>2. CASE x \notin DOMAIN tree
    <3>1. x \in D /\ t[x] = Folder
      BY <1>3, <2>2 DEF Grows
    <3> QED
      BY <1>5, <1>7, <1>8, <3>1, FolderIsNode
  <2> QED
    BY <2>1, <2>2
<1>10. IsTree(t)
  BY <1>9 DEF IsTree
<1>11. ASSUME Plain(tree, p)
       PROVE  /\ p # << >> => p \in DOMAIN t
              /\ \A x \in DOMAIN t \ DOMAIN tree : x[1] = p[1]
  <2>1. b = SubSeq(p, 1, k)
    BY <1>4, <1>11, PlainPrefix
  <2>2. ASSUME NEW j \in J
        PROVE  b \o SubSeq(p, k + 1, j) = SubSeq(p, 1, j) /\ SubSeq(p, 1, j)[1] = p[1]
    <3>1. j \in k .. Len(p) /\ 1 \in 1 .. Len(p) + 1 /\ j \in 1 - 1 .. Len(p)
      BY <1>1
    <3>2. \A i \in 1 .. j - 1 + 1 : SubSeq(p, 1, j)[i] = p[1 + i - 1]
      BY <3>1, PieceFacts
    <3>3. 1 \in 1 .. j - 1 + 1 /\ 1 + 1 - 1 = 1
      BY <1>1
    <3> QED
      BY <2>1, <3>1, <3>2, <3>3, SplitFacts
  <2>3. SubSeq(p, 1, Len(p)) = p
    BY SubSeqFull
  <2>4. ASSUME p # << >>
        PROVE  p \in DOMAIN t
    <3>1. CASE k = Len(p)
      <4>1. b = p
        BY <2>1, <2>3, <3>1
      <4> QED
        BY <1>2, <1>3, <2>4, <4>1, DirFacts
    <3>2. CASE k # Len(p)
      <4>1. Len(p) \in J
        BY <1>1, <3>2
      <4> QED
        BY <1>3, <2>2, <2>3, <4>1
    <3> QED
      BY <3>1, <3>2
  <2>5. ASSUME NEW x \in DOMAIN t \ DOMAIN tree
        PROVE  x[1] = p[1]
    BY <1>3, <2>2
  <2> QED
    BY <2>4, <2>5
<1> QED
  BY <1>3, <1>10, <1>11 DEF t

\* No link is made, and none goes.
LEMMA GrowsFacts ==
    ASSUME NEW tree, NEW t, Grows(tree, t)
    PROVE  /\ \A q : Kind(t, q) = "link" <=> Kind(tree, q) = "link"
           /\ \A p : Plain(t, p) <=> Plain(tree, p)
<1>1. ASSUME NEW q
      PROVE  Kind(t, q) = "link" <=> Kind(tree, q) = "link"
  BY DEF Grows, Kind, Folder
<1> QED
  BY <1>1 DEF Plain

\* What copyFile leaves: u is the tree with the node at q, with whatever mode.
Copies(tree, q, node, u) ==
    /\ DOMAIN u = DOMAIN tree \cup {q}
    /\ \A r \in DOMAIN tree \ {q} : u[r] = tree[r]
    /\ u[q] \in Node /\ u[q].kind = node.kind /\ u[q].data = node.data

LEMMA CopiedFacts ==
    ASSUME NEW tree, IsTree(tree), NEW q, NEW node \in Node
    PROVE  Copies(tree, q, node, Copied(tree, q, node))
<1> DEFINE new == IF Kind(tree, q) = "file" THEN [node EXCEPT !.mode = tree[q].mode]
                  ELSE node
<1>1. new \in Node /\ new.kind = node.kind /\ new.data = node.data
  <2>1. CASE Kind(tree, q) = "file"
    <3>1. tree[q] \in Node
      BY <2>1 DEF IsTree, Kind
    <3>2. tree[q].mode \in Nat
      BY <3>1 DEF Node
    <3> QED
      BY <2>1, <3>2, NodeFacts
  <2>2. CASE Kind(tree, q) # "file"
    BY <2>2
  <2> QED
    BY <2>1, <2>2
<1>2. Copied(tree, q, node) = Put(tree, q, new)
  BY DEF Copied
<1> HIDE DEF new
<1>3. /\ DOMAIN Put(tree, q, new) = DOMAIN tree \cup {q}
      /\ Put(tree, q, new)[q] = new
      /\ \A r \in DOMAIN tree \ {q} : Put(tree, q, new)[r] = tree[r]
  BY DEF Put, Over
<1> QED
  BY <1>1, <1>2, <1>3 DEF Copies

LEMMA ParentsAreDirs ==
    ASSUME NEW tree, IsTree(tree), NEW q \in Path, IsDir(tree, Front(q))
    PROVE  \A r \in Parents(q) : Kind(tree, r) = "dir"
<1> SUFFICES ASSUME NEW r \in Parents(q)
             PROVE  Kind(tree, r) = "dir"
  OBVIOUS
<1>1. r \in Way(Front(q))
  BY FrontFacts
<1>2. Front(q) # << >>
  <2> SUFFICES ASSUME Front(q) = << >>
               PROVE  FALSE
    OBVIOUS
  <2>1. Len(q) - 1 = 0
    BY FrontFacts, EmptySeq
  <2>2. Len(r) \in 1 .. Len(q) - 1
    BY ParentFacts
  <2>3. Len(r) \in 1 .. 0
    BY <2>1, <2>2
  <2> QED
    BY <2>3
<1> QED
  BY <1>1, <1>2, DirFacts

-----------------------------------------------------------------------------
(* The invariant *)

\* Where a static file or link has gone.
Gone(s) ==
    /\ went[s] \in DOMAIN staging \cup {Outside}
    /\ \/ went[s] = s
       \/ HasLink(IF static[s].kind = "link" THEN Parents(s) ELSE Way(s))

\* Everything fetched is there, and what is static, once mergeDir came to it.
Complete ==
    /\ DOMAIN fetched \subseteq DOMAIN staging
    /\ DOMAIN went = IF Found THEN Overlaid \ todo ELSE {}
    /\ \A s \in DOMAIN went : Gone(s)
    /\ Found => \A s \in DOMAIN static \ todo :
                    static[s].kind = "dir" => s \in DOMAIN staging \/ HasLink(Way(s))

\* mergeDir makes no links but the static ones.
LinksKnown == \A q : Kind(staging, q) = "link" => HasLink({q})

\* ImageIsOverlay of the staging directory, as far as mergeDir has come.
Layered ==
    \A p \in DOMAIN staging \ meta :
        IF \E s \in DOMAIN went : went[s] = p
        THEN \E s \in DOMAIN went : /\ went[s] = p
                                    /\ staging[p].kind = static[s].kind
                                    /\ staging[p].data = static[s].data
        ELSE staging[p].kind # "dir" => p \in DOMAIN fetched /\ staging[p] = fetched[p]

TopsMerged ==
    \A p \in DOMAIN staging :
        staging[p].kind = "dir" \/ Len(p) > 1 =>
            p[1] \in {"usr", "opt"} \/ (p \in meta /\ HasLink(Way(Release)))

\* ReloadIffUnits of the staging directory.
Reloading ==
    EntryAt(staging, UnitDir) # Outside =>
        /\ \A p \in DOMAIN staging \ meta :
               staging[p].kind # "dir" /\ EntryAt(staging, UnitDir) \in Way(p) => reload
        /\ reload => \E p \in DOMAIN staging :
                         staging[p].kind # "dir" /\ EntryAt(staging, UnitDir) \in Way(p)

SInv ==
    /\ StagingTypeOK
    /\ stagingPc = "fetch" => went = << >>
    /\ stagingPc = "merge" => Found
    /\ stagingPc \in {"fetch", "create", "pack", "done"} => todo = {}
    /\ stagingPc \in {"fetch", "merge", "create"} => meta = {}
    /\ stagingPc \in {"merge", "create", "pack", "done"} =>
           Complete /\ LinksKnown /\ Layered
    /\ stagingPc \in {"pack", "done"} => Reloading /\ TopsMerged
    /\ stagingPc = "done" => image = staging

\* The trees are what they are assumed to be.
LEMMA GivenFacts ==
    ASSUME StagingTypeOK
    PROVE  IsTree(fetched) /\ IsTree(static)
BY StagingAssumption DEF StagingTypeOK

LEMMA HasLinkWidens ==
    ASSUME NEW X, NEW Y, X \subseteq Y, HasLink(X)
    PROVE  HasLink(Y)
BY DEF HasLink

LEMMA NoLinks ==
    ASSUME LinksKnown, NEW X, ~ HasLink(X)
    PROVE  \A q \in X : Kind(staging, q) # "link"
<1> SUFFICES ASSUME NEW q \in X, Kind(staging, q) = "link"
             PROVE  FALSE
  OBVIOUS
<1>1. HasLink({q})
  BY DEF LinksKnown
<1> QED
  BY <1>1, HasLinkWidens

LEMMA SInvInit == StagingInit => SInv
<1> SUFFICES ASSUME StagingInit
             PROVE  SInv
  OBVIOUS
<1>1. IsTree(<< >>)
  BY DEF IsTree
<1>2. DOMAIN went = {}
  BY DEF StagingInit
<1>3. StagingTypeOK
  BY <1>1, <1>2 DEF StagingInit, StagingTypeOK
<1> QED
  BY <1>3 DEF StagingInit, SInv

LEMMA SInvFetch == SInv /\ Fetch => SInv'
<1> SUFFICES ASSUME SInv, Fetch
             PROVE  SInv'
  OBVIOUS
<1>1. StagingTypeOK /\ went = << >> /\ todo = {} /\ meta = {}
  BY DEF SInv, Fetch
<1>2. /\ staging' = fetched
      /\ UNCHANGED << went, meta, reload, image, fetched, static, place >>
      /\ \/ stagingPc' = "merge" /\ Found /\ todo' = DOMAIN static
         \/ stagingPc' = "create" /\ ~ Found /\ todo' = todo
  BY DEF Fetch, Given
<1>3. DOMAIN went = {}
  BY <1>1
<1>4. Found' <=> Found
  BY <1>2 DEF Found
<1>5. StagingTypeOK'
  BY <1>1, <1>2, <1>3, GivenFacts DEF StagingTypeOK
<1>6. Complete'
  BY <1>1, <1>2, <1>3, <1>4 DEF Complete, Overlaid
<1>7. LinksKnown'
  BY <1>2 DEF LinksKnown, HasLink
<1>8. Layered'
  BY <1>2, <1>3 DEF Layered
<1> QED
  BY <1>1, <1>2, <1>4, <1>5, <1>6, <1>7, <1>8 DEF SInv

-----------------------------------------------------------------------------
(* mergeDir *)

\* What mergeDir may do with an entry p: it makes directories, t, and writes
\* at q; q is p, or where a link in the way of p led.
LEMMA Keeps ==
    ASSUME SInv, stagingPc = "merge", NEW p \in todo, todo' = todo \ {p},
           meta' = meta, Given,
           NEW t, IsTree(t), Grows(staging, t),
           NEW q \in Path \cup {Outside},
           DOMAIN staging' = DOMAIN t \cup ({q} \ {Outside}),
           \A r \in DOMAIN t \ {q} : staging'[r] = t[r],
           IF static[p].kind = "dir"
           THEN q = Outside /\ went' = went /\ (p \in DOMAIN t \/ HasLink(Way(p)))
           ELSE /\ went' = Put(went, p, q)
                /\ q = p \/ HasLink(IF static[p].kind = "link" THEN Parents(p) ELSE Way(p))
                /\ q # Outside => /\ staging'[q].kind = static[p].kind
                                  /\ staging'[q].data = static[p].data
    PROVE  Complete' /\ LinksKnown' /\ Layered'
<1>1. /\ StagingTypeOK /\ Complete /\ LinksKnown /\ Layered /\ meta = {} /\ Found
      /\ p \in DOMAIN static /\ Found'
  BY DEF SInv, StagingTypeOK, Given, Found
<1>2. /\ UNCHANGED << fetched, static, place >>
      /\ DOMAIN went = Overlaid \ todo /\ p \notin DOMAIN went
  BY <1>1 DEF Given, Complete
<1>3. /\ DOMAIN went' = DOMAIN went \cup (IF static[p].kind = "dir" THEN {} ELSE {p})
      /\ \A s \in DOMAIN went : went'[s] = went[s]
      /\ static[p].kind # "dir" => went'[p] = q
  <2>1. CASE static[p].kind = "dir"
    BY <2>1
  <2>2. CASE static[p].kind # "dir"
    <3>1. /\ DOMAIN Put(went, p, q) = DOMAIN went \cup {p}
          /\ Put(went, p, q)[p] = q
          /\ \A s \in DOMAIN went \ {p} : Put(went, p, q)[s] = went[s]
      BY DEF Put, Over
    <3> QED
      BY <1>2, <2>2, <3>1
  <2> QED
    BY <2>1, <2>2
<1>4. ASSUME NEW X, HasLink(X)
      PROVE  HasLink(X)'
  BY <1>2, <1>3, <1>4 DEF HasLink
<1>5. /\ Outside \notin DOMAIN t /\ DOMAIN t \subseteq DOMAIN staging'
      /\ DOMAIN staging \subseteq DOMAIN t /\ DOMAIN staging' \subseteq Path
      /\ \A x \in DOMAIN t : x # q => staging'[x] = t[x]
  <2>1. DOMAIN t \subseteq Path /\ Outside \notin Path
    BY OutsideFacts DEF IsTree
  <2> QED
    BY <2>1 DEF Grows
<1>6. Complete'
  <2>1. (DOMAIN fetched \subseteq DOMAIN staging)'
    BY <1>1, <1>2, <1>5 DEF Complete
  <2>2. (DOMAIN went = IF Found THEN Overlaid \ todo ELSE {})'
    <3>1. Overlaid' = Overlaid
      BY <1>2 DEF Overlaid
    <3>2. p \in Overlaid <=> static[p].kind # "dir"
      BY <1>1 DEF Overlaid
    <3> QED
      BY <1>1, <1>2, <1>3, <3>1, <3>2
  <2>3. ASSUME NEW s \in DOMAIN went'
        PROVE  Gone(s)'
    <3>1. CASE s \in DOMAIN went
      <4>1. Gone(s)
        BY <1>1, <3>1 DEF Complete
      <4>2. went'[s] \in DOMAIN staging' \cup {Outside}
        BY <1>3, <1>5, <3>1, <4>1 DEF Gone
      <4>3. \/ went'[s] = s
            \/ HasLink(IF static[s].kind = "link" THEN Parents(s) ELSE Way(s))'
        BY <1>2, <1>3, <1>4, <3>1, <4>1 DEF Gone
      <4> QED
        BY <1>2, <4>2, <4>3 DEF Gone
    <3>2. CASE s \notin DOMAIN went
      <4>1. s = p /\ static[p].kind # "dir" /\ went'[p] = q
        BY <1>3, <3>2
      <4>2. q \in DOMAIN staging' \cup {Outside}
        OBVIOUS
      <4>3. q = p \/ HasLink(IF static[p].kind = "link" THEN Parents(p) ELSE Way(p))'
        BY <1>2, <1>4, <4>1
      <4> QED
        BY <1>2, <4>1, <4>2, <4>3 DEF Gone
    <3> QED
      BY <3>1, <3>2
  <2>4. ASSUME NEW s \in DOMAIN static \ todo', static[s].kind = "dir"
        PROVE  s \in DOMAIN staging' \/ HasLink(Way(s))'
    <3>1. s \in DOMAIN t \/ HasLink(Way(s))
      BY <1>1, <1>5, <2>4 DEF Complete
    <3> QED
      BY <1>4, <1>5, <3>1
  <2> QED
    BY <1>2, <2>1, <2>2, <2>3, <2>4 DEF Complete
<1>7. LinksKnown'
  <2> SUFFICES ASSUME NEW x, Kind(staging', x) = "link"
               PROVE  HasLink({x})'
    BY DEF LinksKnown
  <2>1. x \in DOMAIN staging' /\ staging'[x].kind = "link"
    BY DEF Kind
  <2>2. CASE x = q
    <3>1. q # Outside /\ static[p].kind # "dir"
      BY <1>5, <2>1, <2>2
    <3>2. static'[p].kind = "link" /\ went'[p] = x /\ p \in DOMAIN went'
      BY <1>2, <1>3, <2>1, <2>2, <3>1
    <3> QED
      BY <3>2 DEF HasLink
  <2>3. CASE x # q
    <3>1. Kind(t, x) = "link"
      BY <1>5, <2>1, <2>3 DEF Kind
    <3>2. HasLink({x})
      BY <1>1, <3>1, GrowsFacts DEF LinksKnown
    <3> QED
      BY <1>4, <3>2
  <2> QED
    BY <2>2, <2>3
<1>8. ASSUME NEW x \in DOMAIN staging'
      PROVE  IF \E s \in DOMAIN went' : went'[s] = x
             THEN \E s \in DOMAIN went' : /\ went'[s] = x
                                          /\ staging'[x].kind = static[s].kind
                                          /\ staging'[x].data = static[s].data
             ELSE staging'[x].kind # "dir" => x \in DOMAIN fetched /\ staging'[x] = fetched[x]
  <2>1. x \in Path /\ x # Outside
    BY <1>5, OutsideFacts
  <2>2. CASE x = q
    <3>1. static[p].kind # "dir"
      BY <2>1, <2>2
    <3> QED
      BY <1>3, <2>1, <2>2, <3>1
  <2>3. CASE x # q
    <3>1. \A s \in DOMAIN went' : went'[s] = x <=> s \in DOMAIN went /\ went[s] = x
      BY <1>3, <2>3
    <3>2. CASE x \in DOMAIN staging
      <4>1. staging'[x] = staging[x]
        BY <1>5, <2>3, <3>2 DEF Grows
      <4> QED
        BY <1>1, <1>3, <3>1, <3>2, <4>1 DEF Layered
    <3>3. CASE x \notin DOMAIN staging
      <4>1. staging'[x] = Folder
        BY <1>5, <2>3, <3>3 DEF Grows
      <4>2. ASSUME NEW s \in DOMAIN went
            PROVE  went[s] # x
        BY <1>1, <2>1, <3>3 DEF Complete, Gone
      <4> QED
        BY <3>1, <4>1, <4>2 DEF Folder
    <3> QED
      BY <3>2, <3>3
  <2> QED
    BY <2>2, <2>3
<1>9. Layered'
  BY <1>2, <1>8 DEF Layered
<1> QED
  BY <1>6, <1>7, <1>9

LEMMA SInvMerge ==
    ASSUME SInv, NEW p \in todo, MergeEntry(p)
    PROVE  SInv'
<1>1. /\ stagingPc = "merge" /\ UNCHANGED << stagingPc, meta, reload, image >>
      /\ todo' = todo \ {p} /\ UNCHANGED << fetched, static, place >>
      /\ Given
  BY DEF MergeEntry, Given
<1>2. /\ StagingTypeOK /\ IsTree(staging) /\ IsTree(static) /\ LinksKnown
      /\ meta = {} /\ Found /\ p \in DOMAIN static /\ DOMAIN went \subseteq Overlaid \ todo
  BY <1>1, GivenFacts DEF SInv, StagingTypeOK, Complete
<1>3. p \in Path /\ static[p] \in Node
  BY <1>2 DEF IsTree
<1>4. Grows(staging, staging)
  BY DEF Grows
<1>5. Front(p) \in Seq(Name) /\ p \in Seq(Name) /\ Len(p) - 1 = Len(Front(p))
  BY <1>3, FrontFacts, PathFacts
\* No link of the entry's way that is not known.
<1>6. ASSUME ~ HasLink(Way(p))
      PROVE  Plain(staging, p)
  <2>1. \A x \in Way(p) : Kind(staging, x) # "link"
    BY <1>2, <1>6, NoLinks
  <2> QED
    BY <1>5, <2>1 DEF Plain
<1>7. ASSUME ~ HasLink(Parents(p))
      PROVE  EntryAt(staging, p) = p
  <2>1. \A x \in Parents(p) : Kind(staging, x) # "link"
    BY <1>2, <1>7, NoLinks
  <2> QED
    BY <1>2, <1>3, <2>1, PlainFront
<1>8. ASSUME IsTree(staging'), Complete', LinksKnown', Layered',
             DOMAIN went' \subseteq DOMAIN went \cup {p}
      PROVE  SInv'
  <2>1. (DOMAIN went \subseteq DOMAIN static \ todo)'
    BY <1>1, <1>2, <1>8 DEF StagingTypeOK
  <2>2. StagingTypeOK'
    BY <1>1, <1>2, <1>8, <2>1 DEF StagingTypeOK
  <2> QED
    BY <1>1, <1>2, <1>8, <2>2 DEF SInv, Found
<1>9. ASSUME NEW q
      PROVE  DOMAIN Put(went, p, q) \subseteq DOMAIN went \cup {p}
  BY DEF Put, Over
<1>10. CASE static[p].kind = "dir" /\ MergedDir(p)
  <2>1. PICK k \in 0 .. Len(p) : Makes(staging, p, k) /\ staging' = Made(staging, p, k)
    BY <1>10 DEF MergedDir
  <2>2. went' = went
    BY <1>10 DEF MergedDir
  <2>3. PICK t : t = Made(staging, p, k)
    OBVIOUS
  <2>4. /\ IsTree(t) /\ Grows(staging, t)
        /\ Plain(staging, p) => (p # << >> => p \in DOMAIN t)
    BY <1>2, <1>5, <2>1, <2>3, MadeFacts
  <2>5. p \in DOMAIN t \/ HasLink(Way(p))
    BY <1>3, <1>6, <2>4 DEF Path
  <2>6. PICK q \in Path \cup {Outside} : q = Outside
    OBVIOUS
  <2>7. /\ DOMAIN staging' = DOMAIN t \cup ({q} \ {Outside})
        /\ \A r \in DOMAIN t \ {q} : staging'[r] = t[r]
    BY <2>1, <2>3, <2>6
  <2>8. Complete' /\ LinksKnown' /\ Layered'
    BY <1>1, <1>10, <2>2, <2>4, <2>5, <2>6, <2>7, Keeps
  <2> QED
    BY <1>8, <2>1, <2>2, <2>3, <2>4, <2>8
<1>11. CASE static[p].kind = "link" /\ MergedLink(p)
  <2>1. PICK q : q = EntryAt(staging, p)
    OBVIOUS
  <2>2. /\ q \in Path /\ IsDir(staging, Front(q)) /\ ~ HasChildren(staging, q)
        /\ staging' = Put(staging, q, static[p]) /\ went' = Put(went, p, q)
    BY <1>11, <2>1 DEF MergedLink
  <2>3. DOMAIN staging' = DOMAIN staging \cup {q}
    BY <2>2 DEF Put, Over
  <2>4. staging'[q] = static[p]
    BY <2>2 DEF Put, Over
  <2>5. \A r \in DOMAIN staging \ {q} : staging'[r] = staging[r]
    BY <2>2 DEF Put, Over
  <2>6. IsTree(staging')
    <3>1. \A r \in Parents(q) : Kind(staging, r) = "dir"
      BY <1>2, <2>2, ParentsAreDirs
    <3>2. \A r \in DOMAIN staging : q \notin Parents(r)
      BY <2>2 DEF HasChildren
    <3> QED
      BY <1>2, <1>3, <2>2, <2>3, <2>4, <2>5, <3>1, <3>2, TreeWritten
  <2>7. q = p \/ HasLink(Parents(p))
    BY <1>7, <2>1
  <2>8. q \in Path \cup {Outside} /\ DOMAIN staging' = DOMAIN staging \cup ({q} \ {Outside})
    BY <2>2, <2>3, OutsideFacts
  <2>9. Complete' /\ LinksKnown' /\ Layered'
    <3>1. \A r \in DOMAIN staging \ {q} : staging'[r] = staging[r]
      BY <2>5
    <3> QED
      BY <1>1, <1>2, <1>4, <1>11, <2>2, <2>4, <2>7, <2>8, <3>1, Keeps
  <2> QED
    BY <1>8, <1>9, <2>2, <2>6, <2>9
<1>12. CASE static[p].kind = "file" /\ MergedFile(p)
  <2>1. PICK k \in 0 .. Len(p) - 1 :
            /\ Makes(staging, Front(p), k)
            /\ Written(Made(staging, Front(p), k), p, static[p])
            /\ went' = Put(went, p, Real(Made(staging, Front(p), k), p))
    BY <1>12 DEF MergedFile
  <2>2. PICK t : t = Made(staging, Front(p), k)
    OBVIOUS
  <2>3. IsTree(t) /\ Grows(staging, t)
    <3>1. k \in 0 .. Len(Front(p))
      BY <1>5
    <3> QED
      BY <1>2, <1>5, <2>1, <2>2, <3>1, MadeFacts
  <2>4. PICK q : q = Real(t, p)
    OBVIOUS
  <2>5. /\ q \in Path /\ IsDir(t, Front(q)) /\ Kind(t, q) # "dir"
        /\ staging' = Copied(t, q, static[p]) /\ went' = Put(went, p, q)
    BY <2>1, <2>2, <2>4 DEF Written
  <2>6. /\ DOMAIN staging' = DOMAIN t \cup {q}
        /\ \A r \in DOMAIN t \ {q} : staging'[r] = t[r]
        /\ staging'[q] \in Node
        /\ staging'[q].kind = static[p].kind /\ staging'[q].data = static[p].data
    <3>1. Copies(t, q, static[p], staging')
      BY <1>3, <2>3, <2>5, CopiedFacts
    <3> QED
      BY <3>1 DEF Copies
  <2>7. IsTree(staging')
    <3>1. \A r \in Parents(q) : Kind(t, r) = "dir"
      BY <2>3, <2>5, ParentsAreDirs
    <3>2. \A r \in DOMAIN t : q \notin Parents(r)
      BY <2>3, <2>5, NoChildren
    <3> QED
      BY <2>3, <2>5, <2>6, <3>1, <3>2, TreeWritten
  <2>8. q = p \/ HasLink(Way(p))
    <3> SUFFICES ASSUME ~ HasLink(Way(p))
                 PROVE  q = p
      OBVIOUS
    <3>1. Plain(t, p)
      BY <1>6, <2>3, GrowsFacts
    <3> QED
      BY <2>4, <3>1, RealFacts
  <2>9. q \in Path \cup {Outside} /\ DOMAIN staging' = DOMAIN t \cup ({q} \ {Outside})
    BY <2>5, <2>6, OutsideFacts
  <2>10. Complete' /\ LinksKnown' /\ Layered'
    BY <1>1, <1>12, <2>3, <2>5, <2>6, <2>8, <2>9, Keeps
  <2> QED
    BY <1>8, <1>9, <2>5, <2>7, <2>10
<1>13. CASE MergedOutside(p)
  <2>1. PICK q \in Path \cup {Outside} : q = Outside
    OBVIOUS
  <2>2. /\ Outside = IF static[p].kind = "link" THEN EntryAt(staging, p) ELSE Real(staging, p)
        /\ went' = IF static[p].kind = "dir" THEN went ELSE Put(went, p, q)
        /\ staging' = staging
    BY <1>13, <2>1 DEF MergedOutside
  <2>3. p # Outside
    BY <1>3, OutsideFacts
  <2>4. HasLink(IF static[p].kind = "link" THEN Parents(p) ELSE Way(p))
    <3>1. CASE static[p].kind = "link"
      BY <1>7, <2>2, <2>3, <3>1
    <3>2. CASE static[p].kind # "link"
      <4> SUFFICES ASSUME ~ HasLink(Way(p))
                   PROVE  FALSE
        BY <3>2
      <4>1. Real(staging, p) = p
        BY <1>6, RealFacts
      <4> QED
        BY <2>2, <2>3, <3>2, <4>1
    <3> QED
      BY <3>1, <3>2
  <2>5. /\ DOMAIN staging' = DOMAIN staging \cup ({q} \ {Outside})
        /\ \A r \in DOMAIN staging \ {q} : staging'[r] = staging[r]
    BY <2>1, <2>2
  <2>6. IF static[p].kind = "dir"
        THEN q = Outside /\ went' = went /\ (p \in DOMAIN staging \/ HasLink(Way(p)))
        ELSE /\ went' = Put(went, p, q)
             /\ q = p \/ HasLink(IF static[p].kind = "link" THEN Parents(p) ELSE Way(p))
             /\ q # Outside => /\ staging'[q].kind = static[p].kind
                               /\ staging'[q].data = static[p].data
    BY <2>1, <2>2, <2>4
  <2>7. Complete' /\ LinksKnown' /\ Layered'
    BY <1>1, <1>2, <1>4, <2>5, <2>6, Keeps
  <2>8. DOMAIN went' \subseteq DOMAIN went \cup {p} /\ IsTree(staging')
    BY <1>2, <1>9, <2>2
  <2> QED
    BY <1>8, <2>7, <2>8
<1> QED
  BY <1>10, <1>11, <1>12, <1>13 DEF MergeEntry

-----------------------------------------------------------------------------
(* CreateSysext *)

\* Where a path leads depends on directories and links only.
LEMMA SameEntry ==
    ASSUME NEW t, NEW u, WithoutFiles(t) = WithoutFiles(u),
           \A x : Kind(t, x) = "link" <=> Kind(u, x) = "link"
    PROVE  \A p : EntryAt(t, p) = EntryAt(u, p)
<1>1. \A p : Plain(t, p) <=> Plain(u, p)
  BY DEF Plain
<1>2. ASSUME NEW p
      PROVE  Real(t, p) = Real(u, p)
  <2>1. CASE Plain(t, p)
    BY <1>1, <2>1 DEF Real
  <2>2. CASE ~ Plain(t, p)
    <3>1. Walked(WithoutFiles(t), p) = Walked(WithoutFiles(u), p)
      OBVIOUS
    <3>2. PICK q : q = Walked(WithoutFiles(u), p)
      OBVIOUS
    <3>3. Real(t, p) = IF Plain(t, q) \/ q = Outside THEN q ELSE Nowhere
      BY <2>2, <3>1, <3>2 DEF Real
    <3>4. Real(u, p) = IF Plain(u, q) \/ q = Outside THEN q ELSE Nowhere
      BY <1>1, <2>2, <3>2 DEF Real
    <3> QED
      BY <1>1, <3>3, <3>4
  <2> QED
    BY <2>1, <2>2
<1> QED
  BY <1>2 DEF EntryAt

\* What a valid tree has begins with /usr or /opt, but for files at the top.
LEMMA ValidTops ==
    ASSUME NEW tree, IsTree(tree), Valid(tree),
           NEW p \in DOMAIN tree, tree[p].kind = "dir" \/ Len(p) > 1
    PROVE  p[1] \in {"usr", "opt"}
<1>1. p \in Path /\ Len(p) \in Nat \ {0}
  BY PathFacts DEF IsTree
<1>2. CASE Len(p) > 1
  <2>1. PICK top \in Parents(p) : Len(top) = 1 /\ top[1] = p[1]
    BY <1>1, <1>2, TopIsParent
  <2>2. Kind(tree, top) = "dir"
    BY DEF IsTree
  <2>3. top \in DOMAIN tree
    BY <2>2, KindIs
  <2> QED
    BY <2>1, <2>2, <2>3 DEF Valid
<1>3. CASE ~ (Len(p) > 1)
  <2>1. Len(p) = 1
    <3>1. \A n \in Nat \ {0} : ~ (n > 1) => n = 1
      OBVIOUS
    <3> QED
      BY <1>1, <1>3, <3>1
  <2>2. Kind(tree, p) = "dir"
    BY <1>3 DEF Kind
  <2> QED
    BY <2>1, <2>2 DEF Valid
<1> QED
  BY <1>2, <1>3

\* What extension-release leaves: u is the tree t but for files, and those and
\* the new directories are below /usr, if no link is in their way.
Released(t, u) ==
    /\ IsTree(t) /\ Grows(staging, t) /\ IsTree(u)
    /\ DOMAIN t \subseteq DOMAIN u
    /\ \A x \in DOMAIN u :
           \/ x \in DOMAIN t /\ u[x] = t[x]
           \/ /\ u[x].kind = "file" /\ Kind(t, x) \in {"file", "none"}
              /\ HasLink(Way(Release)) \/ x[1] = "usr"
    /\ \A x \in DOMAIN t \ DOMAIN staging : HasLink(Way(Release)) \/ x[1] = "usr"

LEMMA ReleasedFacts ==
    ASSUME NEW t, NEW u, Released(t, u)
    PROVE  /\ \A x : Kind(t, x) = "link" <=> Kind(u, x) = "link"
           /\ \A p : EntryAt(t, p) = EntryAt(u, p)
<1>1. IsTree(t) /\ IsTree(u) /\ DOMAIN t \subseteq DOMAIN u
  BY DEF Released
<1>2. \A x \in DOMAIN u :
          \/ x \in DOMAIN t /\ u[x] = t[x]
          \/ u[x].kind = "file" /\ Kind(t, x) \in {"file", "none"}
  BY DEF Released
<1>3. \A x : Kind(t, x) = "link" <=> Kind(u, x) = "link"
  BY <1>1, <1>2 DEF Kind
<1>4. WithoutFiles(t) = WithoutFiles(u)
  <2> DEFINE D == { x \in DOMAIN t : t[x].kind # "file" }
             E == { x \in DOMAIN u : u[x].kind # "file" }
  <2>1. ASSUME NEW x \in DOMAIN t
        PROVE  Kind(t, x) = t[x].kind /\ t[x].kind # "none"
    <3>1. Kind(t, x) = t[x].kind
      BY DEF Kind
    <3> QED
      BY <1>1, <3>1, KindIs
  <2>2. ASSUME NEW x \in D
        PROVE  x \in E /\ t[x] = u[x]
    BY <1>1, <1>2, <2>1
  <2>3. D = E
    <3>1. ASSUME NEW x \in E
          PROVE  x \in D
      BY <1>2
    <3> QED
      BY <2>2, <3>1
  <2>4. WithoutFiles(t) = [x \in D |-> t[x]] /\ WithoutFiles(u) = [x \in E |-> u[x]]
    BY DEF WithoutFiles
  <2> HIDE DEF D, E
  <2> QED
    BY <2>2, <2>3, <2>4
<1> QED
  BY <1>3, <1>4, SameEntry

LEMMA SInvReleased ==
    ASSUME SInv, stagingPc = "create", stagingPc' = "pack",
           UNCHANGED << todo, went, image, fetched, static, place >>,
           Valid(staging), NEW t, Released(t, staging'), reload' \in Reloads(t),
           meta' = { p \in DOMAIN staging' :
                         Kind(staging, p) = "none" \/ staging'[p] # staging[p] }
    PROVE  SInv'
<1>1. /\ StagingTypeOK /\ IsTree(staging) /\ Complete /\ LinksKnown /\ Layered
      /\ todo = {} /\ meta = {}
  BY DEF SInv, StagingTypeOK
<1>2. /\ IsTree(staging') /\ DOMAIN staging \subseteq DOMAIN t
      /\ DOMAIN t \subseteq DOMAIN staging'
      /\ \A x \in DOMAIN staging : t[x] = staging[x]
  BY DEF Released, Grows
<1>3. ASSUME NEW x \in DOMAIN staging' \ meta'
      PROVE  x \in DOMAIN staging /\ staging'[x] = staging[x]
  <2>1. Kind(staging, x) # "none" /\ staging'[x] = staging[x]
    OBVIOUS
  <2> QED
    BY <1>1, <2>1, KindIs
<1>4. ASSUME NEW X
      PROVE  HasLink(X)' <=> HasLink(X)
  BY DEF HasLink
<1>5. Found' = Found /\ Overlaid' = Overlaid
  BY DEF Found, Overlaid
<1>6. StagingTypeOK'
  <2>1. reload' \in BOOLEAN
    BY DEF Reloads, hasSystemdUnits
  <2> QED
    BY <1>1, <1>2, <2>1 DEF StagingTypeOK
<1>7. Complete'
  <2>1. \A s \in DOMAIN went : Gone(s)'
    BY <1>1, <1>2, <1>4 DEF Complete, Gone
  <2> QED
    BY <1>1, <1>2, <1>4, <1>5, <2>1 DEF Complete
<1>8. LinksKnown'
  <2>1. \A x : Kind(staging', x) = "link" => Kind(staging, x) = "link"
    <3>1. Grows(staging, t)
      BY DEF Released
    <3> QED
      BY <3>1, ReleasedFacts, GrowsFacts
  <2> QED
    BY <1>1, <1>4, <2>1 DEF LinksKnown
<1>9. Layered'
  <2> SUFFICES ASSUME NEW x \in DOMAIN staging' \ meta'
               PROVE  IF \E s \in DOMAIN went : went[s] = x
                      THEN \E s \in DOMAIN went : /\ went[s] = x
                                                  /\ staging'[x].kind = static[s].kind
                                                  /\ staging'[x].data = static[s].data
                      ELSE staging'[x].kind # "dir" =>
                               x \in DOMAIN fetched /\ staging'[x] = fetched[x]
    BY DEF Layered
  <2> QED
    BY <1>1, <1>3 DEF Layered
<1>10. TopsMerged'
  <2> SUFFICES ASSUME NEW x \in DOMAIN staging', staging'[x].kind = "dir" \/ Len(x) > 1
               PROVE  x[1] \in {"usr", "opt"} \/ (x \in meta' /\ HasLink(Way(Release)))
    BY <1>4 DEF TopsMerged
  <2>1. CASE x \notin meta'
    <3>1. x \in DOMAIN staging /\ (staging[x].kind = "dir" \/ Len(x) > 1)
      BY <1>3, <2>1
    <3> QED
      BY <1>1, <3>1, ValidTops
  <2>2. CASE x \in meta'
    <3>1. CASE x \in DOMAIN staging /\ staging'[x] = t[x]
      BY <1>1, <1>2, <2>2, <3>1, KindIs
    <3>2. CASE ~ (x \in DOMAIN staging /\ staging'[x] = t[x])
      BY <2>2, <3>2 DEF Released
    <3> QED
      BY <3>1, <3>2
  <2> QED
    BY <2>1, <2>2
<1>11. Reloading'
  <2>1. PICK e : e = EntryAt(t, UnitDir)
    OBVIOUS
  <2>2. EntryAt(staging', UnitDir) = e
    BY <2>1, ReleasedFacts
  <2> SUFFICES ASSUME e # Outside
               PROVE  /\ \A p \in DOMAIN staging' \ meta' :
                             staging'[p].kind # "dir" /\ e \in Way(p) => reload'
                      /\ reload' => \E p \in DOMAIN staging' :
                                        staging'[p].kind # "dir" /\ e \in Way(p)
    BY <2>2 DEF Reloading
  <2>3. reload' <=> \E p \in DOMAIN t : Kind(t, p) # "dir" /\ e \in Way(p)
    <3>1. reload' = hasSystemdUnits(t)
      BY <2>1 DEF Reloads
    <3> QED
      BY <2>1, <3>1 DEF hasSystemdUnits
  <2>4. ASSUME NEW p \in DOMAIN staging' \ meta', staging'[p].kind # "dir", e \in Way(p)
        PROVE  reload'
    <3>1. p \in DOMAIN t /\ Kind(t, p) # "dir"
      BY <1>2, <1>3, <2>4 DEF Kind
    <3> QED
      BY <2>3, <2>4, <3>1
  <2>5. ASSUME NEW p \in DOMAIN t, Kind(t, p) # "dir", e \in Way(p)
        PROVE  p \in DOMAIN staging' /\ staging'[p].kind # "dir"
    BY <1>2, <2>5 DEF Released, Kind
  <2> QED
    BY <2>3, <2>4, <2>5
<1> QED
  BY <1>1, <1>5, <1>6, <1>7, <1>8, <1>9, <1>10, <1>11 DEF SInv

LEMMA SInvRelease == SInv /\ writeExtensionRelease => SInv'
<1> SUFFICES ASSUME SInv, writeExtensionRelease
             PROVE  SInv'
  OBVIOUS
<1> DEFINE node == [kind |-> "file", data |-> << "metadata" >>, mode |-> 644]
<1>1. /\ stagingPc = "create" /\ stagingPc' = "pack" /\ Valid(staging)
      /\ UNCHANGED << todo, went, image, fetched, static, place >>
      /\ meta' = { p \in DOMAIN staging' :
                       Kind(staging, p) = "none" \/ staging'[p] # staging[p] }
      /\ \/ \E k \in 0 .. Len(ReleaseDir) :
                /\ Makes(staging, ReleaseDir, k)
                /\ reload' \in Reloads(Made(staging, ReleaseDir, k))
                /\ Written(Made(staging, ReleaseDir, k), Release, node)
         \/ reload' \in Reloads(staging) /\ staging' = staging
  BY DEF writeExtensionRelease, Given
<1>2. IsTree(staging) /\ LinksKnown
  BY <1>1 DEF SInv, StagingTypeOK
<1>3. node \in Node /\ node.kind = "file"
  <2>1. "metadata" \in Word
    BY StagingAssumption
  <2>2. << "metadata" >> \in Seq(Word)
    BY <2>1
  <2> QED
    BY <2>2 DEF Node
<1> HIDE DEF node
<1>4. ASSUME reload' \in Reloads(staging), staging' = staging
      PROVE  SInv'
  <2>1. Grows(staging, staging)
    BY DEF Grows
  <2>2. Released(staging, staging')
    BY <1>2, <1>4, <2>1 DEF Released
  <2> QED
    BY <1>1, <1>4, <2>2, SInvReleased
<1>5. ASSUME NEW k \in 0 .. Len(ReleaseDir), Makes(staging, ReleaseDir, k),
             reload' \in Reloads(Made(staging, ReleaseDir, k)),
             Written(Made(staging, ReleaseDir, k), Release, node)
      PROVE  SInv'
  <2>1. PICK t : t = Made(staging, ReleaseDir, k)
    OBVIOUS
  <2>2. ReleaseDir \in Seq(Name) /\ ReleaseDir # << >>
    BY ReleaseFacts DEF Path
  <2>3. IsTree(t) /\ Grows(staging, t)
    BY <1>2, <1>5, <2>1, <2>2, MadeFacts
  <2>4. Plain(staging, ReleaseDir) => \A x \in DOMAIN t \ DOMAIN staging : x[1] = "usr"
    BY <1>2, <1>5, <2>1, <2>2, MadeFacts, ReleaseFacts
  <2>5. PICK q : q = Real(t, Release)
    OBVIOUS
  <2>6. /\ q \in Path /\ IsDir(t, Front(q)) /\ Kind(t, q) # "dir"
        /\ staging' = Copied(t, q, node)
    BY <1>5, <2>1, <2>5 DEF Written
  <2>7. Copies(t, q, node, staging')
    BY <1>3, <2>3, <2>6, CopiedFacts
  <2>8. Kind(t, q) \in {"file", "none"}
    <3>1. Plain(t, q)
      BY <2>5, <2>6, RealFacts, OutsideFacts
    <3>2. Kind(t, q) # "link"
      BY <3>1 DEF Plain, Way
    <3> QED
      BY <2>3, <2>6, <3>2, KindIs
  <2>9. IsTree(staging')
    <3>1. \A r \in Parents(q) : Kind(t, r) = "dir"
      BY <2>3, <2>6, ParentsAreDirs
    <3>2. \A r \in DOMAIN t : q \notin Parents(r)
      BY <2>3, <2>6, NoChildren
    <3>3. /\ DOMAIN staging' = DOMAIN t \cup {q}
          /\ \A r \in DOMAIN t \ {q} : staging'[r] = t[r]
          /\ staging'[q] \in Node
      BY <2>7 DEF Copies
    <3> QED
      BY <2>3, <2>6, <3>1, <3>2, <3>3, TreeWritten
  <2>10. ASSUME ~ HasLink(Way(Release))
         PROVE  q[1] = "usr" /\ \A x \in DOMAIN t \ DOMAIN staging : x[1] = "usr"
    <3>1. \A x \in Way(Release) : Kind(staging, x) # "link"
      BY <1>2, <2>10, NoLinks
    <3>2. Plain(staging, Release) /\ Plain(staging, ReleaseDir)
      <4>1. Plain(staging, Release)
        BY <3>1, ReleaseFacts, PathFacts DEF Plain
      <4>2. Plain(staging, Front(Release))
        BY <1>2, <3>1, ReleaseFacts, PlainFront DEF Way
      <4> QED
        BY <4>1, <4>2, ReleaseFacts
    <3>3. Plain(t, Release)
      BY <2>3, <3>2, GrowsFacts
    <3>4. q = Release
      BY <2>5, <3>3, RealFacts
    <3> QED
      BY <2>4, <3>2, <3>4, ReleaseFacts
  <2>11. Released(t, staging')
    <3>1. ASSUME NEW x \in DOMAIN staging'
          PROVE  \/ x \in DOMAIN t /\ staging'[x] = t[x]
                 \/ /\ staging'[x].kind = "file" /\ Kind(t, x) \in {"file", "none"}
                    /\ HasLink(Way(Release)) \/ x[1] = "usr"
      <4>1. CASE x = q
        BY <1>3, <2>7, <2>8, <2>10, <4>1 DEF Copies
      <4>2. CASE x # q
        BY <2>7, <4>2 DEF Copies
      <4> QED
        BY <4>1, <4>2
    <3>2. DOMAIN t \subseteq DOMAIN staging'
      BY <2>7 DEF Copies
    <3> QED
      BY <2>3, <2>9, <2>10, <3>1, <3>2 DEF Released
  <2> QED
    BY <1>1, <1>5, <2>1, <2>11, SInvReleased
<1> QED
  BY <1>1, <1>4, <1>5

LEMMA SInvEnds ==
    SInv /\ (MergeEnds \/ populateWorkspace \/ BuildFails \/ UNCHANGED stagingVars) => SInv'
<1> SUFFICES ASSUME SInv,
                    MergeEnds \/ populateWorkspace \/ BuildFails \/ UNCHANGED stagingVars
             PROVE  SInv'
  OBVIOUS
<1>1. /\ UNCHANGED << fetched, static, place, todo, went, staging, meta, reload >>
      /\ \/ stagingPc = "merge" /\ todo = {} /\ stagingPc' = "create" /\ image' = image
         \/ stagingPc = "pack" /\ stagingPc' = "done" /\ image' = staging
         \/ stagingPc' = "failed" /\ image' = image
         \/ stagingPc' = stagingPc /\ image' = image
  BY DEF MergeEnds, populateWorkspace, BuildFails, stagingVars, Given
<1>2. StagingTypeOK'
  BY <1>1 DEF SInv, StagingTypeOK
<1>3. /\ \A X : HasLink(X)' <=> HasLink(X)
      /\ Found' <=> Found
  BY <1>1 DEF HasLink, Found
<1>4. Complete' <=> Complete
  BY <1>1, <1>3 DEF Complete, Gone, Overlaid
<1>5. LinksKnown' <=> LinksKnown
  BY <1>1, <1>3 DEF LinksKnown
<1>6. /\ Layered' <=> Layered
      /\ Reloading' <=> Reloading
  BY <1>1 DEF Layered, Reloading
<1>7. TopsMerged' <=> TopsMerged
  BY <1>1, <1>3 DEF TopsMerged
<1> QED
  BY <1>1, <1>2, <1>3, <1>4, <1>5, <1>6, <1>7 DEF SInv

LEMMA SInvAlways == StagingSpec => []SInv
<1>1. SInv /\ [StagingNext]_stagingVars => SInv'
  BY SInvFetch, SInvMerge, SInvRelease, SInvEnds DEF StagingNext
<1> QED
  BY <1>1, SInvInit, PTL DEF StagingSpec

-----------------------------------------------------------------------------
(* The properties *)

\* Types: the staging directory is a tree at every step, whatever links it has.
THEOREM StagingTypes == StagingSpec => []StagingTypeOK
<1>1. SInv => StagingTypeOK
  BY DEF SInv
<1> QED
  BY <1>1, SInvAlways, PTL

\* Systemd is made to reload if there are units where the unit directory is or
\* a link leads to, fetched or static, and only then.
THEOREM StagingReloads == StagingSpec => []ReloadIffUnits
<1>1. SInv => ReloadIffUnits
  <2> SUFFICES ASSUME SInv, Done
               PROVE  ReloadIffUnits
    BY DEF ReloadIffUnits
  <2>1. image = staging /\ Reloading
    BY DEF SInv, Done
  <2> QED
    BY <2>1 DEF ReloadIffUnits, Reloading
<1> QED
  BY <1>1, SInvAlways, PTL

\* All directories of an image are merged by systemd-sysext, but for those that
\* the metadata made where a link led.
THEOREM StagingDirectoriesMerged == StagingSpec => []DirectoriesAreMerged
<1>1. SInv => DirectoriesAreMerged
  BY DEF SInv, DirectoriesAreMerged, TopsMerged, Done
<1> QED
  BY <1>1, SInvAlways, PTL

\* The static files, where they are found, over what was fetched, and nothing
\* else; a static file is elsewhere than at its path only if a link is in its way.
THEOREM StagingOverlays == StagingSpec => []ImageIsOverlay
<1>1. SInv => ImageIsOverlay
  <2> SUFFICES ASSUME SInv, Done, Found
               PROVE  ImageIsOverlay
    BY DEF ImageIsOverlay
  <2>1. image = staging /\ todo = {} /\ Complete /\ Layered /\ IsTree(fetched)
    BY GivenFacts DEF SInv, Done
  <2>2. DOMAIN went = Overlaid
    BY <2>1 DEF Complete
  <2>3. ASSUME NEW s \in Overlaid
        PROVE  \/ went[s] = s
               \/ HasLink(IF static[s].kind = "link" THEN Parents(s) ELSE Way(s))
    BY <2>1, <2>2 DEF Complete, Gone
  <2>4. ASSUME NEW p \in DOMAIN image \ meta
        PROVE  IF \E s \in Overlaid : went[s] = p
               THEN \E s \in Overlaid : /\ went[s] = p
                                        /\ image[p].kind = static[s].kind
                                        /\ image[p].data = static[s].data
               ELSE image[p].kind # "dir" =>
                        Kind(fetched, p) # "none" /\ image[p] = fetched[p]
    <3>1. p \in DOMAIN fetched => Kind(fetched, p) # "none"
      BY <2>1, KindIs
    <3> QED
      BY <2>1, <2>2, <3>1 DEF Layered
  <2>5. ASSUME NEW p \in DOMAIN image \ meta
        PROVE  LET here == { s \in Overlaid : went[s] = p }
                   Is(n) == image[p].kind = n.kind /\ image[p].data = n.data
               IN  IF here # {} THEN \E s \in here : Is(static[s])
                   ELSE image[p].kind # "dir" =>
                            Kind(fetched, p) # "none" /\ image[p] = fetched[p]
    BY <2>4
  <2> QED
    BY <2>3, <2>5 DEF ImageIsOverlay
<1> QED
  BY <1>1, SInvAlways, PTL

\* Nothing that was fetched is missing, nor any static file, where they are found.
THEOREM StagingLosesNothing == StagingSpec => []NothingIsLost
<1>1. SInv => NothingIsLost
  <2> SUFFICES ASSUME SInv, Done
               PROVE  NothingIsLost
    BY DEF NothingIsLost
  <2>1. image = staging /\ todo = {} /\ Complete /\ IsTree(static)
    BY GivenFacts DEF SInv, Done
  <2>2. ASSUME Found, NEW s \in Overlaid
        PROVE  /\ went[s] \in DOMAIN image \cup {Outside}
               /\ s \in DOMAIN image \/ HasLink(Way(s))
    <3>1. Gone(s) /\ s \in DOMAIN static
      BY <2>1, <2>2 DEF Complete, Overlaid
    <3>2. s # Outside
      BY <2>1, <3>1, OutsideFacts DEF IsTree
    <3>3. Parents(s) \subseteq Way(s)
      BY DEF Way
    <3>4. HasLink(Parents(s)) => HasLink(Way(s))
      BY <3>3, HasLinkWidens
    <3> QED
      BY <2>1, <3>1, <3>2, <3>4 DEF Gone
  <2>3. ASSUME Found, NEW s \in DOMAIN static
        PROVE  s \in DOMAIN image \/ HasLink(Way(s))
    <3>1. CASE static[s].kind = "dir"
      BY <2>1, <2>3, <3>1 DEF Complete
    <3>2. CASE static[s].kind # "dir"
      BY <2>2, <2>3, <3>2 DEF Overlaid
    <3> QED
      BY <3>1, <3>2
  <2>4. DOMAIN fetched \subseteq DOMAIN image
    BY <2>1 DEF Complete
  <2> QED
    BY <2>2, <2>3, <2>4 DEF NothingIsLost
<1> QED
  BY <1>1, SInvAlways, PTL
=============================================================================
