------------------------------ MODULE Versions -------------------------------
(***************************************************************************)
(* fetchK8sVersions: the Kubernetes versions in the release schedule, in   *)
(* the order of the strings semverTuple makes of them.                     *)
(*                                                                         *)
(* A version is its three numbers.  The schedule grows as upstream starts  *)
(* minor versions and releases patches, the newest of each first.          *)
(***************************************************************************)
EXTENDS Integers, Sequences, SequencesExt

CONSTANTS
    Minors,     \* minor versions upstream starts
    Patches     \* patch numbers it gives out

VARIABLES
    schedules,  \* the schedule: entries [minor, previousPatches]
    pad         \* what fmt's "%05s" fills a string with

versionsVars == << schedules, pad >>

Numbers == 0 .. 99999

ASSUME NumbersAssumption == Minors \subseteq Numbers /\ Patches \subseteq Numbers

Version == Numbers \X Numbers \X Numbers

-----------------------------------------------------------------------------
(* semverTuple, with characters as their codes *)

Space == 32
Dot == 46
Zero == 48

Power == << 10000, 1000, 100, 10, 1 >>

Digits(n) == Cardinality({ k \in 1 .. 4 : n >= Power[k] }) + 1

\* The five characters of "%05s" for the decimal digits of a number.  Releases
\* of Go differ in whether zeros fill strings too.  The first definition is a
\* mutant, as in every pair of this kind.
PaddedRight(n, i, p) ==
    LET d == Digits(n)
    IN  IF i > d THEN p ELSE Zero + ((n \div Power[i + 5 - d]) % 10)

Padded(n, i, p) ==
    LET q == n \div Power[i]
    IN  IF q = 0 /\ i < 5 THEN p ELSE Zero + (q % 10)

semverTuple(v, p) ==
    [i \in 1 .. 17 |-> IF i % 6 = 0 THEN Dot
                       ELSE Padded(v[1 + i \div 6], i % 6, p)]

\* Go's "<" on strings, of one length here.
StringLess(s, t) ==
    \E i \in 1 .. 17 : s[i] < t[i] /\ \A k \in 1 .. i - 1 : s[k] = t[k]

semverLess(a, b, p) == StringLess(semverTuple(a, p), semverTuple(b, p))

-----------------------------------------------------------------------------
(* fetchK8sVersions *)

\* Versions of the 1.x series: entry.Release is "1.33".
PatchVersions(entry) == [i \in DOMAIN entry.previousPatches |->
                            << 1, entry.minor, entry.previousPatches[i] >>]

LatestOfTwoNumbers(entry) ==
    IF entry.previousPatches # << >> THEN << PatchVersions(entry)[1] >>
    ELSE << << 1, entry.minor >> >>

LatestOf(entry) ==
    IF entry.previousPatches # << >> THEN << PatchVersions(entry)[1] >>
    ELSE << << 1, entry.minor, 0 >> >>

Gather(entry, latestOnly) ==
    IF latestOnly THEN LatestOf(entry) ELSE PatchVersions(entry)

\* What the loop appends.  The place of a version is its entry, and which of the
\* entry's it is.
Places(latestOnly) ==
    UNION { {i} \X DOMAIN Gather(schedules[i], latestOnly) : i \in DOMAIN schedules }

Gathered(latestOnly) ==
    [place \in Places(latestOnly) |-> Gather(schedules[place[1]], latestOnly)[place[2]]]

\* sort.Sort(sort.Reverse(semverSlice(versions))): the r-th has fewer than r
\* before it, and all but the first r, or more, behind it.
Sorted(versions) ==
    LET behind == [a \in DOMAIN versions |->
                      { b \in DOMAIN versions \ {a} :
                            semverLess(versions[b], versions[a], pad) }]
        before == [a \in DOMAIN versions |->
                      { b \in DOMAIN versions : a \in behind[b] }]
        size == Cardinality(DOMAIN versions)
    IN  [r \in 1 .. size |->
            versions[CHOOSE a \in DOMAIN versions :
                         /\ Cardinality(before[a]) < r
                         /\ r <= size - Cardinality(behind[a])]]

fetchK8sVersions(latestOnly) == Sorted(Gathered(latestOnly))

ListKubernetesVersions == fetchK8sVersions(FALSE)
LatestKubernetesVersions == fetchK8sVersions(TRUE)

-----------------------------------------------------------------------------

VersionsInit == schedules = << >> /\ pad \in {Space, Zero}

MinorOf(i) == schedules[i].minor

\* The newest minor version stands first.
StartMinor(m) ==
    /\ \A i \in DOMAIN schedules : MinorOf(i) < m
    /\ schedules' = << [minor |-> m, previousPatches |-> << >>] >> \o schedules
    /\ UNCHANGED pad

ReleasePatch(i, n) ==
    /\ \A k \in DOMAIN schedules[i].previousPatches :
           schedules[i].previousPatches[k] < n
    /\ schedules' = [schedules EXCEPT ![i].previousPatches = << n >> \o @]
    /\ UNCHANGED pad

VersionsNext == \/ \E m \in Minors : StartMinor(m)
        \/ \E i \in DOMAIN schedules, n \in Patches : ReleasePatch(i, n)

VersionsSpec == VersionsInit /\ [][VersionsNext]_versionsVars

-----------------------------------------------------------------------------

VersionsTypeOK ==
    /\ schedules \in Seq([minor : Minors, previousPatches : Seq(Patches)])
    /\ pad \in {Space, Zero}
    /\ \A latestOnly \in BOOLEAN : fetchK8sVersions(latestOnly) \in Seq(Version)

\* The order of versions by their numbers.
Older(a, b) ==
    \/ a[1] < b[1]
    \/ a[1] = b[1] /\ a[2] < b[2]
    \/ a[1] = b[1] /\ a[2] = b[2] /\ a[3] < b[3]

\* ListKubernetesVersions returns the patch releases of the schedule, each
\* once and newest first, whatever the number of digits and the padding.
ListedNewestFirst ==
    LET list == ListKubernetesVersions IN
    /\ \A i \in 2 .. Len(list) : Older(list[i], list[i - 1])
    /\ ToSet(list) = UNION { ToSet(PatchVersions(schedules[i])) :
                                 i \in DOMAIN schedules }
=============================================================================
