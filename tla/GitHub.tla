------------------------------- MODULE GitHub -------------------------------
(***************************************************************************)
(* A project's releases on GitHub, and what happens to them between the    *)
(* moment a list is asked for (the initial state) and its answer: upstream *)
(* publishes, promotes and withdraws releases.                             *)
(*                                                                         *)
(* Releases are numbered in the order of their publication; GitHub lists   *)
(* them newest first.                                                      *)
(***************************************************************************)
EXTENDS Integers, SequencesExt

CONSTANTS
    PerPage,     \* 30 in the code
    MaxPages,    \* 5 in the code
    AtStart,     \* how many releases were published when the list is asked for
    MaxReleases  \* a bound on the releases ever published

VARIABLES
    upstream,    \* the releases GitHub lists
    final,       \* those that are versions: no pre-releases, drafts or
                 \* releases of a submodule
    latest,      \* the newest one ever published
    always,      \* history: those that were final all the time
    sometime,    \* history: those that were final at some time
    edits        \* history: what happened to releases that were there

github == << upstream, final, latest, always, sometime, edits >>

ASSUME ListingAssumption ==
    /\ PerPage \in Nat \ {0} /\ MaxPages \in Nat \ {0}
    /\ AtStart \in Nat /\ MaxReleases \in Nat

Cap == PerPage * MaxPages

\* The place of a release in GitHub's list.
Rank(x) == Cardinality({ y \in upstream : y >= x })

NewestFirst(S) ==
    CHOOSE s \in SetToSeqs(S) : \A i, k \in DOMAIN s : i < k => s[i] > s[k]

GitHubInit ==
    /\ upstream \in SUBSET (1 .. AtStart)
    /\ final \in SUBSET upstream
    /\ latest = AtStart
    /\ always = final
    /\ sometime = final
    /\ edits = {}

Publish ==
    /\ latest < MaxReleases
    /\ latest' = latest + 1
    /\ upstream' = upstream \cup {latest + 1}
    /\ \/ UNCHANGED << final, sometime >>
       \/ /\ final' = final \cup {latest + 1}
          /\ sometime' = sometime \cup {latest + 1}
    /\ UNCHANGED << always, edits >>

\* A pre-release or draft becomes a version.
Promote(x) ==
    /\ final' = final \cup {x}
    /\ sometime' = sometime \cup {x}
    /\ edits' = edits \cup {"promoted"}
    /\ UNCHANGED << upstream, latest, always >>

Withdraw(x) ==
    /\ upstream' = upstream \ {x}
    /\ final' = final \ {x}
    /\ always' = always \ {x}
    /\ edits' = edits \cup {"withdrawn"}
    /\ UNCHANGED << latest, sometime >>

GitHubChanges ==
    \/ Publish
    \/ \E x \in upstream \ final : Promote(x)
    \/ \E x \in upstream : Withdraw(x)
=============================================================================
