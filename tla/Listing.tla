------------------------------- MODULE Listing -------------------------------
(***************************************************************************)
(* What a list of releases promises its caller, while the releases change. *)
(***************************************************************************)
EXTENDS GitHub

VARIABLE result   \* << >>, or << the list >> when it is answered

\* Nothing but releases, and none that was not one while the list was made.
ListsReleases(list) == ToSet(list) \subseteq sometime

\* A release that was there all the time is listed, unless it is older than
\* the pages go back or another one was withdrawn meanwhile.
MissesNothing(list) ==
    "withdrawn" \notin edits =>
        \A x \in always : Rank(x) <= Cap => x \in ToSet(list)

\* If nothing happened upstream the list is exact: the newest of GitHub's
\* list, each once, newest first.
IsExactWhenQuiet(list) ==
    edits = {} /\ latest = AtStart =>
        list = NewestFirst({ x \in final : Rank(x) <= Cap })

\* A release may be listed again, when new ones push it to the next page, but
\* one that is listed for the first time is older than all before it.
IsNewestFirst(list) ==
    edits = {} /\ latest - AtStart <= PerPage =>
        \A i \in 2 .. Len(list) :
            \/ \E k \in 1 .. i - 1 : list[k] = list[i]
            \/ \A k \in 1 .. i - 1 : list[k] > list[i]

Answer ==
    /\ result = << >> /\ Len(result') = 1
    /\ ListsReleases(result'[1])
    /\ MissesNothing(result'[1])
    /\ IsExactWhenQuiet(result'[1])
    /\ IsNewestFirst(result'[1])
    /\ UNCHANGED github

\* The caller is done with the list; it may ask for another, and what is there all
\* the time of that one is what is there now.
Done ==
    /\ result # << >> /\ result' = << >>
    /\ always' \in {always, final}
    /\ UNCHANGED << upstream, final, latest, sometime, edits >>

ListingInit == GitHubInit /\ result = << >>

ListingNext == Answer \/ Done \/ (GitHubChanges /\ UNCHANGED result)

ListingSpec == ListingInit /\ [][ListingNext]_<< github, result >>
=============================================================================
