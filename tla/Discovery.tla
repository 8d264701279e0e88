------------------------------ MODULE Discovery ------------------------------
(***************************************************************************)
(* listGitHubReleases: a list of releases is fetched page by page, and the *)
(* list changes between two pages.  The commands "list" and "release" (for *)
(* the version of crictl) obtain versions this way.                        *)
(***************************************************************************)
EXTENDS GitHub

VARIABLES
    pc,
    page,
    allTags

client == << pc, page, allTags >>
vars == << github, client >>

Init ==
    /\ GitHubInit
    /\ pc = "page"
    /\ page = 1
    /\ allTags = << >>

\* What GitHub answers for "?per_page=<PerPage>&page=<n>".
Page(n) == { x \in upstream : PerPage * (n - 1) < Rank(x) /\ Rank(x) <= PerPage * n }

\* The loop's filter, and ListContainerdVersions' of the "api/" releases.  The
\* first definition is a mutant, as in every pair of this kind.
TagsOfAnyKind(releases) == NewestFirst(releases)

TagsOf(releases) == NewestFirst(releases \cap final)

\* The loop ends after the last page, however short a page is.
LastPageIfShort == page = MaxPages \/ Len(TagsOf(Page(page))) < PerPage

LastPage == page = MaxPages

GetPage ==
    /\ pc = "page"
    /\ Page(page) # {}
    /\ allTags' = allTags \o TagsOf(Page(page))
    /\ page' = page + 1
    /\ pc' = IF LastPage THEN "done" ELSE "page"
    /\ UNCHANGED github

GetEmptyPage ==
    /\ pc = "page"
    /\ Page(page) = {}
    /\ pc' = "done"
    /\ UNCHANGED << github, page, allTags >>

\* No answer, or a status that is not 200, as that of a client that has asked
\* too often: what was listed so far is dropped.
GetPageFails ==
    /\ pc = "page"
    /\ pc' = "failed"
    /\ UNCHANGED << github, page, allTags >>

Next == \/ GetPage
        \/ GetEmptyPage
        \/ GetPageFails
        \/ pc = "page" /\ GitHubChanges /\ UNCHANGED client

Spec == Init /\ [][Next]_vars

-----------------------------------------------------------------------------

TypeOK ==
    /\ upstream \subseteq 1 .. latest
    /\ final \subseteq upstream
    /\ latest \in Nat
    /\ always \subseteq final /\ final \subseteq sometime
    /\ edits \subseteq {"promoted", "withdrawn"}
    /\ pc \in {"page", "done", "failed"}
    /\ page \in 1 .. MaxPages + 1
    /\ allTags \in Seq(sometime) /\ Len(allTags) <= PerPage * (page - 1)

\* The pages together are what Listing promises, whatever upstream does
\* between two of them: releases only; none missed unless one was withdrawn;
\* exact when nothing happened; new entries in falling order.
L == INSTANCE Listing WITH
         result <- IF pc = "done" THEN << allTags >> ELSE << >>

ListingPromise == L!ListingSpec
=============================================================================
