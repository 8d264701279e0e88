------------------------------ MODULE CRITools ------------------------------
(***************************************************************************)
(* latestCRIToolsForK8s: which release of cri-tools an image's crictl is.  *)
(* FetchKubernetes and FetchEKSD look it up once for each architecture of  *)
(* an invocation, every time in a new list of listGitHubReleases           *)
(* (Discovery), while cri-tools publishes and withdraws.                   *)
(***************************************************************************)
EXTENDS Discovery

CONSTANTS
    OfMinor,   \* the releases whose tag begins with the Kubernetes minor
    Lookups    \* how many architectures the invocation builds

VARIABLES
    asked,     \* the lookup it is at
    chosen     \* what the lookups so far were answered

toolsVars == << vars, asked, chosen >>

ASSUME CRIToolsAssumption == Lookups \in Nat \ {0}

\* The loop over the tags, and its fallback.  The first two definitions are
\* mutants.
NewestOfAll(tags) == tags[1]

OldestOfMinor(tags) ==
    LET matches == { i \in DOMAIN tags : tags[i] \in OfMinor }
    IN  tags[IF matches = {} THEN 1 ELSE Max(matches)]

latestCRIToolsForK8s(tags) ==
    LET matches == { i \in DOMAIN tags : tags[i] \in OfMinor }
    IN  tags[IF matches = {} THEN 1 ELSE Min(matches)]

CRIToolsInit == Init /\ asked = 1 /\ chosen = << >>

\* The requests of one lookup.
List == (GetPage \/ GetEmptyPage \/ GetPageFails) /\ UNCHANGED << asked, chosen >>

Choose ==
    /\ pc = "done" /\ Len(chosen) < asked
    /\ allTags # << >>
    /\ chosen' = Append(chosen, latestCRIToolsForK8s(allTags))
    /\ UNCHANGED << github, client, asked >>

NoReleases ==
    /\ pc = "done" /\ Len(chosen) < asked
    /\ allTags = << >>
    /\ pc' = "failed"
    /\ UNCHANGED << github, page, allTags, asked, chosen >>

\* The command goes on to the next architecture; what is there all the time of
\* the new lookup is what is there now.
NextLookup ==
    /\ pc = "done" /\ Len(chosen) = asked
    /\ asked < Lookups
    /\ asked' = asked + 1
    /\ pc' = "page" /\ page' = 1 /\ allTags' = << >>
    /\ always' = final
    /\ UNCHANGED << upstream, final, latest, sometime, edits, chosen >>

CRIToolsNext ==
    \/ List \/ Choose \/ NoReleases \/ NextLookup
    \/ GitHubChanges /\ UNCHANGED << client, asked, chosen >>

CRIToolsSpec == CRIToolsInit /\ [][CRIToolsNext]_toolsVars

-----------------------------------------------------------------------------

CRIToolsTypeOK ==
    /\ TypeOK
    /\ asked \in 1 .. Lookups
    /\ chosen \in Seq(sometime)
    /\ Len(chosen) = asked \/ Len(chosen) = asked - 1

\* c is no worse an answer than x: of the minor if x is, and not older than x
\* unless it is of the minor and x is not.
NoWorse(c, x) ==
    \/ c >= x /\ (x \in OfMinor => c \in OfMinor)
    \/ c \in OfMinor /\ x \notin OfMinor

Withdrawn == "withdrawn" \in edits

\* latestCRIToolsForK8s: among the newest Cap releases of cri-tools no version
\* that was there all the time of the lookup is a better answer than the one
\* that is chosen, whatever is published or promoted between two pages: one of
\* the Kubernetes minor before any other, the newest of them.  A release that is
\* withdrawn can move a better one off the page that is asked for next.
CrictlTracksMinor ==
    Len(chosen) = asked /\ ~ Withdrawn =>
        \A x \in always : Rank(x) <= Cap => NoWorse(chosen[asked], x)

\* FetchKubernetes and FetchEKSD, called for one architecture after another:
\* the images of an index have the same crictl if cri-tools does nothing
\* meanwhile; if it does, a later image has no worse one than an earlier image,
\* as long as that one is among the newest Cap releases.
ImagesAgreeOnCrictl ==
    \A k \in DOMAIN chosen : \A i \in 1 .. k - 1 :
        /\ ~ Withdrawn /\ Rank(chosen[i]) <= Cap => NoWorse(chosen[k], chosen[i])
        /\ edits = {} /\ latest = AtStart => chosen[k] = chosen[i]
=============================================================================
