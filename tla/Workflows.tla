----------------------------- MODULE Workflows ------------------------------
(***************************************************************************)
(* The GitHub workflows that run sysext-pkg for one component:             *)
(*                                                                         *)
(*    release-one   started by hand for one version (release.yaml)         *)
(*    release-all   started daily, for every version upstream lists        *)
(*    rebuild       started by a push to main that touches files/, for     *)
(*                  every version the repository lists (rebuild.yaml)      *)
(*                                                                         *)
(* A job fixes the static files it will pack when it checks the repository *)
(* out, obtains its list of versions, and then runs "sysext-pkg release"   *)
(* for one version after the other, whatever becomes of each ("|| true").  *)
(* The jobs of different workflows overlap freely; of the rebuilds of a    *)
(* component one runs and one waits (a concurrency group).                 *)
(*                                                                         *)
(* The n-th invocation of job j is the run <<j, n>> of module Release.     *)
(***************************************************************************)
EXTENDS Release, SequencesExt

CONSTANTS
    Job,        \* the jobs that are ever started
    JobKind,    \* the workflow of each
    Upstream,   \* what "sysext-pkg list" prints
    MaxListed,  \* a bound on the versions of one job
    DefaultArches   \* the default of --arches, which the workflows use

VARIABLES
    head,       \* how many pushes to main have changed files/
    phase,      \* how far each job is
    files,      \* the value of head in the commit a job has checked out
    listed,     \* the versions it goes through
    begun,      \* for how many of them it has started a release
    overlap     \* history: the jobs that existed while it was at work

workflow == << head, phase, files, listed, begun, overlap >>
wfVars == << vars, workflow >>

Kinds == {"release-one", "release-all", "rebuild"}

ASSUME JobAssumption ==
    /\ JobKind \in [Job -> Kinds]
    /\ Upstream \in Seq(Version)
    /\ MaxListed \in Nat \ {0}
    /\ DefaultArches \in ArchList
    /\ SkipModes = BOOLEAN
    /\ Len(Upstream) <= MaxListed
    /\ IsFiniteSet(Version) /\ Cardinality(Version) <= MaxListed
    /\ Run = Job \X (1 .. MaxListed)

Rebuilds == { j \in Job : JobKind[j] = "rebuild" }

AtWork == {"listing", "releasing"}
Waiting == {"queued", "pending"}
Over == {"done", "skipped", "cancelled", "failed"}

WFInit ==
    /\ Init
    /\ head = 0
    /\ phase = [j \in Job |-> "idle"]
    /\ files = [j \in Job |-> 0]
    /\ listed = [j \in Job |-> << >>]
    /\ begun = [j \in Job |-> 0]
    /\ overlap = [j \in Job |-> {}]

\* What a job that changes phase records, for every job at work after it.
RecordOverlap ==
    overlap' = [j \in Job |->
        IF phase'[j] \in AtWork
        THEN overlap[j] \cup { k \in Job : phase'[k] \in Waiting \cup AtWork }
        ELSE overlap[j]]

-----------------------------------------------------------------------------
(* Starting a job *)

\* workflow_dispatch, with the version as input: there is nothing to list.
StartReleaseOne(j) ==
    /\ phase[j] = "idle" /\ JobKind[j] = "release-one"
    /\ phase' = [phase EXCEPT ![j] = "releasing"]
    /\ files' = [files EXCEPT ![j] = head]
    /\ \E v \in Version : listed' = [listed EXCEPT ![j] = << v >>]
    /\ RecordOverlap
    /\ UNCHANGED << vars, head, begun >>

\* The schedule.
StartReleaseAll(j) ==
    /\ phase[j] = "idle" /\ JobKind[j] = "release-all"
    /\ phase' = [phase EXCEPT ![j] = "listing"]
    /\ files' = [files EXCEPT ![j] = head]
    /\ RecordOverlap
    /\ UNCHANGED << vars, head, listed, begun >>

\* A push to main changes the component's files.  The rebuild it starts
\* checks that commit out, and the job "detect" finds the component.
PushFilesNotOnMain(j) ==
    /\ phase[j] = "idle" /\ j \in Rebuilds
    /\ phase' = [phase EXCEPT ![j] = "queued"]
    /\ files' = [files EXCEPT ![j] = head + 1]
    /\ RecordOverlap
    /\ UNCHANGED << vars, head, listed, begun >>

PushFiles(j) ==
    /\ phase[j] = "idle" /\ j \in Rebuilds
    /\ head' = head + 1
    /\ phase' = [phase EXCEPT ![j] = "queued"]
    /\ files' = [files EXCEPT ![j] = head + 1]
    /\ RecordOverlap
    /\ UNCHANGED << vars, listed, begun >>

\* A push of several commits: the checkout of "detect" has depth 2 and does
\* not hold the commit before the push, so git diff fails, the pipeline prints
\* the empty list all the same, and no component is rebuilt.
PushFilesUndetected(j) ==
    /\ phase[j] = "idle" /\ j \in Rebuilds
    /\ head' = head + 1
    /\ phase' = [phase EXCEPT ![j] = "skipped"]
    /\ RecordOverlap
    /\ UNCHANGED << vars, files, listed, begun >>

\* "detect" is done, and the rebuild enters the concurrency group.  The one
\* that was waiting there is cancelled, the one at work is not.
EnterGroup(j) ==
    /\ phase[j] = "queued"
    /\ phase' = [k \in Job |-> IF k = j THEN "pending"
                               ELSE IF phase[k] = "pending" THEN "cancelled"
                               ELSE phase[k]]
    /\ RecordOverlap
    /\ UNCHANGED << vars, head, files, listed, begun >>

GroupFreeUnlessFailed ==
    \A k \in Rebuilds : phase[k] \notin AtWork \cup {"failed"}

GroupFree == \A k \in Rebuilds : phase[k] \notin AtWork

StartRebuild(j) ==
    /\ phase[j] = "pending"
    /\ GroupFree
    /\ phase' = [phase EXCEPT ![j] = "listing"]
    /\ RecordOverlap
    /\ UNCHANGED << vars, head, files, listed, begun >>

\* "detect" fails, or somebody cancels a rebuild that waits.
CancelWaiting(j) ==
    /\ phase[j] \in Waiting
    /\ phase' = [phase EXCEPT ![j] = "cancelled"]
    /\ RecordOverlap
    /\ UNCHANGED << vars, head, files, listed, begun >>

-----------------------------------------------------------------------------
(* The list of versions *)

SetList(j, versions) ==
    /\ phase' = [phase EXCEPT ![j] = "releasing"]
    /\ listed' = [listed EXCEPT ![j] = versions]
    /\ RecordOverlap
    /\ UNCHANGED << vars, head, files, begun >>

\* sysext-pkg list <component>.  When it fails the step fails, and the job.
ListUpstream(j) ==
    /\ phase[j] = "listing" /\ JobKind[j] = "release-all"
    /\ SetList(j, Upstream)

ListUpstreamFails(j) ==
    /\ phase[j] = "listing" /\ JobKind[j] = "release-all"
    /\ phase' = [phase EXCEPT ![j] = "failed"]
    /\ RecordOverlap
    /\ UNCHANGED << vars, head, files, listed, begun >>

\* ListPublishedTags.  Only names of the model's Version are returned: the
\* bound that ends the growth of variants of variants.
PublishedTags ==
    { t \in TagName : tags[t] # Absent /\ isFullVersionTag(t) } \cap Version

\* sysext-pkg tags <component>, which prints the tags in the registry's order.
ListPublished(j) ==
    /\ phase[j] = "listing" /\ j \in Rebuilds
    /\ PublishedTags # {}
    /\ \E s \in SetToSeqs(PublishedTags) : SetList(j, s)

\* No published tags, or an error: "2>/dev/null || true" makes one of both,
\* and the job ends in success without a rebuild.
ListPublishedEmpty(j) ==
    /\ phase[j] = "listing" /\ j \in Rebuilds
    /\ phase' = [phase EXCEPT ![j] = "skipped"]
    /\ RecordOverlap
    /\ UNCHANGED << vars, head, files, listed, begun >>

-----------------------------------------------------------------------------
(* The loop over the versions *)

\* The shell waits for a release before it goes on.
BusyInBackground(j) == FALSE

Busy(j) == \E n \in 1 .. MaxListed : pc[<< j, n >>] \in Live

\* The command line of the loop's body.
ReleaseArgsAlwaysSkip(j, v) ==
    [version |-> v, arches |-> DefaultArches,
     skipExisting |-> TRUE, skipBuild |-> FALSE]

ReleaseArgs(j, v) ==
    [version |-> v, arches |-> DefaultArches,
     skipExisting |-> j \notin Rebuilds, skipBuild |-> FALSE]

NextVersion(j) ==
    LET n == begun[j] + 1 IN
    /\ phase[j] = "releasing"
    /\ ~ Busy(j)
    /\ n <= Len(listed[j])
    /\ LET x == ReleaseArgs(j, listed[j][n]) IN
           Begin(<< j, n >>, x, FirstStep(x))
    /\ begun' = [begun EXCEPT ![j] = n]
    /\ UNCHANGED << head, phase, files, listed, overlap >>

\* A step of the release a job is waiting for.
ReleaseStep(j) ==
    /\ \E n \in 1 .. MaxListed :
           LET r == << j, n >> IN
           \/ CheckTag(r)
           \/ BuildArch(r)
           \/ PushVariant(r)
           \/ PushVariantUnanswered(r)
           \/ PushIndexTag(r)
           \/ PushIndexTagUnanswered(r)
           \/ Fail(r)
    /\ UNCHANGED << head, phase, files, listed, begun, overlap >>

LoopIsOverEarly(j) == begun[j] + 1 >= Len(listed[j])

LoopIsOver(j) == begun[j] = Len(listed[j])

\* release-one has no "|| true": it fails with its release.
Finish(j) ==
    /\ phase[j] = "releasing" /\ ~ Busy(j) /\ LoopIsOver(j)
    /\ phase' = [phase EXCEPT ![j] =
           IF JobKind[j] = "release-one" /\ pc[<< j, 1 >>] = "failed"
           THEN "failed" ELSE "done"]
    /\ RecordOverlap
    /\ UNCHANGED << vars, head, files, listed, begun >>

\* Every release the job is waiting for ends where it is.
StopRuns(j) ==
    pc' = [r \in Run |-> IF r[1] = j /\ pc[r] \in Live THEN "failed" ELSE pc[r]]

\* The runner dies, somebody cancels the job, or it exceeds its time limit.
Kill(j) ==
    /\ phase[j] \in AtWork
    /\ phase' = [phase EXCEPT ![j] = "failed"]
    /\ StopRuns(j)
    /\ RecordOverlap
    /\ UNCHANGED << store, tags, run, head, files, listed, begun >>

-----------------------------------------------------------------------------

WFNext ==
    \E j \in Job :
        \/ StartReleaseOne(j)
        \/ StartReleaseAll(j)
        \/ PushFiles(j)
        \/ PushFilesUndetected(j)
        \/ EnterGroup(j)
        \/ CancelWaiting(j)
        \/ StartRebuild(j)
        \/ ListUpstream(j)
        \/ ListUpstreamFails(j)
        \/ ListPublished(j)
        \/ ListPublishedEmpty(j)
        \/ NextVersion(j)
        \/ ReleaseStep(j)
        \/ Finish(j)
        \/ Kill(j)

\* Nothing in the code bounds the time of a request, but a job that is at work
\* ends at the latest by GitHub's limit on the time of jobs, and GitHub starts
\* a job it may start.
Fairness ==
    \A j \in Job :
        /\ WF_wfVars(EnterGroup(j))
        /\ WF_wfVars(StartRebuild(j))
        /\ WF_wfVars(Kill(j))

WFSpec == WFInit /\ [][WFNext]_wfVars
FairWFSpec == WFSpec /\ Fairness

-----------------------------------------------------------------------------

WFTypeOK ==
    /\ head \in Nat
    /\ phase \in [Job -> {"idle"} \cup Waiting \cup AtWork \cup Over]
    /\ files \in [Job -> 0 .. head]
    /\ listed \in [Job -> Seq(Version)]
    /\ begun \in [Job -> Nat]
    /\ overlap \in [Job -> SUBSET Job]
    /\ \A j \in Job : /\ Len(listed[j]) <= MaxListed
                     /\ begun[j] <= Len(listed[j])

\* The jobs use the repository through releases only: what Release guarantees
\* for any set of runs holds for the workflows.
RunsAreReleases == Spec

\* A job that reports success has dealt with every version
\* of its list: it can be pulled, or its release has failed.
DoneMeansReleased ==
    \A j \in Job : phase[j] = "done" =>
        \A i \in 1 .. Len(listed[j]) :
            \/ tags[listed[j][i]] # Absent
            \/ pc[<< j, i >>] = "failed"

\* A rebuild that reports success has replaced the static files: the index of
\* a version it listed packs files as new as its own, unless the version's
\* release failed or another job that existed meanwhile put the index there.
FilesOf(m) == files[m.by[1]]

RebuildRefreshes ==
    \A j \in Rebuilds : phase[j] = "done" =>
        \A i \in 1 .. Len(listed[j]) :
            LET x == tags[listed[j][i]] IN
            x.kind = "index" /\ pc[<< j, i >>] # "failed" =>
                \A k \in 1 .. Len(x.manifests) :
                    \/ FilesOf(x.manifests[k]) >= files[j]
                    \/ x.manifests[k].by[1] \in overlap[j]

\* A job's loop releases one version after the other, and each moves the alias
\* of its minor: the alias is never left at a version when the job has released
\* another of that minor after it, an older one in a list newest first.
AliasIsLastReleased ==
    \A j \in Job : \A i \in 1 .. begun[j], k \in 1 .. begun[j] :
        i < k /\ pc[<< j, k >>] = "released" =>
            LET x == tags[k8sMajorMinor(listed[j][k])] IN
            x.kind = "index" => \A m \in 1 .. Len(x.manifests) :
                                    x.manifests[m].by # << j, i >>

\* Every rebuild that waits is started or cancelled, and comes to an end.
RebuildSettles ==
    \A j \in Rebuilds : phase[j] = "queued" ~> phase[j] \in Over

\* rebuild.yaml: published versions are re-pushed so that the new static files
\* are picked up.  When all jobs have succeeded, every version that can be
\* pulled packs the newest files.
Quiet == /\ \A j \in Job : phase[j] \in {"idle", "done"}
         /\ \A r \in Run : pc[r] # "failed"

FilesAreCurrent ==
    Quiet => \A v \in Version : tags[v].kind = "index" =>
                 \A k \in 1 .. Len(tags[v].manifests) :
                     FilesOf(tags[v].manifests[k]) = head

\* rebuild.yaml: every push that changes files rebuilds the published versions.
\* A rebuild is left out only when nothing is published.
NoRebuildOnlyWhenEmpty ==
    [][\A j \in Rebuilds : phase[j] # "skipped" /\ phase'[j] = "skipped"
                              => PublishedTags = {}]_wfVars

\* The layout of the repository: a "<version>-<arch>" tag holds the image of
\* one architecture.
VariantTagStaysImage ==
    \A t \in TagName : t.arches # << >> => tags[t].kind # "index"
=============================================================================
