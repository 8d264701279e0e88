------------------------------ MODULE Release -------------------------------
(***************************************************************************)
(* Invocations of "sysext-pkg release" and "sysext-pkg push" that write to *)
(* one component's OCI repository: runs started by hand, by the schedule   *)
(* and by a rebuild, on machines that share nothing but the registry.      *)
(*                                                                         *)
(* A step of a run is one request to the registry, or one build.  Every    *)
(* request that changes the registry has three outcomes beside being       *)
(* refused: it takes effect and is answered; it takes effect and the       *)
(* answer never comes, so the run reports an error; it takes effect and    *)
(* retry.DefaultClient, which newRepo installs, sends it once more.        *)
(*                                                                         *)
(* A run ends at any moment by an error return, a signal or the death of   *)
(* its machine.  Nothing of it survives but what the registry holds.       *)
(***************************************************************************)
EXTENDS Repository

CONSTANTS
    SkipModes,        \* values of --skip-existing that runs are started with
    TransportErrors   \* errors a HEAD request can end in, see Resolve

VARIABLES
    pc,       \* what each run does next
    args,     \* its command line
    descs,    \* its variable descs: the descriptors PushVariant returned
    pushed,   \* how many of its index tags have been pushed
    publishedAtStart,  \* history: its version had a tag when it started
    resolved  \* history: what its question for that tag was answered

run == << args, descs, pushed, publishedAtStart, resolved >>
vars == << store, tags, pc, run >>

Args == [version      : Version,
         arches       : ArchList,
         skipExisting : BOOLEAN,
         skipBuild    : BOOLEAN]

ASSUME SkipModesAssumption == SkipModes \subseteq BOOLEAN /\ SkipModes # {}

ASSUME TransportErrorsAssumption ==
    TransportErrors \subseteq {"other", "mentions404"}

Live == {"check", "build", "push", "index", "pushOnly"}
Ended == {"skipped", "released", "pushed", "failed"}

Init ==
    /\ RepoInit
    /\ pc = [r \in Run |-> "idle"]
    /\ args = [r \in Run |-> CHOOSE x \in Args : TRUE]
    /\ descs = [r \in Run |-> << >>]
    /\ pushed = [r \in Run |-> 0]
    /\ publishedAtStart = [r \in Run |-> FALSE]
    /\ resolved = [r \in Run |-> "unasked"]

-----------------------------------------------------------------------------
(* The head of "for _, arch := range arches": the step to take when n       *)
(* architectures are done.                                                  *)

NextArchSkipsLast(x, n) ==
    IF n + 1 >= Len(x.arches) THEN "index"
    ELSE IF x.skipBuild THEN "push" ELSE "build"

NextArch(x, n) ==
    IF n >= Len(x.arches) THEN "index"
    ELSE IF x.skipBuild THEN "push" ELSE "build"

\* Where a release starts.
FirstStep(x) == IF x.skipExisting THEN "check" ELSE NextArch(x, 0)

Begin(r, x, step) ==
    /\ pc[r] = "idle"
    /\ pc' = [pc EXCEPT ![r] = step]
    /\ args' = [args EXCEPT ![r] = x]
    /\ publishedAtStart' =
           [publishedAtStart EXCEPT ![r] = tags[x.version] # Absent]
    /\ UNCHANGED << store, tags, descs, pushed, resolved >>

\* sysext-pkg release <component> <version>
StartRelease(r) ==
    \E x \in Args :
        /\ x.skipExisting \in SkipModes
        /\ Begin(r, x, FirstStep(x))

\* sysext-pkg push <component> <version> <arch>, which has neither flag: it
\* pushes the file it is given without a look at the registry.
StartPush(r) ==
    \E x \in Args :
        /\ Len(x.arches) = 1 /\ ~ x.skipExisting /\ x.skipBuild
        /\ Begin(r, x, "pushOnly")

-----------------------------------------------------------------------------
(* --skip-existing *)

\* The errors repo.Resolve can return, "none" for a tag it found.  Of an
\* error of the transport only its text matters, for isNotFound searches that
\* text: a refused or timed out connection to, say, port 40412 mentions 404.
Resolve(t) == TransportErrors
              \cup {IF tags[t] = Absent THEN "notFound" ELSE "none"}

isNotFoundAnyError(err) == err # "none"

isNotFound(err) == err \in {"notFound", "mentions404"}

CheckTag(r) ==
    /\ pc[r] = "check"
    /\ \E err \in Resolve(args[r].version) :
        /\ resolved' = [resolved EXCEPT ![r] = err]
        /\ pc' = [pc EXCEPT ![r] =
                     IF err = "none" THEN "skipped"
                     ELSE IF isNotFound(err) THEN NextArch(args[r], 0)
                     ELSE "failed"]
    /\ UNCHANGED << store, tags, args, descs, pushed, publishedAtStart >>

-----------------------------------------------------------------------------
(* The loop over the architectures *)

\* runBuild left a .raw file for the architecture in --out.
BuildArch(r) ==
    /\ pc[r] = "build"
    /\ FetchFinds(args[r].version)
    /\ pc' = [pc EXCEPT ![r] = "push"]
    /\ UNCHANGED << store, tags, run >>

\* oras.Copy, of the image for the i-th architecture.
CopyVariantNoUpload(r, i) ==
    LET x == args[r] IN
    /\ tags' = [tags EXCEPT ![variantTag(x.version, x.arches[i])] =
                   ImageManifest(x.version, x.arches[i], r)]
    /\ UNCHANGED store

CopyVariant(r, i) ==
    LET x == args[r] IN
    Put(ImageManifest(x.version, x.arches[i], r),
             variantTag(x.version, x.arches[i]))

PushVariant(r) ==
    LET n == Len(descs[r])
        x == args[r]
    IN
    /\ pc[r] = "push"
    /\ CopyVariant(r, n + 1)
    /\ descs' = [descs EXCEPT ![r] =
           Append(@, ImageManifest(x.version, x.arches[n + 1], r))]
    /\ pc' = [pc EXCEPT ![r] = NextArch(x, n + 1)]
    /\ UNCHANGED << args, pushed, publishedAtStart, resolved >>

\* The registry took the variant and the run does not know it: it gives up,
\* or its transport sends the request again.
PushVariantUnanswered(r) ==
    /\ pc[r] = "push"
    /\ CopyVariant(r, Len(descs[r]) + 1)
    /\ \/ pc' = [pc EXCEPT ![r] = "failed"]
       \/ UNCHANGED pc
    /\ UNCHANGED run

\* The push command ends with its one variant.
PushOnly(r) ==
    /\ pc[r] = "pushOnly"
    /\ CopyVariant(r, 1)
    /\ \E answer \in {"pushed", "failed", "pushOnly"} :
           pc' = [pc EXCEPT ![r] = answer]
    /\ UNCHANGED run

-----------------------------------------------------------------------------
(* PushIndex: the loop over IndexTags(version) *)

PutIndexEmptyToo(r) ==
    Put(IndexManifest(descs[r]),
             IndexTags(args[r].version)[pushed[r] + 1])

PutIndex(r) ==
    /\ descs[r] # << >>
    /\ Put(IndexManifest(descs[r]),
                IndexTags(args[r].version)[pushed[r] + 1])

MoreIndexTagsOneTooMany(r) == pushed[r] <= Len(IndexTags(args[r].version))

MoreIndexTagsNever(r) == FALSE

MoreIndexTags(r) == pushed[r] + 1 < Len(IndexTags(args[r].version))

PushIndexTag(r) ==
    /\ pc[r] = "index"
    /\ PutIndex(r)
    /\ pushed' = [pushed EXCEPT ![r] = @ + 1]
    /\ pc' = [pc EXCEPT ![r] = IF MoreIndexTags(r) THEN "index" ELSE "released"]
    /\ UNCHANGED << args, descs, publishedAtStart, resolved >>

PushIndexTagUnanswered(r) ==
    /\ pc[r] = "index"
    /\ PutIndex(r)
    /\ \/ pc' = [pc EXCEPT ![r] = "failed"]
       \/ UNCHANGED pc
    /\ UNCHANGED run

-----------------------------------------------------------------------------

\* An error return before any effect of the step (a failed download or pack,
\* a refused request, no descriptors for the index) or the end of the process.
Fail(r) ==
    /\ pc[r] \in Live
    /\ pc' = [pc EXCEPT ![r] = "failed"]
    /\ UNCHANGED << store, tags, run >>

Next ==
    \E r \in Run :
        \/ StartRelease(r)
        \/ StartPush(r)
        \/ CheckTag(r)
        \/ BuildArch(r)
        \/ PushVariant(r)
        \/ PushVariantUnanswered(r)
        \/ PushOnly(r)
        \/ PushIndexTag(r)
        \/ PushIndexTagUnanswered(r)
        \/ Fail(r)

Spec == Init /\ [][Next]_vars

-----------------------------------------------------------------------------

\* Types, and the loop counters stay inside the lists they index.
TypeOK ==
    /\ RepoTypeOK
    /\ pc \in [Run -> {"idle"} \cup Live \cup Ended]
    /\ args \in [Run -> Args]
    /\ descs \in [Run -> Seq(Image)]
    /\ pushed \in [Run -> 0 .. 2]
    /\ publishedAtStart \in [Run -> BOOLEAN]
    /\ resolved \in [Run -> {"unasked", "none", "notFound", "other", "mentions404"}]
    /\ \A r \in Run :
        /\ pc[r] \in {"build", "push"} => Len(descs[r]) < Len(args[r].arches)
        /\ pc[r] = "index" => pushed[r] < 2

\* Whatever the runs do, the repository behaves as Repository promises: images
\* appear under their variant tags, an index of one run's complete release
\* under its version, and the minor alias moves only after the version.
RepositoryContract == RepoSpec

\* A published index is all of one run's release and nothing else: an image
\* for every architecture of that run's --arches, in order, packed by that
\* run, also when runs of one version overwrite each other's variant tags.
IndexCarriesEveryArch ==
    \A m \in store : m.kind = "index" =>
        \E r \in Run :
            /\ Len(m.manifests) = Len(args[r].arches)
            /\ \A i \in 1 .. Len(m.manifests) :
                   m.manifests[i] = [kind    |-> "image",
                                     version |-> args[r].version,
                                     arch    |-> args[r].arches[i],
                                     by      |-> r]

\* A run that was started with --skip-existing on a published version writes
\* something, an index or a single image, only if its one question for the tag
\* ended in an error of the transport whose text has a 404 in it.
SkippedWritesForCause ==
    \A r \in Run :
        args[r].skipExisting /\ publishedAtStart[r] =>
            \/ resolved[r] = "mentions404"
            \/ \A m \in store : m.kind = "image" => m.by # r

\* release publishes a version under its own tag and its minor's.  The alias is
\* missing only while the run whose index the version has is between the two, or
\* because it ended there: --skip-existing then skips the version for good.
AliasMissingForCause ==
    \A v \in Version :
        tags[v].kind = "index" /\ tags[k8sMajorMinor(v)] = Absent =>
            \E r \in Run : /\ args[r].version = v
                           /\ tags[v].manifests = descs[r]
                           /\ pc[r] \in {"index", "failed"}

\* README: the index of a full version is immutable.
ImmutableVersionTag ==
    [][\A v \in Version : tags[v] # Absent => tags'[v] = tags[v]]_vars
=============================================================================
