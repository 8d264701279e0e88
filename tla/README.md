# sysexts: TLA+ models and proofs

`sysext-pkg` builds systemd-sysext images (`.raw` squashfs files) of Kubernetes
components and publishes them to an OCI registry; GitHub workflows run it every
night, by hand, and whenever static files change. This directory holds models of
it, configurations that check them with TLC, and theorems TLAPS proves.
`PROJECT.json` maps every definition to the lines it models, and lists the runs,
the mutant each property must catch, the hazards and the findings.

## The system

| Part | State | Operations | Interacts with |
|---|---|---|---|
| Registry client, `internal/oci.go` | none of its own; manifests and tags in the registry | `PushVariant`, `PushIndex`, `TagExists`, `ListPublishedTags`, `IndexTags` | registry, by requests that `retry.DefaultClient` may repeat |
| Commands, `cmd/sysext-pkg/main.go` | `descs`, loop positions, the `.raw` in `--out` | `build`, `push`, `release`, `tags`, `list` | all of the below, in one goroutine |
| Image build, `internal/squashfs.go`, `runBuild`, `mergeDir` | staging directory, workspace, `.raw` file | `CreateSysext`, `validateStagingDir`, `writeExtensionRelease`, `padTo4096` | the file system, go-diskfs |
| Downloads, `internal/build.go` | files in the staging directory | the six `Fetch*` functions | upstream servers |
| Version discovery, `internal/versions.go` | none | `listGitHubReleases`, `fetchK8sVersions`, `semverTuple` | upstream servers |
| Components, `internal/runtime.go` | the constant `Registry` | `Get`, `ValidateCombination` | called by the commands (`ValidateCombination` by nothing) |
| Workflows, `release.yaml`, `rebuild.yaml` | jobs, checkouts, a concurrency group | release-one, release-all, detect, rebuild | run the commands, overlap each other |
| `scripts/check-versions.sh` | none | a report: `list` and `head` on a pipe, then `oras resolve` | `list`, registry |

No part keeps a record of its own: what a crashed or cancelled job left is what the
registry and the file system hold. Nothing orders two jobs but the concurrency group
of rebuilds. The hard behaviours are therefore interleavings at the registry (the
tag is checked minutes before it is written; variant tags are shared by all runs of
a version), partial failure (a release is up to four writes), lost answers and
repeated requests, lists and answers that are stale when they are used (published
tags, pages of releases, the newest crictl), and failures the shell hides (`|| true`,
pipelines with and without `pipefail`). `PROJECT.json` "hazards" names each at its
line.

What makes each part correct:

- registry contents: a tag never dangles; an index lists one run's complete set of
  images; a tag names what it holds; the version behind an alias can be pulled; a
  published version stays as it is under `--skip-existing`, but for one cause;
- jobs: success means the whole list was dealt with; a successful rebuild has
  replaced the files; a waiting rebuild is started or cancelled and ends;
- images: what is published of a build that ended is that build's image, whole and
  padded; its tree is what was fetched with the static files over it;
- downloads: a published checksum is verified; a fetch that succeeds is complete, as
  far as its archives are; every file is of the image's architecture; crictl's
  release is the best answer that can be listed;
- discovery: every release is listed, in order, whatever upstream does meanwhile;
- combinations: those the README of the repository lists are accepted, and nothing
  that none of them has together;
- the report: a component is left out, or printed, for a cause of its own.

## The modules

    Tags <- Repository <- Release <- Workflows
                ^            ^           ^
    RepositoryProofs <- ReleaseProofs <- WorkflowsProofs
    Release <- MCRelease     Workflows <- MCWorkflows

    GitHub <- Listing <.. Discovery <- CRITools    (Discovery extends GitHub too)
    CRITools, Versions, Combination, CheckVersions <- MCRegistry
    CRITools, Versions, Combination <- RegistryProofs
    Staging <- MCStaging      Fetch <- MCFetch
    Image, Fetch, MCStaging <- MCBuild
    ImageProofs, FetchProofs, StagingProofs, CheckVersionsProofs

An arrow points at the module that is extended, dots at one that is instantiated.
The four proof modules of the last line each extend the module they are named
after.

**Tags.** A tag is a record of what the string functions look at: its form
(`v1.33.1`, `v1.33`, `v1-35-eks-9`), the numbers, and the `-<arch>` suffixes.
`variantTag`, `k8sMajorMinor`, `IndexTags`, `parseEKSDTagOk` and `isFullVersionTag`
are the code's functions on it; two records are equal exactly when the strings are.

**Repository.** The abstract specification: a set of manifests, a table of tags, and
two actions, an image under its own variant tag and a complete index under its
version or, when the version is there, its alias. The four properties a pulling node
relies on are stated, and proved, here.

**Release.** Concurrent invocations of `release` and `push`. A run's `pc` is its next
request or build: `check` (`TagExists`), `build` (`runBuild`), `push`
(`PushVariant`), `index` (one `PushReference` of `PushIndex`), `pushOnly` (the push
command). `descs` and the loop positions are the local variables of the code. Every
write to the registry may take effect and be answered, take effect and be lost (the
run fails), or take effect and be repeated later by the transport, with other runs'
requests in between. `Fail` is any error return and any death of the process. The
image an `oras.Copy` writes appears with its tag at once: its blobs are uploaded
before its manifest, and nobody can see them earlier. A manifest carries its run
(`by`), as `oras.PackManifest` puts its time of creation into it.
`RepositoryContract` says that Release implements Repository; the variables
`store` and `tags` are the same, so the refinement mapping is the identity.

**Workflows.** The jobs that call `release`: when each checks out (`files` is how new
the static files are), how it obtains its list, the loop that hides failures,
GitHub's concurrency group (one at work, one waiting, the older waiting one
cancelled) and the end of jobs. The n-th invocation of job `j` is the run `<<j, n>>`
of Release, and `RunsAreReleases` says that the jobs do nothing else to the registry.
`overlap` is a history variable used by `RebuildRefreshes` only. Versions that
appear upstream while a job runs are left out.

**GitHub, Listing, Discovery.** GitHub is the list of a project's releases while
upstream publishes, promotes and withdraws some. Discovery adds the client:
`listGitHubReleases` asks for one page after the other, and the list changes in
between. Listing is its abstract specification: the answer is given in one step, and
must hold releases only, miss none that was there all the time (unless another was
withdrawn: the next page then begins one entry too late), be exact when nothing
happened upstream, and have its first occurrences in falling order. Discovery
implements it: Listing's `result` is `allTags` when the loop has ended, and nothing
before.

**CRITools.** `latestCRIToolsForK8s`, as `FetchKubernetes` and `FetchEKSD` call it:
once for each architecture of an invocation, every time on a new list of Discovery's
pages, with the cap on their number and whatever cri-tools does between two requests.
`Choose` is the loop over the tags with its fallback, `NextLookup` the next
architecture. A release that is further back than the pages go is not found, and the
newest of another minor is chosen (`CrictlTracksMinor` says which releases count); one
that is withdrawn can hide another.

**Versions.** `fetchK8sVersions` over a schedule that grows. `semverTuple` is a string
of seventeen characters as numbers; `%05s` pads a string with spaces, or with zeros
in some releases of Go, and both are modelled.

**Combination.** The constant registry, `ValidateCombination` as the operator its two
loops compute, and `Get`'s error, which lists the known names in the order of a Go
map, that is in any. The behaviours build every list of names one name at a time.

**Fetch.** The six `Fetch*` functions as sequences of requests and file operations,
one per architecture of `--arches`. An answer may hold other bytes than the
publisher's. A checksum may be right, wrong, missing, empty, or not list the file. An
archive is the members that are looked for, each where the code expects it, below or
beside that, or out of `cri-o`, or missing: `Lands` is what `extractTar`'s prefix and
guard make of a member's path, and `Moved` what is left of CRI-O's bundle after its
binaries are moved. `Move` fails where `os.ReadDir` does, if nothing was extracted to
`cri-o/bin`; with an empty or partly filled one it goes on. A file in the staging
directory carries its place, its architecture and the answer to the request for its
checksum. `Fetched` is the end of one architecture; CreateSysext's refusal of an
unknown architecture is its guard. Which release crictl is of is CRITools'.

**Staging.** One build's tree, a function from paths to nodes, through `mergeDir` (in
any order parents allow), `copyFile`, `validateStagingDir`, `writeExtensionRelease` and
`populateWorkspace`. A symbolic link, fetched or static, has any target: a name, a path
through `..`, an absolute one, a directory, nothing, another link, itself. `Follow`
takes one step along a path, `Walked` up to forty links of them, as Linux does, and
`Real` is the path without links that a path leads to, `Outside` for one that leaves
the staging directory (a file of the host that builds, of which nothing is known) or
`Nowhere`. `Made` is `os.MkdirAll`; `Written` opens what a path leads to. `went`, a
history variable, says where each static file was written. `place` is where the
repository has the static files, in the directory the registry names or in the one of
the README, which `runBuild` passes over.

**Image.** Concurrent invocations that build, push or both, in one `--out`
directory. The file is who wrote its body, who wrote its superblock, and its length
(`os.Create` truncates the same file; go-diskfs writes the superblock last;
`padTo4096` is a `Stat` and an append). `Hash` is `store.Add`, `Upload` is
`oras.Copy`, which reads the file again and is refused when its digest has changed.
`opener`, `overlapped`, `whole` and `takenFrom` are history variables.

**CheckVersions.** The script as three processes: the shell, `list` and `head`, with
the kernel's SIGPIPE for a writer whose reader is gone, and `pipefail`. Release jobs
publish meanwhile.

## Runs

| Run | Instance | Shows |
|---|---|---|
| `release` (Release.cfg) | 2 runs, 2 architectures in three lists (also the empty one), two patches of a minor, an EKS-D release and its variant tag; errors that mention 404 and others; 509,912 states up to symmetry | all invariants of Release and its contract |
| `nightly` (Nightly.cfg) | the nightly job and a rebuild, 2 versions, 1 architecture; 477,648 states | `DoneMeansReleased`, `RebuildRefreshes`, `AliasIsLastReleased`, `RunsAreReleases` |
| `rebuild_group` (RebuildGroup.cfg) | a manual release and 2 rebuilds, 1 version; 436,380 states | `RebuildRefreshes`, and `RebuildSettles` under fairness |
| `image` (Build.cfg) | fetch: 6 components, three lists of architectures; staging: 7 fetched trees, 10 of static files, both places; image: a release, a build and a push, a block of 4, images of 4 and 6; 354,001 states | the properties of Fetch, Staging and Image |
| `registry` (Registry.cfg) | releases: 2 pages of 2, 4 releases and 2 more, 2 lookups; schedule: 3 minors, 4 patches of one to five digits; names: lists of up to 4; the script: 3 components of up to 3 versions; 3,595,639 states | `ListingPromise`, `CrictlTracksMinor`, `ImagesAgreeOnCrictl`, `ListedNewestFirst`, `ExcludesRivals`, `SilentForCause`, `ReportedForCause` |
| `release_race` | 2 runs, one version, all with `--skip-existing` | finding: the immutable tag moves |
| `stale_files` | as `nightly` | finding: old files stay although all jobs succeed |
| `rebuild_variant` | the nightly job and a rebuild of EKS-D | finding: an index over a variant tag |
| `skipped_rebuild` | as `nightly` | finding: a push of several commits is not rebuilt |
| `no_checksum` | CNI plugins alone | finding: a missing checksum file ends in a panic |
| `skipped_stale` | the script over one component of two versions | finding: `list` dies of SIGPIPE and its component is skipped |
| `static_place` (MCStaging) | plain fetched trees, all static ones, in the README's place | finding: static files in the documented directory are in no image |

Runs marked finding look for one violation of what a comment or document of the
repository says; the sentence and the line are in "findings".

`registry` and `image` each check modules that share nothing at run time. A behaviour
is one module's (one chain of modules' from GitHub to CRITools): `question` or `stage`
is chosen at the start, and the variables of the others stand still. So their states
add up, and nothing is checked of their product. What Staging takes from Fetch is a
tree, given by `MCFetched`; what Image takes from Staging is a size.

*Why the bounds are enough.* Two runs: the registry keeps the last write of each tag,
a check compares it once, and an index refers only to its own run's images, so a
disagreement needs one writer between two steps of another. Two patches share an
alias, two architectures make an index that can be incomplete; the EKS-D version
has an index whose two tags are the same. Two versions and one rebuild let a list be
stale for one version and not for another; two rebuilds and a release let one wait
behind the other. In Image one crashed build, one that follows and one that reads
are the chain through which remains could be published; a third writer multiplies
the states to 27 million and was checked once. `MaxListed` and `Version` bound the
growth of variants of variants (`PublishedTags`). In Fetch two architectures are what can disagree; the list with `riscv64` ends in the
refusal, and every layout of the members an archive may have is tried. The trees of
Staging have each kind of link there is a rule for, in the way of a binary, of the unit
directory and of the metadata, and each kind of static entry over them. In Discovery
two pages of two have a full last page and a short one, and two new releases shift a
whole page; a release of crictl's minor that is the oldest then falls behind the last
page. Four names are one more than the largest valid combination; five digits are what
`%05s` is for. Three components give the script a predecessor and a successor of one
that is skipped, three lines a writer that is still at work when `head` has gone.

*Deadlock.* Every run ends when its processes have ended, so `CHECK_DEADLOCK` is off.

*Fairness.* Safety needs none. `RebuildSettles` assumes weak fairness of
`EnterGroup` and `StartRebuild` (GitHub starts a job it may start) and of `Kill`
(GitHub ends a job at its time limit). No fairness is assumed of any request: the
code sets no time limit on them, and a stalled one holds its job. Nothing is
assumed of the script's processes either, for `list` and `oras` wait for answers without
a limit: that the script ends is not claimed.

## Proofs

Eight modules, for every value of the constants. All invariants that the passing runs
check are theorems; so are the three refinements
(Release of Repository, Workflows of Release, Discovery of Listing).

- *Repository.* The types, and each of `TagsResolve`, `TagNamesContent` and
  `AliasFollowsVersion`; each is inductive with the types. `TagsStay` is used for
  the last: tags move, they never go.
- *Release.* `Inv` is `TypeOK`, `DescsPushed` (descs describes, in order, manifests
  of this run that are in the registry) and `LoopState` (the loop position and `pc`
  agree; after the first tag of an index the version can be pulled). It is needed
  because `PutIndex` checks only that `descs` is not empty: that `descs` is complete
  and its images are there is what the loop before has established.
  `ReleaseImplementsRepository` follows by mapping each step to an action of
  Repository or a stutter, and with it the three corollaries.
  `ReleaseIndexCarriesEveryArch` adds that a run keeps its command line, and
  `ReleaseSkippedWritesForCause` that a published tag stays published and a run that
  skips writes nothing, unless its question was answered by an error that reads like a
  404: `resolved` keeps the answer, and the theorem has no hypothesis.
  `ReleaseAliasMissingForCause` follows each run from the version's tag to the
  alias: no other run removes either, so one that went on has set it.
- *Workflows.* `WFInv` adds `JobRuns` (a job runs one release at a time, so that
  killing it ends one run) and `NotBegun`. `WorkflowsImplementRelease` maps every
  step of a job to a step of Release, so the properties of Release hold for the
  workflows.
- *Workflows, jobs.* `JobsInv` is about the loop: the n-th release of a job has the n-th version
  of its list (`ListedRuns`), one that ended well left its version published
  (`Published`), a job that is done has been through its list (`DoneBegun`), and so
  `DoneMeansReleased`. `RebuildRefreshes` needs to know who may replace an index the
  rebuild has pushed: a job that existed while it was at work is in `overlap`, and
  one that was started later checked out files as new (`Overlaps`), so `Refreshed`
  is inductive. `AliasIsLastReleased` is inductive with `ListedRuns`: a job runs one
  release at a time, so an ended one no longer writes.
- *Image.* `FileInv`: while no two builds overlap only the opener writes, and the
  file holds what it has written; `PushInv`: the registry has what was read. The
  remains of an earlier build do not matter because `os.Create` truncates.
  `PadLengthAligns` is proved for every block.
- *Fetch.* `FInv`, on which all four theorems rest. Each Fetch function is written out
  as a table (`StepsAre`) and divided into phases by what has become of its archive: not
  there yet, packed, extracted and not moved, or where it stays. For each phase
  `Origin` says where the files of the staging directory came from, `Kept` that what
  the archive held in the expected place is where the phase has it, `Left` which steps
  have left their files; `Pending` says for each step what the last checksum can have
  been answered, which is what ties `DownloadFile` to the request before it, and so
  `FetchVerifies` to the order of the steps. An image is a staging directory at the end
  of a function, and the next one starts empty. `FetchImageIsOfItsArch` needs a
  disjunct more, for a file of another architecture than the directory's (k3s): it is
  staged only for an architecture `CreateSysext` refuses.
- *Staging.* `SInv` says of the staging directory, at each entry of the walk, what the
  properties say of the image, for trees with any links. Nothing fetched is missing, and
  each static entry that the walk came to has gone to its own path or to where a link
  led (`Complete`, `Gone`); every link is one that was fetched or is static
  (`LinksKnown`), which makes the excuse "a link is in the way" a fact about what was
  given; a path holds one of the static files that went there, or what was fetched
  (`Layered`); and after the metadata, `Reloading` and `TopsMerged`. Nothing is
  proved by induction along a walk: `RealFacts` is about its result, which is a path
  without links, `Outside` or `Nowhere`, and a path with no link in its way leads to
  itself. `MadeFacts` and `CopiedFacts` say what
  `os.MkdirAll` and an opened file change in a tree, and that it stays one.
  `writeExtensionRelease` asks for the units before it writes, so `Reloading` is about
  two trees, and `SameEntry` makes the unit directory the same in both.
- *Discovery.* `ListInv`, between two pages: a release that was there all the time and
  stands before the next page is listed, unless one was withdrawn (`Missed`); with no
  changes the list is exactly what stands before it (`Exact`); and first occurrences
  fall (`NewestFirstUnlessAgain`), for which `NoGap` is needed: among the releases that
  were there all the time, what is listed leaves no gap, so an entry of a later page
  that stands above an earlier one was listed already. All count in ranks; `RankGrows` is what
  publishing does to one, and `NewestFirstConcat` joins a page to the list before.
  `DiscoveryImplementsListing` maps the last page to Listing's one step, and every
  other step to a change at GitHub or a stutter.
- *CRITools.* `ToolsInv`: while there are no withdrawals, no release that was there all
  the time comes later in the list than an older one (`NotLate`), though the list may
  be out of order and hold releases twice; so the first tag of the minor is not older
  than any such release of it, and the fallback not older than any other. After the last
  page the list has all of these that are within the cap (`Complete`). `LaterIsNoWorse`
  carries that from one lookup to the next: what was chosen was a release all the time
  of the later lookup, or is too far back by then.
- *check-versions.sh.* `CheckInv` says of the current pipe which of its ends has ended
  and why (`PipeInv`), and of every component the loop has left behind that it is
  reported or excused by a cause of its own (`BehindInv`); `list` killed by SIGPIPE is
  such a cause, and having several versions is not.
- *Combinations.* `CombinationsExclude`, for lists of every length: with the registry
  as it is, two components share a role exactly if they exclude each other, and so
  the second loop decides alone except for repetitions and k3s.
- *Versions.* `SemverOrder`, for all versions of up to five digits and both paddings:
  the first digit that differs decides the number and the string. `Sorted` says what
  the sort promises, by how many versions are before and behind each; as the schedule
  falls (`ScheduleInv`) its versions differ, the number of newer ones is a place of
  their own for each, and by the pigeonhole principle every place of the list is taken
  (`SortedFacts`).

Assumptions are the `ASSUME`s of the modules: lists of architectures are sequences of
architectures, versions are tags, sizes are positive, trees have their parents, and
the set of runs of the workflows is jobs times list positions. No
temporal theorem has a hypothesis beyond its specification.

*Model-checked only.* `RebuildSettles`: liveness is beyond the prover.

*Models and provers.* The provers do not see operators of the module TLC (`:>`, `@@`,
`SortSeq`) or recursion over data, so Staging writes its functions out, GitHub's
`NewestFirst` is the sequence that falls, by CHOOSE, and Versions numbers what the
loop appends instead of flattening it; nor that a string is in `STRING`, so the names
in Staging's paths are from a constant, `Word`.

## Disagreements without a run

Met while modelling; the models follow the code.

- `versions.go:133`: releases published between two requests are pushed to the next
  page, and an entry is printed twice; Listing allows it.
- `versions.go:158` speaks of "optional GITHUB_TOKEN auth", and `httpGet` sends no
  token: listings are an anonymous client's and run into its limit; `GetPageFails`
  is that outcome.
- `versions.go:195` speaks of a zero-padded string; `%05s` pads with spaces in most
  releases of Go. The order is the same (`SemverOrder`).
- `versions.go:60` lists `v1.34.0` as the latest of a minor version without patches,
  which the full list does not have (`LatestOf`, `PatchVersions`).
- `README.md:28` of the repository says that `ValidateCombination` enforces the valid
  combinations of its lines 18-26 at build time. It refuses what excludes each other
  and requires nothing, so a runtime alone, or a node with the CNI plugins, is accepted,
  and no command calls it. `ExcludesRivals` claims the refusals and the listed
  combinations only.
- `runtime.go:167` calls the list of `knownNames` sorted; it is in the order of a map,
  which changes from run to run.
- `check-versions.sh:7` says "Exits 0 always"; with no toolchain `set -e` ends the
  script with 127 (`BuildFails`).
- `main.go:264`: `copyFile` writes through a link that Fetch made, or the static tree;
  an absolute one leads to a file of the host that builds (`MergedOutside`).
- `squashfs.go:194`: files and links at the top of the tree are packed; directories
  alone are validated (`Valid`).
- `oci.go:167` says that a missing tag, HTTP 404, is what `TagExists` answers with no
  error. `isNotFound` searches the text of any error, so one of the transport that holds
  `404` counts as a missing tag, and `--skip-existing` then publishes over a version, which
  `README.md:67` says it skips. `SkippedWritesForCause` makes it the only error that
  does.
- `build.go:194`: a CRI-O bundle whose `cri-o/bin` is there and lacks `crio` is packed
  without it, and no other archive is looked at after it is extracted
  (`FetchedIsComplete` names what may be missing).
- `build.go:450`: cri-tools has a release of the minor, but 150 others are newer, and the
  newest of another minor is taken (`CrictlTracksMinor` is about what can be listed).
- `README.md:94` speaks of the five most recent versions, release-all tries every one
  that is listed.

## Not modelled

Blobs, authentication and token refresh of the registry; the content of images,
units and configuration files (`files/`); what go-diskfs, oras-go and GitHub do
beyond how the code uses them; the composition of URLs (`urls.go`: Fetch names the
file behind each); the formats of the listings of EKS-D, k3s and CRI-O beyond their
pages; version strings with `+` (an OCI tag may not contain it, so every push of such
a k3s version fails); `ci.yaml` and the tests.

## Plan

1. done: Tags, Repository, Release, Workflows, Image, and their theorems.
2. done: Fetch, Staging, Discovery with Listing, Versions, Combination,
   CheckVersions; the theorems about Combination, Versions, Fetch, and a job's loop.
3. done: the theorems about Discovery's refinement, Staging, CheckVersions, the rest of
   Fetch, and the sorted list of Versions.
4. done: Staging with links to anywhere, Fetch with the members of archives, CRITools,
   and their theorems.
5. left to model: Image as the refinement of Release's `BuildArch` and `PushVariant`;
   versions that appear upstream between two jobs.
