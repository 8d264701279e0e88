----------------------------- MODULE Repository -----------------------------
(***************************************************************************)
(* What one component's OCI repository promises the nodes that pull from   *)
(* it, whatever invocations of sysext-pkg write to it and however they     *)
(* interleave, fail or are retried.                                        *)
(*                                                                         *)
(* The repository is a set of manifests and a table of tags.  It changes   *)
(* in two ways only: one image appears under its own variant tag, or one   *)
(* release's index appears under the version's tag or its minor alias.     *)
(***************************************************************************)
EXTENDS Tags

CONSTANT Run    \* invocations of sysext-pkg

VARIABLES
    store,      \* the manifests the registry holds
    tags        \* the manifest each tag resolves to

repository == << store, tags >>

Absent == [kind |-> "absent"]

\* The manifest run r packs for one architecture.  Two runs never pack the
\* same one: the manifest carries its time of creation.
ImageManifest(v, a, r) ==
    [kind |-> "image", version |-> v, arch |-> a, by |-> r]

IndexManifest(images) == [kind |-> "index", manifests |-> images]

Image == [kind : {"image"}, version : Version, arch : Arch, by : Run]
Index == [kind : {"index"}, manifests : Seq(Image)]

\* The images of a complete release: one for each architecture of the list,
\* in its order, all of one version and packed by one run.
ReleaseImages(v, list, r) == [i \in 1 .. Len(list) |-> ImageManifest(v, list[i], r)]

RepoInit ==
    /\ store = {}
    /\ tags = [t \in TagName |-> Absent]

Put(manifest, t) ==
    /\ store' = store \cup {manifest}
    /\ tags' = [tags EXCEPT ![t] = manifest]

PublishImage(v, a, r) == Put(ImageManifest(v, a, r), variantTag(v, a))

\* An index is published when all its images are there, and moves the minor
\* alias only when the version itself can be pulled.
PublishIndex(v, list, r, t) ==
    /\ list # << >>
    /\ \A i \in 1 .. Len(list) : ImageManifest(v, list[i], r) \in store
    /\ \/ t = v
       \/ t = k8sMajorMinor(v) /\ tags[v] # Absent
    /\ Put(IndexManifest(ReleaseImages(v, list, r)), t)

RepoNext ==
    \E v \in Version, r \in Run :
        \/ \E a \in Arch : PublishImage(v, a, r)
        \/ \E list \in ArchList, t \in TagName : PublishIndex(v, list, r, t)

RepoSpec == RepoInit /\ [][RepoNext]_repository

-----------------------------------------------------------------------------
(* What a node that pulls a tag can rely on. *)

RepoTypeOK ==
    /\ store \subseteq Image \cup Index
    /\ tags \in [TagName -> Image \cup Index \cup {Absent}]

\* A tag never dangles: what it resolves to is in the registry, and so is
\* every image an index lists (PushIndex is given descriptors of manifests
\* PushVariant has pushed).
TagsResolve ==
    /\ \A t \in TagName : tags[t] # Absent => tags[t] \in store
    /\ \A m \in store : m.kind = "index" =>
           \A i \in 1 .. Len(m.manifests) : m.manifests[i] \in store

\* A tag names what it holds.  An image stands under its version with its own
\* architecture appended; an index lists images of a single version and
\* stands under that version or the minor version it belongs to.
HoldsItsImage(t, m) ==
    t = [m.version EXCEPT !.arches = m.version.arches \o << m.arch >>]

HoldsItsIndex(t, m) ==
    \E v \in Version :
        /\ \A i \in 1 .. Len(m.manifests) : m.manifests[i].version = v
        /\ t = v \/ (t.form = "alias" /\ t.minor = v.minor /\ v.form = "dotted")

TagNamesContent ==
    \A t \in TagName :
        /\ tags[t].kind = "image" => HoldsItsImage(t, tags[t])
        /\ tags[t].kind = "index" => HoldsItsIndex(t, tags[t])

\* A node that resolved an index through an alias can pull that index's
\* version by its own tag as well: PushIndex tags the version first.
AliasFollowsVersion ==
    \A t \in TagName : tags[t].kind = "index" =>
        \A i \in 1 .. Len(tags[t].manifests) :
            tags[tags[t].manifests[i].version] # Absent
=============================================================================
