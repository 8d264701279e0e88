-------------------------------- MODULE Tags --------------------------------
(***************************************************************************)
(* The tag names of one component's OCI repository, and the string         *)
(* functions that compute one name from another or classify a name.        *)
(*                                                                         *)
(* A tag is not a string here but the parts of it those functions look at: *)
(*                                                                         *)
(*    "v1.33.1"                form "dotted", minor 33, patch 1            *)
(*    "v1.33"                  form "alias",  minor 33                     *)
(*    "v1-35-eks-9"            form "eksd",   minor 35, patch 9            *)
(*    "v1.33.1-amd64"          the same with  arches <<"amd64">>           *)
(*    "v1-35-eks-9-amd64-arm64"               arches <<"amd64", "arm64">>  *)
(*                                                                         *)
(* "arches" are the "-<arch>" suffixes in the order they were appended.    *)
(* Two records are equal exactly when the strings are.                     *)
(***************************************************************************)
EXTENDS Integers, Sequences

CONSTANTS
    Arch,       \* architectures a user may name with --arches
    ArchList,   \* values of --arches
    Version     \* the <version> arguments users and workflows may pass

Tag == [form   : {"dotted", "eksd", "alias"},
        minor  : Nat,
        patch  : Nat,
        arches : Seq(Arch)]

ASSUME ArchListAssumption == ArchList \subseteq Seq(Arch) /\ ArchList # {}

ASSUME VersionAssumption == Version \subseteq Tag /\ Version # {}

\* PushVariant's fmt.Sprintf("%s-%s", version, arch).  The first definition is
\* a mutant, the form a bug could give it, as in every pair of this kind.
variantTagNoArch(v, a) == v

variantTag(v, a) == [v EXCEPT !.arches = Append(v.arches, a)]

\* The first two dotted parts of a version.  A name without a dot (every
\* EKS-D tag) is returned whole; what follows the second dot, the patch and
\* any "-<arch>" after it, is cut.
k8sMajorMinor(v) ==
    IF v.form = "dotted"
    THEN [form |-> "alias", minor |-> v.minor, patch |-> 0, arches |-> << >>]
    ELSE v

\* The tags of an index, in the order PushIndex pushes them.
IndexTagsAliasFirst(v) == << k8sMajorMinor(v), v >>

IndexTags(v) == << v, k8sMajorMinor(v) >>

\* parseEKSDTag reads "v1-<minor>-eks-<release>" and ignores what follows.
parseEKSDTagOk(t) == t.form = "eksd"

\* Two dots anywhere in the name, or an EKS-D tag.
isFullVersionTag(t) == t.form = "dotted" \/ parseEKSDTagOk(t)

\* Whether a component's Fetch function finds upstream what it downloads for
\* the version: a dotted version is part of the URL as it stands, so a suffix
\* or a missing patch is a 404; an EKS-D version is first cut down to its
\* minor and release numbers.
FetchFinds(v) == \/ v.form = "dotted" /\ v.arches = << >>
                 \/ parseEKSDTagOk(v)

\* Every name under which something can be pushed.
TagName == Version
           \cup { k8sMajorMinor(v) : v \in Version }
           \cup { variantTag(v, a) : v \in Version, a \in Arch }
=============================================================================
