-------------------------- MODULE RepositoryProofs --------------------------
(***************************************************************************)
(* Theorems of Repository, for every set of runs, versions, architectures  *)
(* and lists of architectures.                                             *)
(***************************************************************************)
EXTENDS Repository, SequenceTheorems, TLAPS

\* The manifests a repository is given have the types it stores.
LEMMA ImageType ==
    ASSUME NEW v \in Version, NEW a \in Arch, NEW r \in Run
    PROVE  /\ ImageManifest(v, a, r) \in Image
           /\ ImageManifest(v, a, r).kind = "image"
           /\ ImageManifest(v, a, r) # Absent
  BY DEF ImageManifest, Image, Absent

\* So does the index of a release.
LEMMA IndexType ==
    ASSUME NEW v \in Version, NEW list \in ArchList, NEW r \in Run
    PROVE  /\ list \in Seq(Arch)
           /\ ReleaseImages(v, list, r) \in Seq(Image)
           /\ Len(ReleaseImages(v, list, r)) = Len(list)
           /\ \A i \in 1 .. Len(list) :
                  /\ ReleaseImages(v, list, r)[i] = ImageManifest(v, list[i], r)
                  /\ ReleaseImages(v, list, r)[i].version = v
  <1>1. list \in Seq(Arch) /\ Len(list) \in Nat
    BY ArchListAssumption
  <1>2. \A i \in 1 .. Len(list) : ImageManifest(v, list[i], r) \in Image
    BY <1>1, ImageType
  <1>3. ReleaseImages(v, list, r) \in Seq(Image)
    BY <1>1, <1>2 DEF ReleaseImages
  <1>4. Len(ReleaseImages(v, list, r)) = Len(list)
    BY <1>1, <1>2, <1>3 DEF ReleaseImages
  <1>5. \A i \in 1 .. Len(list) :
            ReleaseImages(v, list, r)[i] = ImageManifest(v, list[i], r)
    BY <1>1 DEF ReleaseImages
  <1>6. \A i \in 1 .. Len(list) : ImageManifest(v, list[i], r).version = v
    BY DEF ImageManifest
  <1> QED
    BY <1>1, <1>3, <1>4, <1>5, <1>6

\* What an index lists has a version.
LEMMA ListedVersion ==
    ASSUME NEW m \in Index, NEW i \in 1 .. Len(m.manifests)
    PROVE  m.manifests[i].version \in TagName
  <1>1. m.manifests \in Seq(Image)
    BY DEF Index
  <1>2. m.manifests[i] \in Image
    BY <1>1, ElementOfSeq
  <1> QED
    BY <1>2 DEF Image, TagName

\* A variant tag is the version with one more architecture at its end.
LEMMA VariantTagAppends ==
    ASSUME NEW v \in Version, NEW a \in Arch
    PROVE  variantTag(v, a) = [v EXCEPT !.arches = v.arches \o << a >>]
  <1>1. v.arches \in Seq(Arch)
    BY VersionAssumption DEF Tag
  <1>2. Append(v.arches, a) = v.arches \o << a >>
    BY <1>1, AppendIsConcat
  <1> QED
    BY <1>2 DEF variantTag

-----------------------------------------------------------------------------

\* The repository holds images and indexes, and every tag one of them or
\* nothing.
THEOREM RepositoryTypeOK == RepoSpec => []RepoTypeOK
  <1>1. RepoInit => RepoTypeOK
    BY DEF RepoInit, RepoTypeOK, Absent
  <1>2. RepoTypeOK /\ [RepoNext]_repository => RepoTypeOK'
    <2> SUFFICES ASSUME RepoTypeOK, [RepoNext]_repository PROVE RepoTypeOK'
      OBVIOUS
    <2>1. CASE UNCHANGED repository
      BY <2>1 DEF repository, RepoTypeOK
    <2>2. ASSUME NEW v \in Version, NEW r \in Run, NEW a \in Arch,
                 PublishImage(v, a, r)
          PROVE  RepoTypeOK'
      BY <2>2, ImageType DEF PublishImage, Put, RepoTypeOK
    <2>3. ASSUME NEW v \in Version, NEW r \in Run, NEW list \in ArchList,
                 NEW t \in TagName, PublishIndex(v, list, r, t)
          PROVE  RepoTypeOK'
      <3>1. IndexManifest(ReleaseImages(v, list, r)) \in Index
        BY IndexType DEF IndexManifest, Index
      <3> QED
        BY <2>3, <3>1 DEF PublishIndex, Put, RepoTypeOK
    <2> QED
      BY <2>1, <2>2, <2>3 DEF RepoNext
  <1> QED
    BY <1>1, <1>2, PTL DEF RepoSpec

\* What could be pulled once can always be pulled: tags move, they never go.
LEMMA TagsStay ==
    ASSUME RepoTypeOK, [RepoNext]_repository,
           NEW u \in TagName, tags[u] # Absent
    PROVE  tags'[u] # Absent
  <1>1. CASE UNCHANGED repository
    BY <1>1 DEF repository
  <1>2. ASSUME NEW v \in Version, NEW r \in Run, NEW a \in Arch,
               PublishImage(v, a, r)
        PROVE  tags'[u] # Absent
    BY <1>2, ImageType DEF PublishImage, Put, RepoTypeOK
  <1>3. ASSUME NEW v \in Version, NEW r \in Run, NEW list \in ArchList,
               NEW t \in TagName, PublishIndex(v, list, r, t)
        PROVE  tags'[u] # Absent
    <2>1. IndexManifest(ReleaseImages(v, list, r)) # Absent
      BY DEF IndexManifest, Absent
    <2> QED
      BY <1>3, <2>1 DEF PublishIndex, Put, RepoTypeOK
  <1> QED
    BY <1>1, <1>2, <1>3 DEF RepoNext

\* A tag never dangles and an index never lists an image that is not there.
THEOREM RepositoryTagsResolve == RepoSpec => []TagsResolve
  <1>1. RepoInit => TagsResolve
    BY DEF RepoInit, TagsResolve
  <1>2. TagsResolve /\ RepoTypeOK /\ [RepoNext]_repository => TagsResolve'
    <2> SUFFICES ASSUME TagsResolve, RepoTypeOK, [RepoNext]_repository
                 PROVE  TagsResolve'
      OBVIOUS
    <2>1. CASE UNCHANGED repository
      BY <2>1 DEF repository, TagsResolve
    <2>2. ASSUME NEW v \in Version, NEW r \in Run, NEW a \in Arch,
                 PublishImage(v, a, r)
          PROVE  TagsResolve'
      BY <2>2, ImageType DEF PublishImage, Put, TagsResolve, RepoTypeOK
    <2>3. ASSUME NEW v \in Version, NEW r \in Run, NEW list \in ArchList,
                 NEW t \in TagName, PublishIndex(v, list, r, t)
          PROVE  TagsResolve'
      <3> DEFINE x == IndexManifest(ReleaseImages(v, list, r))
      <3>1. /\ store' = store \cup {x}
            /\ tags' = [tags EXCEPT ![t] = x]
        BY <2>3 DEF PublishIndex, Put
      <3>2. /\ x.kind = "index"
            /\ x.manifests = ReleaseImages(v, list, r)
        BY DEF IndexManifest
      <3>3. \A i \in 1 .. Len(x.manifests) : x.manifests[i] \in store
        BY <2>3, <3>2, IndexType DEF PublishIndex
      <3> QED
        BY <3>1, <3>3 DEF TagsResolve, RepoTypeOK
    <2> QED
      BY <2>1, <2>2, <2>3 DEF RepoNext
  <1> QED
    BY <1>1, <1>2, RepositoryTypeOK, PTL DEF RepoSpec

\* The two tags of an index name what it lists.
LEMMA IndexUnderItsName ==
    ASSUME NEW v \in Version, NEW list \in ArchList, NEW r \in Run,
           NEW t \in {v, k8sMajorMinor(v)}
    PROVE  HoldsItsIndex(t, IndexManifest(ReleaseImages(v, list, r)))
  <1>1. \A i \in 1 .. Len(ReleaseImages(v, list, r)) :
            ReleaseImages(v, list, r)[i].version = v
    BY IndexType
  <1>2. t = v \/ (t.form = "alias" /\ t.minor = v.minor /\ v.form = "dotted")
    BY VersionAssumption DEF Tag, k8sMajorMinor
  <1> QED
    BY <1>1, <1>2 DEF HoldsItsIndex, IndexManifest

\* An image stands under its version and architecture, an index under its
\* version or the alias of it.
THEOREM RepositoryTagNamesContent == RepoSpec => []TagNamesContent
  <1>1. RepoInit => TagNamesContent
    BY DEF RepoInit, TagNamesContent, Absent
  <1>2. TagNamesContent /\ RepoTypeOK /\ [RepoNext]_repository => TagNamesContent'
    <2> SUFFICES ASSUME TagNamesContent, RepoTypeOK, [RepoNext]_repository
                 PROVE  TagNamesContent'
      OBVIOUS
    <2>1. CASE UNCHANGED repository
      BY <2>1 DEF repository, TagNamesContent
    <2>2. ASSUME NEW v \in Version, NEW r \in Run, NEW a \in Arch,
                 PublishImage(v, a, r)
          PROVE  TagNamesContent'
      <3> DEFINE m == ImageManifest(v, a, r)
      <3>1. tags' = [tags EXCEPT ![variantTag(v, a)] = m]
        BY <2>2 DEF PublishImage, Put
      <3>2. m.kind = "image" /\ HoldsItsImage(variantTag(v, a), m)
        BY VariantTagAppends DEF ImageManifest, HoldsItsImage
      <3> HIDE DEF m
      <3> QED
        BY <3>1, <3>2 DEF TagNamesContent, RepoTypeOK
    <2>3. ASSUME NEW v \in Version, NEW r \in Run, NEW list \in ArchList,
                 NEW t \in TagName, PublishIndex(v, list, r, t)
          PROVE  TagNamesContent'
      <3> DEFINE m == IndexManifest(ReleaseImages(v, list, r))
      <3>1. tags' = [tags EXCEPT ![t] = m]
        BY <2>3 DEF PublishIndex, Put
      <3>2. m.kind = "index"
        BY DEF IndexManifest
      <3>3. HoldsItsIndex(t, m)
        BY <2>3, IndexUnderItsName DEF PublishIndex
      <3> HIDE DEF m
      <3> QED
        BY <3>1, <3>2, <3>3 DEF TagNamesContent, RepoTypeOK
    <2> QED
      BY <2>1, <2>2, <2>3 DEF RepoNext
  <1> QED
    BY <1>1, <1>2, RepositoryTypeOK, PTL DEF RepoSpec

\* The version of whatever an index lists can be pulled by its own tag.
THEOREM RepositoryAliasFollowsVersion == RepoSpec => []AliasFollowsVersion
  <1>1. RepoInit => AliasFollowsVersion
    BY DEF RepoInit, AliasFollowsVersion, Absent
  <1>2. AliasFollowsVersion /\ RepoTypeOK /\ [RepoNext]_repository
            => AliasFollowsVersion'
    <2> SUFFICES ASSUME AliasFollowsVersion, RepoTypeOK, [RepoNext]_repository
                 PROVE  AliasFollowsVersion'
      OBVIOUS
    <2>1. CASE UNCHANGED repository
      BY <2>1 DEF repository, AliasFollowsVersion
    <2>2. ASSUME NEW v \in Version, NEW r \in Run, NEW a \in Arch,
                 PublishImage(v, a, r)
          PROVE  AliasFollowsVersion'
      <3>1. tags' = [tags EXCEPT ![variantTag(v, a)] = ImageManifest(v, a, r)]
        BY <2>2 DEF PublishImage, Put
      <3>2. \A t \in TagName : tags'[t].kind = "index" => tags[t] = tags'[t]
        BY <3>1, ImageType DEF RepoTypeOK
      <3>3. \A t \in TagName : tags[t] # Absent => tags'[t] # Absent
        BY <3>1, ImageType DEF RepoTypeOK
      <3>4. ASSUME NEW t \in TagName, tags'[t].kind = "index",
                   NEW i \in 1 .. Len(tags'[t].manifests)
            PROVE  tags'[tags'[t].manifests[i].version] # Absent
        <4>1. tags[t] = tags'[t]
          BY <3>2, <3>4
        <4>2. tags[t] \in Index
          BY <4>1, <3>4 DEF RepoTypeOK, Image, Absent
        <4>3. tags[t].manifests[i].version \in TagName
          BY <3>4, <4>1, <4>2, ListedVersion
        <4> QED
          BY <3>3, <3>4, <4>1, <4>3 DEF AliasFollowsVersion
      <3> QED
        BY <3>4 DEF AliasFollowsVersion
    <2>3. ASSUME NEW v \in Version, NEW r \in Run, NEW list \in ArchList,
                 NEW t \in TagName, PublishIndex(v, list, r, t)
          PROVE  AliasFollowsVersion'
      <3> DEFINE m == IndexManifest(ReleaseImages(v, list, r))
      <3>1. tags' = [tags EXCEPT ![t] = m]
        BY <2>3 DEF PublishIndex, Put
      <3>2. m.kind = "index" /\ m # Absent
        BY DEF IndexManifest, Absent
      <3>3. \A i \in 1 .. Len(m.manifests) : m.manifests[i].version = v
        BY IndexType DEF IndexManifest
      <3>4. v \in TagName /\ (t = v \/ tags[v] # Absent)
        BY <2>3 DEF PublishIndex, TagName
      <3> HIDE DEF m
      <3>5. tags'[v] # Absent
        BY <3>1, <3>2, <3>4 DEF RepoTypeOK
      <3>6. \A u \in TagName : tags[u] # Absent => tags'[u] # Absent
        BY <3>1, <3>2 DEF RepoTypeOK
      <3>7. ASSUME NEW u \in TagName, tags'[u].kind = "index",
                   NEW i \in 1 .. Len(tags'[u].manifests)
            PROVE  tags'[tags'[u].manifests[i].version] # Absent
        <4>1. CASE u = t
          BY <4>1, <3>1, <3>3, <3>5, <3>7 DEF RepoTypeOK
        <4>2. CASE u # t
          <5>1. tags[u] = tags'[u]
            BY <4>2, <3>1 DEF RepoTypeOK
          <5>2. tags[u] \in Index
            BY <5>1, <3>7 DEF RepoTypeOK, Image, Absent
          <5>3. tags[u].manifests[i].version \in TagName
            BY <3>7, <5>1, <5>2, ListedVersion
          <5> QED
            BY <3>6, <3>7, <5>1, <5>3 DEF AliasFollowsVersion
        <4> QED
          BY <4>1, <4>2
      <3> QED
        BY <3>7 DEF AliasFollowsVersion
    <2> QED
      BY <2>1, <2>2, <2>3 DEF RepoNext
  <1> QED
    BY <1>1, <1>2, RepositoryTypeOK, PTL DEF RepoSpec
=============================================================================
