--------------------------- MODULE ReleaseProofs ----------------------------
(***************************************************************************)
(* Theorems of Release, for every set of runs, versions, architectures and *)
(* command lines.                                                          *)
(*                                                                         *)
(* The argument: a run's descriptors are the images it has pushed so far,  *)
(* for a prefix of its --arches (DescsPushed), and its program counter     *)
(* tells how far its two loops are (LoopState).  These two facts make      *)
(* every step of a run a step, or no step, of the Repository contract.     *)
(***************************************************************************)
EXTENDS Release, RepositoryProofs

\* What a run has in descs is in the registry, image by image.
DescsPushed ==
    \A r \in Run :
        /\ Len(descs[r]) <= Len(args[r].arches)
        /\ \A i \in 1 .. Len(descs[r]) :
               /\ descs[r][i]
                      = ImageManifest(args[r].version, args[r].arches[i], r)
               /\ descs[r][i] \in store

\* What the program counter says about the two loops.
LoopState ==
    \A r \in Run :
        /\ pc[r] \in {"idle", "check", "pushOnly"} => descs[r] = << >>
        /\ pc[r] \in {"idle", "check", "build", "push"} => pushed[r] = 0
        /\ pc[r] = "pushOnly" => Len(args[r].arches) = 1
        /\ pc[r] = "index" => Len(descs[r]) = Len(args[r].arches)
        /\ pc[r] = "index" /\ pushed[r] = 1 => tags[args[r].version] # Absent

Inv == TypeOK /\ DescsPushed /\ LoopState

-----------------------------------------------------------------------------

\* A command line names a version, and a list of architectures.
LEMMA ArgsType ==
    ASSUME NEW x \in Args
    PROVE  /\ x.version \in Version
           /\ x.arches \in ArchList
           /\ x.arches \in Seq(Arch)
           /\ Len(x.arches) \in Nat
           /\ \A i \in 1 .. Len(x.arches) : x.arches[i] \in Arch
  <1>1. x.version \in Version /\ x.arches \in ArchList
    BY DEF Args
  <1>2. x.arches \in Seq(Arch)
    BY <1>1, ArchListAssumption
  <1> QED
    BY <1>1, <1>2, ElementOfSeq

\* There is a command line to start with.
LEMMA ArgsNonempty == Args # {}
  <1>1. PICK v \in Version : TRUE
    BY VersionAssumption
  <1>2. PICK list \in ArchList : TRUE
    BY ArchListAssumption
  <1>3. [version |-> v, arches |-> list, skipExisting |-> TRUE,
         skipBuild |-> TRUE] \in Args
    BY <1>1, <1>2 DEF Args
  <1> QED
    BY <1>3

\* The tags of an index are the version and then its alias.
LEMMA IndexTagsFacts ==
    ASSUME NEW v \in Version
    PROVE  /\ Len(IndexTags(v)) = 2
           /\ IndexTags(v)[1] = v
           /\ IndexTags(v)[2] = k8sMajorMinor(v)
           /\ v \in TagName
           /\ k8sMajorMinor(v) \in TagName
  BY DEF IndexTags, TagName

\* A variant tag is one of the repository's tag names.
LEMMA VariantTagName ==
    ASSUME NEW v \in Version, NEW a \in Arch
    PROVE  variantTag(v, a) \in TagName
  BY DEF TagName

\* The loop over the architectures goes on exactly while one is left.
LEMMA NextArchFacts ==
    ASSUME NEW x \in Args, NEW n \in Nat
    PROVE  /\ NextArch(x, n) \in {"build", "push", "index"}
           /\ NextArch(x, n) = "index" <=> n >= Len(x.arches)
  BY ArgsType DEF NextArch

\* Packing the i-th image of a run.
LEMMA VariantType ==
    ASSUME TypeOK, NEW r \in Run, NEW i \in 1 .. Len(args[r].arches)
    PROVE  /\ args[r].version \in Version
           /\ args[r].arches[i] \in Arch
           /\ ImageManifest(args[r].version, args[r].arches[i], r) \in Image
           /\ ImageManifest(args[r].version, args[r].arches[i], r) # Absent
           /\ variantTag(args[r].version, args[r].arches[i]) \in TagName
  <1>1. args[r] \in Args
    BY DEF TypeOK
  <1>2. args[r].version \in Version /\ args[r].arches[i] \in Arch
    BY <1>1, ArgsType
  <1> QED
    BY <1>2, ImageType, VariantTagName

\* A put keeps the types, and never takes anything away.
LEMMA PutMonotonic ==
    ASSUME RepoTypeOK, NEW m \in Image \cup Index, NEW t \in TagName, Put(m, t)
    PROVE  /\ RepoTypeOK'
           /\ store \subseteq store'
           /\ m \in store'
           /\ tags'[t] = m
           /\ tags'[t] # Absent
           /\ \A u \in TagName : tags[u] # Absent => tags'[u] # Absent
  <1>1. m # Absent
    BY DEF Image, Index, Absent
  <1> QED
    BY <1>1 DEF Put, RepoTypeOK

-----------------------------------------------------------------------------
(* The steps, one lemma for each kind.                                      *)

\* The invariant holds before any run has begun.
LEMMA InvInit == Init => Inv
  <1> SUFFICES ASSUME Init PROVE Inv
    OBVIOUS
  <1>1. (CHOOSE x \in Args : TRUE) \in Args
    BY ArgsNonempty
  <1>2. RepoTypeOK
    BY DEF Init, RepoInit, RepoTypeOK, Absent
  <1>3. TypeOK
    BY <1>1, <1>2 DEF Init, TypeOK
  <1>4. DescsPushed
    <2>1. \A r \in Run : args[r] \in Args /\ descs[r] = << >>
      BY <1>1 DEF Init
    <2> QED
      BY <2>1, ArgsType DEF DescsPushed
  <1>5. LoopState
    BY DEF Init, LoopState
  <1> QED
    BY <1>3, <1>4, <1>5 DEF Inv

\* A run that only moves on: it is checked, built or gone.
LEMMA InvPcStep ==
    ASSUME Inv, NEW r \in Run,
           CheckTag(r) \/ BuildArch(r) \/ Fail(r)
    PROVE  Inv'
  <1>1. /\ args[r] \in Args
        /\ pc \in [Run -> {"idle"} \cup Live \cup Ended]
    BY DEF Inv, TypeOK
  <1>2. UNCHANGED << store, tags, args, descs, pushed, publishedAtStart >>
    BY DEF CheckTag, BuildArch, Fail, run
  <1>3. PICK step : pc' = [pc EXCEPT ![r] = step]
    BY DEF CheckTag, BuildArch, Fail
  <1>4. \/ step \in {"skipped", "failed"}
        \/ pc[r] = "check" /\ step = NextArch(args[r], 0)
        \/ pc[r] = "build" /\ step = "push"
    <2>1. CASE CheckTag(r)
      BY <2>1, <1>1, <1>3 DEF CheckTag
    <2>2. CASE BuildArch(r)
      BY <2>2, <1>1, <1>3 DEF BuildArch
    <2>3. CASE Fail(r)
      BY <2>3, <1>1, <1>3 DEF Fail
    <2> QED
      BY <2>1, <2>2, <2>3
  <1>5. /\ NextArch(args[r], 0) \in {"build", "push", "index"}
        /\ NextArch(args[r], 0) = "index" <=> 0 >= Len(args[r].arches)
        /\ Len(args[r].arches) \in Nat
    BY <1>1, NextArchFacts, ArgsType
  <1>6. resolved' \in [Run -> {"unasked", "none", "notFound", "other", "mentions404"}]
    <2>1. Resolve(args[r].version) \subseteq
              {"none", "notFound", "other", "mentions404"}
      BY TransportErrorsAssumption DEF Resolve
    <2>2. CASE CheckTag(r)
      <3>1. PICK err \in Resolve(args[r].version) :
                resolved' = [resolved EXCEPT ![r] = err]
        BY <2>2 DEF CheckTag
      <3> QED
        BY <2>1, <3>1 DEF Inv, TypeOK
    <2>3. CASE BuildArch(r) \/ Fail(r)
      BY <2>3 DEF BuildArch, Fail, run, Inv, TypeOK
    <2> QED
      BY <2>2, <2>3
  <1>7. pc' \in [Run -> {"idle"} \cup Live \cup Ended]
    BY <1>1, <1>3, <1>4, <1>5 DEF Live, Ended
  <1>8. \A q \in Run :
            /\ pc'[q] \in {"build", "push"} => Len(descs[q]) < Len(args[q].arches)
            /\ pc'[q] = "index" => pushed[q] < 2
    BY <1>1, <1>3, <1>4, <1>5 DEF Inv, TypeOK, LoopState
  <1>9. TypeOK'
    BY <1>2, <1>6, <1>7, <1>8 DEF Inv, TypeOK, RepoTypeOK
  <1>10. DescsPushed'
    BY <1>2 DEF Inv, DescsPushed
  <1>11. LoopState'
    BY <1>1, <1>2, <1>3, <1>4, <1>5 DEF Inv, TypeOK, LoopState
  <1> QED
    BY <1>9, <1>10, <1>11 DEF Inv

\* A run that begins.
LEMMA InvBegin ==
    ASSUME Inv, NEW r \in Run, NEW x \in Args, NEW step, Begin(r, x, step),
           \/ step = "check"
           \/ step = NextArch(x, 0)
           \/ step = "pushOnly" /\ Len(x.arches) = 1
    PROVE  Inv'
  <1>1. /\ NextArch(x, 0) \in {"build", "push", "index"}
        /\ NextArch(x, 0) = "index" <=> 0 >= Len(x.arches)
        /\ Len(x.arches) \in Nat
    BY NextArchFacts, ArgsType
  <1>2. descs[r] = << >> /\ pushed[r] = 0
    BY DEF Inv, LoopState, Begin
  <1>3. TypeOK'
    BY <1>1, <1>2 DEF Inv, TypeOK, RepoTypeOK, Begin, Live, Ended
  <1>4. DescsPushed'
    BY <1>1, <1>2 DEF Inv, TypeOK, DescsPushed, Begin
  <1>5. LoopState'
    BY <1>1, <1>2 DEF Inv, TypeOK, LoopState, Begin
  <1> QED
    BY <1>3, <1>4, <1>5 DEF Inv

\* The variant of the next architecture: it is in the registry afterwards, and
\* nothing has left.
LEMMA CopyVariantPuts ==
    ASSUME TypeOK, NEW r \in Run, NEW i \in 1 .. Len(args[r].arches),
           CopyVariant(r, i)
    PROVE  /\ RepoTypeOK'
           /\ store \subseteq store'
           /\ ImageManifest(args[r].version, args[r].arches[i], r) \in store'
           /\ \A u \in TagName : tags[u] # Absent => tags'[u] # Absent
  <1> DEFINE m == ImageManifest(args[r].version, args[r].arches[i], r)
             t == variantTag(args[r].version, args[r].arches[i])
  <1>1. m \in Image \cup Index /\ t \in TagName
    BY VariantType
  <1>2. Put(m, t)
    BY DEF CopyVariant
  <1> QED
    BY <1>1, <1>2, PutMonotonic DEF TypeOK

\* The loop over the architectures: the descriptor a run appends to descs is
\* that of the manifest it has just put into the registry.
LEMMA InvPushVariant ==
    ASSUME Inv, NEW r \in Run, PushVariant(r)
    PROVE  Inv'
  <1> DEFINE n == Len(descs[r])
             x == args[r]
             m == ImageManifest(x.version, x.arches[n + 1], r)
  <1>1. /\ x \in Args
        /\ descs[r] \in Seq(Image)
        /\ n \in Nat
        /\ n + 1 \in 1 .. Len(x.arches)
        /\ pushed[r] = 0
    BY ArgsType DEF Inv, TypeOK, LoopState, PushVariant
  <1>2. m \in Image
    BY <1>1, VariantType DEF Inv
  <1>3. /\ RepoTypeOK'
        /\ store \subseteq store'
        /\ m \in store'
        /\ \A u \in TagName : tags[u] # Absent => tags'[u] # Absent
    BY <1>1, CopyVariantPuts DEF Inv, PushVariant
  <1>4. /\ NextArch(x, n + 1) \in {"build", "push", "index"}
        /\ NextArch(x, n + 1) = "index" <=> n + 1 >= Len(x.arches)
    BY <1>1, NextArchFacts
  <1>5. /\ descs' = [descs EXCEPT ![r] = Append(descs[r], m)]
        /\ pc' = [pc EXCEPT ![r] = NextArch(x, n + 1)]
        /\ UNCHANGED << args, pushed, publishedAtStart, resolved >>
    BY DEF PushVariant
  <1>6. /\ Append(descs[r], m) \in Seq(Image)
        /\ Len(Append(descs[r], m)) = n + 1
        /\ \A i \in 1 .. n : Append(descs[r], m)[i] = descs[r][i]
        /\ Append(descs[r], m)[n + 1] = m
    BY <1>1, <1>2
  <1> HIDE DEF m
  <1>7. TypeOK'
    BY <1>1, <1>3, <1>4, <1>5, <1>6 DEF Inv, TypeOK, Live, Ended
  <1>8. DescsPushed'
    <2> SUFFICES ASSUME NEW q \in Run
                 PROVE  /\ Len(descs'[q]) <= Len(args'[q].arches)
                        /\ \A i \in 1 .. Len(descs'[q]) :
                               /\ descs'[q][i] = ImageManifest(
                                     args'[q].version, args'[q].arches[i], q)
                               /\ descs'[q][i] \in store'
      BY DEF DescsPushed
    <2>1. CASE q # r
      <3>1. descs'[q] = descs[q] /\ args'[q] = args[q]
        BY <2>1, <1>5 DEF Inv, TypeOK
      <3> QED
        BY <3>1, <1>3 DEF Inv, DescsPushed
    <2>2. CASE q = r
      <3>1. descs'[q] = Append(descs[r], m) /\ args'[q] = x
        BY <2>2, <1>5 DEF Inv, TypeOK
      <3>2. \A i \in 1 .. n :
                /\ descs[r][i] = ImageManifest(x.version, x.arches[i], r)
                /\ descs[r][i] \in store'
        BY <1>3 DEF Inv, DescsPushed
      <3>3. ASSUME NEW i \in 1 .. n + 1
            PROVE  /\ descs'[q][i] = ImageManifest(x.version, x.arches[i], r)
                   /\ descs'[q][i] \in store'
        <4>1. CASE i = n + 1
          BY <4>1, <3>1, <1>3, <1>6 DEF m
        <4>2. CASE i # n + 1
          <5>1. i \in 1 .. n
            BY <4>2, <1>1
          <5> QED
            BY <5>1, <3>1, <3>2, <1>6
        <4> QED
          BY <4>1, <4>2
      <3> QED
        BY <2>2, <3>1, <3>3, <1>1, <1>6
    <2> QED
      BY <2>1, <2>2
  <1>9. LoopState'
    <2>1. \A q \in Run : args[q].version \in TagName
      BY ArgsType DEF Inv, TypeOK, TagName
    <2> QED
      BY <2>1, <1>1, <1>3, <1>4, <1>5, <1>6 DEF Inv, TypeOK, LoopState
  <1> QED
    BY <1>7, <1>8, <1>9 DEF Inv

\* A step that only adds to the registry and stays where it is or ends.
LEMMA InvPutStep ==
    ASSUME Inv, NEW r \in Run, NEW step \in {pc[r]} \cup Ended,
           pc' = [pc EXCEPT ![r] = step],
           UNCHANGED run,
           RepoTypeOK',
           store \subseteq store',
           \A u \in TagName : tags[u] # Absent => tags'[u] # Absent
    PROVE  Inv'
  <1>1. TypeOK'
    BY DEF Inv, TypeOK, run, Ended
  <1>2. DescsPushed'
    BY DEF Inv, DescsPushed, run
  <1>3. \A q \in Run : args[q].version \in TagName
    BY ArgsType DEF Inv, TypeOK, TagName
  <1>4. LoopState'
    BY <1>3 DEF Inv, TypeOK, LoopState, run, Ended
  <1> QED
    BY <1>1, <1>2, <1>4 DEF Inv

\* A variant whose push is not answered adds to the registry only.
LEMMA InvPushVariantUnanswered ==
    ASSUME Inv, NEW r \in Run, PushVariantUnanswered(r)
    PROVE  Inv'
  <1>1. Len(descs[r]) + 1 \in 1 .. Len(args[r].arches)
    BY ArgsType DEF Inv, TypeOK, PushVariantUnanswered
  <1>2. /\ RepoTypeOK'
        /\ store \subseteq store'
        /\ \A u \in TagName : tags[u] # Absent => tags'[u] # Absent
    BY <1>1, CopyVariantPuts DEF Inv, PushVariantUnanswered
  <1>3. \E step \in {pc[r]} \cup Ended : pc' = [pc EXCEPT ![r] = step]
    BY DEF Inv, TypeOK, PushVariantUnanswered, Ended
  <1> QED
    BY <1>2, <1>3, InvPutStep DEF PushVariantUnanswered

\* So does the push command.
LEMMA InvPushOnly ==
    ASSUME Inv, NEW r \in Run, PushOnly(r)
    PROVE  Inv'
  <1>1. 1 \in 1 .. Len(args[r].arches)
    BY DEF Inv, LoopState, PushOnly
  <1>2. /\ RepoTypeOK'
        /\ store \subseteq store'
        /\ \A u \in TagName : tags[u] # Absent => tags'[u] # Absent
    BY <1>1, CopyVariantPuts DEF Inv, PushOnly
  <1>3. \E step \in {pc[r]} \cup Ended : pc' = [pc EXCEPT ![r] = step]
    BY DEF PushOnly, Ended
  <1> QED
    BY <1>2, <1>3, InvPutStep DEF PushOnly

\* The index a run pushes is that of its complete release.
LEMMA PutIndexPuts ==
    ASSUME Inv, NEW r \in Run, pc[r] = "index", PutIndex(r)
    PROVE  LET x == args[r]
               t == IndexTags(x.version)[pushed[r] + 1]
               m == IndexManifest(ReleaseImages(x.version, x.arches, r))
           IN  /\ x.arches # << >>
               /\ x.version \in Version
               /\ x.arches \in ArchList
               /\ \A i \in 1 .. Len(x.arches) :
                      ImageManifest(x.version, x.arches[i], r) \in store
               /\ descs[r] = ReleaseImages(x.version, x.arches, r)
               /\ m \in Index
               /\ t \in TagName
               /\ \/ pushed[r] = 0 /\ t = x.version
                  \/ /\ pushed[r] = 1 /\ t = k8sMajorMinor(x.version)
                     /\ tags[x.version] # Absent
               /\ Put(m, t)
  <1> DEFINE x == args[r]
             images == ReleaseImages(x.version, x.arches, r)
  <1>1. /\ x \in Args
        /\ descs[r] \in Seq(Image)
        /\ Len(descs[r]) = Len(x.arches)
        /\ descs[r] # << >>
        /\ pushed[r] \in {0, 1}
        /\ pushed[r] = 1 => tags[x.version] # Absent
    BY DEF Inv, TypeOK, LoopState, PutIndex
  <1>2. /\ x.version \in Version
        /\ x.arches \in ArchList
        /\ x.arches \in Seq(Arch)
        /\ Len(x.arches) \in Nat
    BY <1>1, ArgsType
  <1>3. /\ images \in Seq(Image)
        /\ Len(images) = Len(x.arches)
        /\ \A i \in 1 .. Len(x.arches) :
               images[i] = ImageManifest(x.version, x.arches[i], r)
    BY <1>2, IndexType
  <1>4. \A i \in 1 .. Len(x.arches) :
            /\ descs[r][i] = ImageManifest(x.version, x.arches[i], r)
            /\ ImageManifest(x.version, x.arches[i], r) \in store
    BY <1>1 DEF Inv, DescsPushed
  <1>5. descs[r] = images
    BY <1>1, <1>3, <1>4, SeqEqual
  <1>6. x.arches # << >>
    BY <1>1, <1>2, EmptySeq
  <1>7. IndexManifest(images) \in Index
    BY <1>3 DEF Index, IndexManifest
  <1>8. /\ IndexTags(x.version)[1] = x.version
        /\ IndexTags(x.version)[2] = k8sMajorMinor(x.version)
        /\ x.version \in TagName
        /\ k8sMajorMinor(x.version) \in TagName
    BY <1>2, IndexTagsFacts
  <1>9. Put(IndexManifest(images), IndexTags(x.version)[pushed[r] + 1])
    BY <1>5 DEF PutIndex
  <1> HIDE DEF images
  <1> QED
    BY <1>1, <1>2, <1>4, <1>5, <1>6, <1>7, <1>8, <1>9 DEF images

\* An index whose push is not answered adds to the registry only.
LEMMA InvPushIndexTagUnanswered ==
    ASSUME Inv, NEW r \in Run, PushIndexTagUnanswered(r)
    PROVE  Inv'
  <1>1. /\ RepoTypeOK'
        /\ store \subseteq store'
        /\ \A u \in TagName : tags[u] # Absent => tags'[u] # Absent
    BY PutIndexPuts, PutMonotonic DEF Inv, TypeOK, PushIndexTagUnanswered
  <1>2. \E step \in {pc[r]} \cup Ended : pc' = [pc EXCEPT ![r] = step]
    BY DEF Inv, TypeOK, PushIndexTagUnanswered, Ended
  <1> QED
    BY <1>1, <1>2, InvPutStep DEF PushIndexTagUnanswered

\* The loop over the tags of the index: after the first tag the version can be
\* pulled, and the loop ends with the last.
LEMMA InvPushIndexTag ==
    ASSUME Inv, NEW r \in Run, PushIndexTag(r)
    PROVE  Inv'
  <1> DEFINE x == args[r]
  <1>1. /\ x \in Args
        /\ pc[r] = "index"
        /\ pushed' = [pushed EXCEPT ![r] = pushed[r] + 1]
        /\ pc' = [pc EXCEPT ![r] = IF MoreIndexTags(r) THEN "index"
                                   ELSE "released"]
        /\ UNCHANGED << args, descs, publishedAtStart, resolved >>
    BY DEF Inv, TypeOK, PushIndexTag
  <1>2. /\ RepoTypeOK'
        /\ store \subseteq store'
        /\ \A u \in TagName : tags[u] # Absent => tags'[u] # Absent
    BY PutIndexPuts, PutMonotonic DEF Inv, TypeOK, PushIndexTag
  <1>3. x.version \in Version
    BY <1>1, ArgsType
  <1>4. /\ pushed[r] \in {0, 1}
        /\ MoreIndexTags(r) <=> pushed[r] = 0
    <2>1. pushed[r] \in {0, 1}
      BY <1>1 DEF Inv, TypeOK
    <2>2. Len(IndexTags(args[r].version)) = 2
      BY <1>3, IndexTagsFacts
    <2> QED
      BY <2>1, <2>2 DEF MoreIndexTags
  <1>5. pushed[r] = 0 => tags'[x.version] # Absent
    BY PutIndexPuts, PutMonotonic DEF Inv, TypeOK, PushIndexTag
  <1>6. TypeOK'
    BY <1>1, <1>2, <1>4 DEF Inv, TypeOK, Live, Ended
  <1>7. DescsPushed'
    BY <1>1, <1>2 DEF Inv, DescsPushed
  <1>8. \A q \in Run : args[q].version \in TagName
    BY ArgsType DEF Inv, TypeOK, TagName
  <1>9. LoopState'
    BY <1>1, <1>2, <1>4, <1>5, <1>8 DEF Inv, TypeOK, LoopState
  <1> QED
    BY <1>6, <1>7, <1>9 DEF Inv

\* Every step of every run keeps the invariant.
LEMMA InvNext == Inv /\ [Next]_vars => Inv'
  <1> SUFFICES ASSUME Inv, [Next]_vars PROVE Inv'
    OBVIOUS
  <1>1. CASE UNCHANGED vars
    BY <1>1 DEF vars, run, Inv, TypeOK, RepoTypeOK, DescsPushed, LoopState
  <1>2. ASSUME NEW r \in Run, StartRelease(r)
        PROVE  Inv'
    BY <1>2, InvBegin DEF StartRelease, FirstStep
  <1>3. ASSUME NEW r \in Run, StartPush(r)
        PROVE  Inv'
    BY <1>3, InvBegin DEF StartPush
  <1>4. ASSUME NEW r \in Run, CheckTag(r) \/ BuildArch(r) \/ Fail(r)
        PROVE  Inv'
    BY <1>4, InvPcStep
  <1>5. ASSUME NEW r \in Run, PushVariant(r)
        PROVE  Inv'
    BY <1>5, InvPushVariant
  <1>6. ASSUME NEW r \in Run, PushVariantUnanswered(r)
        PROVE  Inv'
    BY <1>6, InvPushVariantUnanswered
  <1>7. ASSUME NEW r \in Run, PushOnly(r)
        PROVE  Inv'
    BY <1>7, InvPushOnly
  <1>8. ASSUME NEW r \in Run, PushIndexTag(r)
        PROVE  Inv'
    BY <1>8, InvPushIndexTag
  <1>9. ASSUME NEW r \in Run, PushIndexTagUnanswered(r)
        PROVE  Inv'
    BY <1>9, InvPushIndexTagUnanswered
  <1> QED
    BY <1>1, <1>2, <1>3, <1>4, <1>5, <1>6, <1>7, <1>8, <1>9 DEF Next

\* The invariant: types, descs describes manifests that are in the registry
\* (what PushIndex relies on), and the loop counters agree with the step a run
\* is at.
THEOREM ReleaseInv == Spec => []Inv
  BY InvInit, InvNext, PTL DEF Spec

-----------------------------------------------------------------------------

\* Type correctness, and no loop runs past the end of its list.
THEOREM ReleaseTypeOK == Spec => []TypeOK
  <1>1. Inv => TypeOK
    BY DEF Inv
  <1> QED
    BY <1>1, ReleaseInv, PTL

\* Every step of a run is a step of the Repository contract or leaves the
\* repository as it is.
LEMMA StepIsContractStep == Inv /\ [Next]_vars => [RepoNext]_repository
  <1> SUFFICES ASSUME Inv, [Next]_vars PROVE [RepoNext]_repository
    OBVIOUS
  <1>1. CASE UNCHANGED vars
    BY <1>1 DEF vars, repository
  <1>2. ASSUME NEW r \in Run,
               \/ StartRelease(r) \/ StartPush(r) \/ CheckTag(r)
               \/ BuildArch(r) \/ Fail(r)
        PROVE  UNCHANGED repository
    BY <1>2 DEF StartRelease, StartPush, Begin, CheckTag, BuildArch, Fail,
                repository
  <1>3. ASSUME NEW r \in Run, NEW i \in 1 .. Len(args[r].arches),
               CopyVariant(r, i)
        PROVE  RepoNext
    <2>1. args[r].version \in Version /\ args[r].arches[i] \in Arch
      BY VariantType DEF Inv
    <2>2. PublishImage(args[r].version, args[r].arches[i], r)
      BY <1>3 DEF CopyVariant, PublishImage
    <2> QED
      BY <2>1, <2>2 DEF RepoNext
  <1>4. ASSUME NEW r \in Run, PushVariant(r) \/ PushVariantUnanswered(r)
        PROVE  RepoNext
    <2>1. Len(descs[r]) + 1 \in 1 .. Len(args[r].arches)
      BY <1>4, ArgsType
      DEF Inv, TypeOK, PushVariant, PushVariantUnanswered
    <2> QED
      BY <1>3, <1>4, <2>1 DEF PushVariant, PushVariantUnanswered
  <1>5. ASSUME NEW r \in Run, PushOnly(r)
        PROVE  RepoNext
    BY <1>3, <1>5 DEF Inv, LoopState, PushOnly
  <1>6. ASSUME NEW r \in Run,
               PushIndexTag(r) \/ PushIndexTagUnanswered(r)
        PROVE  RepoNext
    <2> DEFINE x == args[r]
               t == IndexTags(x.version)[pushed[r] + 1]
    <2>1. pc[r] = "index" /\ PutIndex(r)
      BY <1>6 DEF PushIndexTag, PushIndexTagUnanswered
    <2>2. /\ x.version \in Version
          /\ x.arches \in ArchList
          /\ t \in TagName
          /\ PublishIndex(x.version, x.arches, r, t)
      BY <2>1, PutIndexPuts DEF PublishIndex
    <2> HIDE DEF t, x
    <2> QED
      BY <2>2 DEF RepoNext
  <1> QED
    BY <1>1, <1>2, <1>4, <1>5, <1>6 DEF Next

\* Release implements the Repository contract, for any number of runs.
THEOREM ReleaseImplementsRepository == Spec => RepositoryContract
  <1>1. Init => RepoInit
    BY DEF Init
  <1> QED
    BY <1>1, StepIsContractStep, ReleaseInv, PTL
    DEF Spec, RepositoryContract, RepoSpec

\* So what the contract promises holds however runs interleave and fail.
COROLLARY ReleaseTagsResolve == Spec => []TagsResolve
  BY ReleaseImplementsRepository, RepositoryTagsResolve, PTL
  DEF RepositoryContract

\* A tag names what it holds, whatever runs PushVariant and PushIndex serve.
COROLLARY ReleaseTagNamesContent == Spec => []TagNamesContent
  BY ReleaseImplementsRepository, RepositoryTagNamesContent, PTL
  DEF RepositoryContract

\* The version of whatever the minor alias resolves to can be pulled, because
\* IndexTags lists the version first.
COROLLARY ReleaseAliasFollowsVersion == Spec => []AliasFollowsVersion
  BY ReleaseImplementsRepository, RepositoryAliasFollowsVersion, PTL
  DEF RepositoryContract

-----------------------------------------------------------------------------

\* Only a run that has begun has pushed anything, and every index is the index
\* of one such run.
IndexesAreReleases ==
    \A m \in store : m.kind = "index" =>
        \E r \in Run :
            /\ pc[r] # "idle"
            /\ m = IndexManifest(
                     ReleaseImages(args[r].version, args[r].arches, r))

\* What a step adds to the registry: one variant of its run, or its index.
LEMMA StepPuts ==
    ASSUME Inv, [Next]_vars
    PROVE  \/ UNCHANGED store
           \/ \E r \in Run, m \in Image :
                  /\ pc[r] \in {"push", "pushOnly"}
                  /\ m.by = r /\ store' = store \cup {m}
                  /\ UNCHANGED << args, publishedAtStart >>
           \/ \E r \in Run :
                  /\ pc[r] = "index"
                  /\ store' = store \cup {IndexManifest(
                         ReleaseImages(args[r].version, args[r].arches, r))}
                  /\ UNCHANGED << args, publishedAtStart >>
  <1>1. CASE UNCHANGED vars
    BY <1>1 DEF vars
  <1>2. ASSUME NEW r \in Run,
               \/ StartRelease(r) \/ StartPush(r) \/ CheckTag(r)
               \/ BuildArch(r) \/ Fail(r)
        PROVE  UNCHANGED store
    BY <1>2 DEF StartRelease, StartPush, Begin, CheckTag, BuildArch, Fail
  <1>3. ASSUME NEW r \in Run, NEW i \in 1 .. Len(args[r].arches),
               CopyVariant(r, i)
        PROVE  \E m \in Image : m.by = r /\ store' = store \cup {m}
    <2> DEFINE m == ImageManifest(args[r].version, args[r].arches[i], r)
    <2>1. m \in Image
      BY VariantType DEF Inv
    <2>2. m.by = r
      BY DEF ImageManifest
    <2>3. store' = store \cup {m}
      BY <1>3 DEF CopyVariant, Put
    <2> QED
      BY <2>1, <2>2, <2>3
  <1>4. ASSUME NEW r \in Run, PushVariant(r) \/ PushVariantUnanswered(r)
        PROVE  /\ pc[r] = "push"
               /\ \E m \in Image : m.by = r /\ store' = store \cup {m}
               /\ UNCHANGED << args, publishedAtStart >>
    <2>1. Len(descs[r]) + 1 \in 1 .. Len(args[r].arches)
      BY <1>4, ArgsType DEF Inv, TypeOK, PushVariant, PushVariantUnanswered
    <2> QED
      BY <1>3, <1>4, <2>1 DEF PushVariant, PushVariantUnanswered, run
  <1>5. ASSUME NEW r \in Run, PushOnly(r)
        PROVE  /\ pc[r] = "pushOnly"
               /\ \E m \in Image : m.by = r /\ store' = store \cup {m}
               /\ UNCHANGED << args, publishedAtStart >>
    BY <1>3, <1>5 DEF Inv, LoopState, PushOnly, run
  <1>6. ASSUME NEW r \in Run, PushIndexTag(r) \/ PushIndexTagUnanswered(r)
        PROVE  /\ pc[r] = "index"
               /\ store' = store \cup {IndexManifest(
                      ReleaseImages(args[r].version, args[r].arches, r))}
               /\ UNCHANGED << args, publishedAtStart >>
    <2>1. pc[r] = "index" /\ PutIndex(r)
      BY <1>6 DEF PushIndexTag, PushIndexTagUnanswered
    <2> QED
      BY <1>6, <2>1, PutIndexPuts
      DEF Put, PushIndexTag, PushIndexTagUnanswered, run
  <1> QED
    BY <1>1, <1>2, <1>4, <1>5, <1>6 DEF Next

\* A run that has begun stays begun, with the command line it was given.
LEMMA StepKeepsArgs ==
    ASSUME Inv, [Next]_vars, NEW r \in Run, pc[r] # "idle"
    PROVE  /\ pc'[r] # "idle"
           /\ args'[r] = args[r]
           /\ publishedAtStart'[r] = publishedAtStart[r]
  <1>1. CASE UNCHANGED vars
    BY <1>1 DEF vars, run
  <1>2. ASSUME NEW q \in Run, StartRelease(q) \/ StartPush(q)
        PROVE  /\ q # r
               /\ pc'[r] = pc[r]
               /\ args'[r] = args[r]
               /\ publishedAtStart'[r] = publishedAtStart[r]
    BY <1>2 DEF StartRelease, StartPush, Begin, Inv, TypeOK
  <1>3. ASSUME NEW q \in Run,
               \/ CheckTag(q) \/ BuildArch(q) \/ PushVariant(q)
               \/ PushVariantUnanswered(q) \/ PushOnly(q) \/ PushIndexTag(q)
               \/ PushIndexTagUnanswered(q) \/ Fail(q)
        PROVE  /\ \E step : step # "idle" /\ pc' = [pc EXCEPT ![q] = step]
               /\ UNCHANGED << args, publishedAtStart >>
    <2>1. \A n \in Nat : NextArch(args[q], n) # "idle"
      BY DEF NextArch
    <2>2. Len(descs[q]) + 1 \in Nat
      BY DEF Inv, TypeOK
    <2>3. CASE CheckTag(q)
      BY <2>1, <2>3 DEF CheckTag, run
    <2>4. CASE PushVariant(q)
      BY <2>1, <2>2, <2>4 DEF PushVariant
    <2>5. CASE BuildArch(q) \/ PushOnly(q) \/ Fail(q)
      BY <2>5 DEF BuildArch, PushOnly, Fail, run
    <2>6. CASE PushIndexTag(q)
      BY <2>6 DEF PushIndexTag
    <2>7. CASE PushVariantUnanswered(q) \/ PushIndexTagUnanswered(q)
      <3>1. pc[q] # "idle" /\ pc = [pc EXCEPT ![q] = pc[q]]
        BY <2>7 DEF PushVariantUnanswered, PushIndexTagUnanswered, Inv, TypeOK
      <3> QED
        BY <2>7, <3>1 DEF PushVariantUnanswered, PushIndexTagUnanswered, run
    <2> QED
      BY <1>3, <2>3, <2>4, <2>5, <2>6, <2>7
  <1>4. ASSUME NEW q \in Run, NEW step, step # "idle",
               pc' = [pc EXCEPT ![q] = step]
        PROVE  pc'[r] # "idle"
    BY <1>4 DEF Inv, TypeOK
  <1> QED
    BY <1>1, <1>2, <1>3, <1>4 DEF Next

\* A published index carries an image of one run for each of its --arches.
THEOREM ReleaseIndexCarriesEveryArch == Spec => []IndexCarriesEveryArch
  <1>1. Init => IndexesAreReleases
    BY DEF Init, RepoInit, IndexesAreReleases
  <1>2. IndexesAreReleases /\ Inv /\ [Next]_vars => IndexesAreReleases'
    <2> SUFFICES ASSUME IndexesAreReleases, Inv, [Next]_vars,
                        NEW m \in store', m.kind = "index"
                 PROVE  \E r \in Run :
                            /\ pc'[r] # "idle"
                            /\ m = IndexManifest(ReleaseImages(
                                     args'[r].version, args'[r].arches, r))
      BY DEF IndexesAreReleases
    <2>1. \E r \in Run :
              /\ pc[r] # "idle"
              /\ m = IndexManifest(
                       ReleaseImages(args[r].version, args[r].arches, r))
      <3>1. CASE m \in store
        BY <3>1 DEF IndexesAreReleases
      <3>2. CASE m \notin store
        <4>1. m \notin Image
          BY DEF Image
        <4> QED
          BY <3>2, <4>1, StepPuts
      <3> QED
        BY <3>1, <3>2
    <2> QED
      BY <2>1, StepKeepsArgs
  <1>3. IndexesAreReleases /\ Inv => IndexCarriesEveryArch
    <2> SUFFICES ASSUME IndexesAreReleases, Inv,
                        NEW m \in store, m.kind = "index"
                 PROVE  \E r \in Run :
                          /\ Len(m.manifests) = Len(args[r].arches)
                          /\ \A i \in 1 .. Len(m.manifests) :
                                 m.manifests[i] =
                                   [kind    |-> "image",
                                    version |-> args[r].version,
                                    arch    |-> args[r].arches[i],
                                    by      |-> r]
      BY DEF IndexCarriesEveryArch
    <2>1. PICK r \in Run : m = IndexManifest(
                     ReleaseImages(args[r].version, args[r].arches, r))
      BY DEF IndexesAreReleases
    <2>2. args[r].version \in Version /\ args[r].arches \in ArchList
      BY ArgsType DEF Inv, TypeOK
    <2>3. m.manifests = ReleaseImages(args[r].version, args[r].arches, r)
      BY <2>1 DEF IndexManifest
    <2> QED
      BY <2>2, <2>3, IndexType DEF ImageManifest
  <1> QED
    BY <1>1, <1>2, <1>3, ReleaseInv, PTL DEF Spec

-----------------------------------------------------------------------------

\* No image in the registry was packed by the run.
PackedNothing(r) == \A m \in store : m.kind = "image" => m.by # r

\* A run that has to find its version finds it, and then ends, unless it was
\* told of a 404 that was none.
SkipInv ==
    \A r \in Run :
        /\ pc[r] \in {"idle", "check"} => PackedNothing(r)
        /\ pc[r] = "idle" => ~ publishedAtStart[r]
        /\ args[r].skipExisting /\ publishedAtStart[r]
               /\ resolved[r] # "mentions404" =>
               /\ PackedNothing(r)
               /\ pc[r] \in {"check", "skipped", "failed"}
        /\ args[r].skipExisting /\ publishedAtStart[r] =>
               tags[args[r].version] # Absent

\* A run started with --skip-existing for a version that could be pulled then
\* has put nothing into the registry, unless the one error that isNotFound
\* mistakes for an answer of the registry was the answer to its one question.
THEOREM ReleaseSkippedWritesForCause == Spec => []SkippedWritesForCause
  <1>1. Init => SkipInv
    BY DEF Init, RepoInit, SkipInv, PackedNothing
  <1>2. SkipInv /\ Inv /\ [Next]_vars => SkipInv'
    <2> SUFFICES ASSUME SkipInv, Inv, [Next]_vars PROVE SkipInv'
      OBVIOUS
    <2>1. \A q \in Run : tags[args[q].version] # Absent
                           => tags'[args[q].version] # Absent
      <3>1. \A q \in Run : args[q].version \in TagName
        BY ArgsType DEF Inv, TypeOK, TagName
      <3> QED
        BY <3>1, StepIsContractStep, TagsStay DEF Inv, TypeOK
    <2>2. CASE UNCHANGED vars
      BY <2>2 DEF vars, run, SkipInv, PackedNothing
    <2>3. ASSUME NEW r \in Run, NEW x \in Args, NEW step,
                 Begin(r, x, step), step # "idle",
                 x.skipExisting => step = "check"
          PROVE  SkipInv'
      <3>1. PackedNothing(r)
        BY <2>3 DEF Begin, SkipInv
      <3> QED
        BY <2>3, <3>1 DEF Begin, SkipInv, PackedNothing, Inv, TypeOK
    <2>4. ASSUME NEW r \in Run, CheckTag(r)
          PROVE  SkipInv'
      <3>1. PICK err, step :
                /\ err \in Resolve(args[r].version)
                /\ resolved' = [resolved EXCEPT ![r] = err]
                /\ pc' = [pc EXCEPT ![r] = step]
                /\ step \notin {"idle", "check"}
                /\ isNotFound(err) \/ step \in {"skipped", "failed"}
        <4>1. NextArch(args[r], 0) \notin {"idle", "check"}
          BY DEF NextArch
        <4> QED
          BY <2>4, <4>1 DEF CheckTag
      <3>2. /\ pc[r] = "check"
            /\ UNCHANGED << store, tags, args, descs, pushed, publishedAtStart >>
        BY <2>4 DEF CheckTag
      <3>3. tags[args[r].version] # Absent /\ err # "mentions404"
                => step \in {"skipped", "failed"}
        BY <3>1, TransportErrorsAssumption DEF Resolve, isNotFound
      <3>4. /\ resolved'[r] = err /\ pc'[r] = step
            /\ \A q \in Run \ {r} : resolved'[q] = resolved[q] /\ pc'[q] = pc[q]
        BY <3>1 DEF Inv, TypeOK
      <3> QED
        BY <3>1, <3>2, <3>3, <3>4 DEF SkipInv, PackedNothing
    <2>5. ASSUME NEW r \in Run, BuildArch(r) \/ Fail(r)
          PROVE  SkipInv'
      BY <2>5 DEF BuildArch, Fail, run, SkipInv, PackedNothing, Inv, TypeOK
    <2>6. ASSUME NEW r \in Run,
                 \/ PushVariant(r) \/ PushVariantUnanswered(r) \/ PushOnly(r)
                 \/ PushIndexTag(r) \/ PushIndexTagUnanswered(r)
          PROVE  SkipInv'
      <3>1. /\ pc[r] \in {"push", "pushOnly", "index"}
            /\ UNCHANGED << args, publishedAtStart, resolved >>
        BY <2>6 DEF PushVariant, PushVariantUnanswered, PushOnly,
                    PushIndexTag, PushIndexTagUnanswered, run
      <3>2. \A q \in Run \ {r} : pc'[q] = pc[q]
        BY <2>6 DEF PushVariant, PushVariantUnanswered, PushOnly,
                    PushIndexTag, PushIndexTagUnanswered, Inv, TypeOK
      <3>3. pc'[r] \notin {"idle", "check"}
        <4>1. \A n : NextArch(args[r], n) \notin {"idle", "check"}
          BY DEF NextArch
        <4> QED
          BY <2>6, <4>1
          DEF PushVariant, PushVariantUnanswered, PushOnly,
              PushIndexTag, PushIndexTagUnanswered, Inv, TypeOK
      <3>4. ~ (/\ args[r].skipExisting /\ publishedAtStart[r]
                /\ resolved[r] # "mentions404")
        BY <3>1 DEF SkipInv
      <3>5. \A m \in store' : m.kind = "image" => m \in store \/ m.by = r
        <4>1. \A i \in 1 .. Len(args[r].arches) :
                  CopyVariant(r, i) => \A m \in store' : m \in store \/ m.by = r
          BY DEF CopyVariant, Put, ImageManifest
        <4>2. PutIndex(r) => \A m \in store' : m.kind = "image" => m \in store
          BY DEF PutIndex, Put, IndexManifest
        <4>3. PushVariant(r) \/ PushVariantUnanswered(r)
                  => Len(descs[r]) + 1 \in 1 .. Len(args[r].arches)
          BY ArgsType DEF Inv, TypeOK, PushVariant, PushVariantUnanswered
        <4>4. PushOnly(r) => 1 \in 1 .. Len(args[r].arches)
          BY DEF Inv, LoopState, PushOnly
        <4> QED
          BY <2>6, <4>1, <4>2, <4>3, <4>4
          DEF PushVariant, PushVariantUnanswered, PushOnly,
              PushIndexTag, PushIndexTagUnanswered
      <3> QED
        BY <2>1, <3>1, <3>2, <3>3, <3>4, <3>5 DEF SkipInv, PackedNothing
    <2>7. ASSUME NEW r \in Run, StartRelease(r) \/ StartPush(r)
          PROVE  SkipInv'
      <3>1. \A x \in Args : NextArch(x, 0) # "idle"
        BY DEF NextArch
      <3> QED
        BY <2>3, <2>7, <3>1 DEF StartRelease, StartPush, FirstStep
    <2> QED
      BY <2>2, <2>4, <2>5, <2>6, <2>7 DEF Next
  <1>3. SkipInv => SkippedWritesForCause
    BY DEF SkipInv, PackedNothing, SkippedWritesForCause
  <1> QED
    BY <1>1, <1>2, <1>3, ReleaseInv, PTL DEF Spec

-----------------------------------------------------------------------------

\* What a run does once it has begun.
RunStep(r) ==
    \/ CheckTag(r) \/ BuildArch(r) \/ PushVariant(r)
    \/ PushVariantUnanswered(r) \/ PushOnly(r) \/ PushIndexTag(r)
    \/ PushIndexTagUnanswered(r) \/ Fail(r)

\* It changes nothing that belongs to another run.
LEMMA RunStepIsLocal ==
    ASSUME Inv, NEW r \in Run, RunStep(r)
    PROVE  /\ pc[r] \in Live
           /\ args' = args
           /\ \A q \in Run \ {r} : /\ pc'[q] = pc[q] /\ descs'[q] = descs[q]
                                   /\ pushed'[q] = pushed[q]
  <1>1. CASE CheckTag(r) \/ BuildArch(r) \/ Fail(r)
    BY <1>1 DEF CheckTag, BuildArch, Fail, run, Live, Inv, TypeOK
  <1>2. CASE PushVariant(r) \/ PushIndexTag(r)
    BY <1>2 DEF PushVariant, PushIndexTag, Live, Inv, TypeOK
  <1>3. CASE PushVariantUnanswered(r) \/ PushIndexTagUnanswered(r) \/ PushOnly(r)
    BY <1>3 DEF PushVariantUnanswered, PushIndexTagUnanswered, PushOnly, run, Live,
                Inv, TypeOK
  <1> QED
    BY <1>1, <1>2, <1>3 DEF RunStep

\* What becomes of a tag: it is left alone, or it holds an image, or the index
\* of the complete release of the run whose turn it is at this tag.
LEMMA RunStepTags ==
    ASSUME Inv, NEW r \in Run, RunStep(r), NEW t \in TagName
    PROVE  \/ tags'[t] = tags[t]
           \/ tags'[t].kind = "image"
           \/ /\ pc[r] = "index" /\ descs[r] # << >>
              /\ PushIndexTag(r) \/ PushIndexTagUnanswered(r)
              /\ descs[r] = ReleaseImages(args[r].version, args[r].arches, r)
              /\ tags'[t] = IndexManifest(
                     ReleaseImages(args[r].version, args[r].arches, r))
              /\ \/ pushed[r] = 0 /\ t = args[r].version
                 \/ pushed[r] = 1 /\ t = k8sMajorMinor(args[r].version)
  <1> USE DEF Inv, TypeOK, RepoTypeOK
  <1>1. CASE CheckTag(r) \/ BuildArch(r) \/ Fail(r)
    BY <1>1 DEF CheckTag, BuildArch, Fail
  <1>2. ASSUME NEW i, CopyVariant(r, i)
        PROVE  tags'[t] = tags[t] \/ tags'[t].kind = "image"
    BY <1>2 DEF CopyVariant, Put, ImageManifest
  <1>3. CASE PushVariant(r) \/ PushVariantUnanswered(r) \/ PushOnly(r)
    BY <1>2, <1>3 DEF PushVariant, PushVariantUnanswered, PushOnly
  <1>4. CASE PushIndexTag(r) \/ PushIndexTagUnanswered(r)
    <2>1. pc[r] = "index" /\ PutIndex(r) /\ descs[r] # << >>
      BY <1>4 DEF PushIndexTag, PushIndexTagUnanswered, PutIndex
    <2> QED
      BY <1>4, <2>1, PutIndexPuts DEF Put
  <1> QED
    BY <1>1, <1>3, <1>4 DEF RunStep

\* Where a run is after its step at the index.
LEMMA IndexStepEnds ==
    ASSUME Inv, NEW r \in Run, RunStep(r), pc[r] = "index"
    PROVE  /\ descs' = descs
           /\ \/ pc'[r] \in {"index", "failed"}
              \/ /\ pc'[r] = "released" /\ pushed[r] = 1
                 /\ tags'[k8sMajorMinor(args[r].version)] # Absent
  <1>1. CASE PushIndexTag(r)
    <2>1. Len(IndexTags(args[r].version)) = 2 /\ args[r].version \in Version
      BY ArgsType, IndexTagsFacts DEF Inv, TypeOK
    <2>2. PutIndex(r) /\ pushed[r] \in {0, 1}
      BY <1>1 DEF PushIndexTag, Inv, TypeOK
    <2>3. pushed[r] = 1 => tags'[k8sMajorMinor(args[r].version)] # Absent
      <3> DEFINE t == IndexTags(args[r].version)[pushed[r] + 1]
                 m == IndexManifest(
                          ReleaseImages(args[r].version, args[r].arches, r))
      <3>1. /\ m \in Index /\ t \in TagName /\ Put(m, t)
            /\ pushed[r] = 1 => t = k8sMajorMinor(args[r].version)
        BY <2>2, PutIndexPuts
      <3> HIDE DEF m, t
      <3>2. tags'[t] # Absent
        BY <3>1, PutMonotonic DEF Inv, TypeOK
      <3> QED
        BY <3>1, <3>2
    <2> QED
      BY <1>1, <2>1, <2>2, <2>3 DEF PushIndexTag, MoreIndexTags, Inv, TypeOK
  <1>2. CASE PushIndexTagUnanswered(r) \/ Fail(r)
    BY <1>2 DEF PushIndexTagUnanswered, Fail, run, Inv, TypeOK
  <1> QED
    BY <1>1, <1>2 DEF RunStep, CheckTag, BuildArch, PushVariant,
                      PushVariantUnanswered, PushOnly

\* An alias has no alias but itself.
LEMMA AliasOfAlias ==
    ASSUME NEW v
    PROVE  k8sMajorMinor(k8sMajorMinor(v)) = k8sMajorMinor(v)
  BY DEF k8sMajorMinor

\* A version that can be pulled has its minor alias, unless a run of it is
\* between the two or ended there: no other run and no retry can undo it.
THEOREM ReleaseAliasMissingForCause == Spec => []AliasMissingForCause
  <1>1. Init => AliasMissingForCause
    BY IndexTagsFacts DEF Init, RepoInit, AliasMissingForCause, Absent
  <1>2. Inv /\ AliasMissingForCause /\ [Next]_vars => AliasMissingForCause'
    <2> SUFFICES ASSUME Inv, AliasMissingForCause, [Next]_vars,
                        NEW v \in Version, tags'[v].kind = "index",
                        tags'[k8sMajorMinor(v)] = Absent
                 PROVE  \E r \in Run : /\ args'[r].version = v
                                       /\ tags'[v].manifests = descs'[r]
                                       /\ pc'[r] \in {"index", "failed"}
      BY DEF AliasMissingForCause
    <2>1. v \in TagName /\ k8sMajorMinor(v) \in TagName
      BY IndexTagsFacts
    <2>2. tags[k8sMajorMinor(v)] = Absent
      BY <2>1, StepIsContractStep, TagsStay DEF Inv, TypeOK
    <2>3. ASSUME tags[v].kind = "index"
          PROVE  \E r \in Run : /\ args[r].version = v
                                /\ tags[v].manifests = descs[r]
                                /\ pc[r] \in {"index", "failed"}
      BY <2>2, <2>3 DEF AliasMissingForCause
    <2>4. CASE UNCHANGED vars
      BY <2>3, <2>4 DEF vars, run
    <2>5. ASSUME NEW q \in Run, StartRelease(q) \/ StartPush(q)
          PROVE  \E r \in Run : /\ args'[r].version = v
                                /\ tags'[v].manifests = descs'[r]
                                /\ pc'[r] \in {"index", "failed"}
      <3>1. /\ pc[q] = "idle" /\ UNCHANGED << tags, descs >>
            /\ \A r \in Run \ {q} : pc'[r] = pc[r] /\ args'[r] = args[r]
        BY <2>5 DEF StartRelease, StartPush, Begin, Inv, TypeOK
      <3> QED
        BY <2>3, <3>1
    <2>6. ASSUME NEW q \in Run, RunStep(q)
          PROVE  \E r \in Run : /\ args'[r].version = v
                                /\ tags'[v].manifests = descs'[r]
                                /\ pc'[r] \in {"index", "failed"}
      <3>1. CASE tags'[v] = tags[v]
        <4>1. PICK r \in Run : /\ args[r].version = v
                               /\ tags[v].manifests = descs[r]
                               /\ pc[r] \in {"index", "failed"}
          BY <2>3, <3>1
        <4>2. CASE r # q
          BY <2>6, <3>1, <4>1, <4>2, RunStepIsLocal
        <4>3. CASE r = q
          <5>1. pc[q] = "index" /\ args' = args
            BY <2>6, <4>1, <4>3, RunStepIsLocal DEF Live
          <5> QED
            BY <2>6, <3>1, <4>1, <4>3, <5>1, IndexStepEnds
        <4> QED
          BY <4>2, <4>3
      <3>2. CASE tags'[v] # tags[v]
        <4> DEFINE images == ReleaseImages(args[q].version, args[q].arches, q)
        <4>0. /\ pc[q] = "index"
              /\ \/ v = args[q].version
                 \/ v = k8sMajorMinor(args[q].version)
              /\ descs[q] = images /\ tags'[v] = IndexManifest(images)
          <5>1. tags'[v].kind # "image"
            OBVIOUS
          <5> QED
            BY <2>1, <2>6, <3>2, <5>1, RunStepTags
        <4> HIDE DEF images
        <4>1. tags'[v].manifests = descs[q] /\ pc[q] = "index"
          BY <4>0 DEF IndexManifest
        <4>2. v = args[q].version
          BY <4>0, AliasOfAlias DEF Absent
        <4> QED
          BY <2>6, <4>1, <4>2, IndexStepEnds, RunStepIsLocal
      <3> QED
        BY <3>1, <3>2
    <2> QED
      BY <2>4, <2>5, <2>6 DEF Next, RunStep
  <1> QED
    BY <1>1, <1>2, ReleaseInv, PTL DEF Spec
=============================================================================
