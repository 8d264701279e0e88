-------------------------- MODULE WorkflowsProofs ---------------------------
(***************************************************************************)
(* Theorems of Workflows, for every set of jobs, versions and lists.       *)
(*                                                                         *)
(* A job runs one release at a time (JobRuns), so that killing it ends one *)
(* run; every step of a job is then a step of Release or leaves its        *)
(* variables alone, and what is proved of Release holds for the workflows. *)
(*                                                                         *)
(* What a job's success is worth is proved of its own loop: the n-th       *)
(* release of a job has the n-th version of its list (ListedRuns); a       *)
(* release that ends well leaves its version published (Published); and    *)
(* whoever replaces an index a rebuild has pushed existed while the        *)
(* rebuild was at work, or was started after it and packs files as new     *)
(* (Overlaps, Refreshed).                                                  *)
(***************************************************************************)
EXTENDS Workflows, ReleaseProofs, FiniteSetTheorems

\* Of a job's runs those before the last begun have ended, and those after it
\* have not begun.
JobRuns ==
    \A j \in Job : \A n \in 1 .. MaxListed :
        /\ n > begun[j] => pc[<< j, n >>] = "idle"
        /\ n < begun[j] => pc[<< j, n >>] \notin Live

\* A job begins its first release when it has its list.
NotBegun ==
    \A j \in Job : phase[j] \in {"idle", "listing"} \cup Waiting => begun[j] = 0

WFInv == Inv /\ WFTypeOK /\ JobRuns /\ NotBegun

\* The n-th release of a job is a run.
LEMMA RunOfJob ==
    ASSUME NEW j \in Job, NEW n \in 1 .. MaxListed
    PROVE  << j, n >> \in Run
  BY JobAssumption

\* A registry lists no more tags than a job can go through.
LEMMA ListedType ==
    ASSUME NEW s \in SetToSeqs(PublishedTags)
    PROVE  s \in Seq(Version) /\ Len(s) <= MaxListed
  <1>1. PublishedTags \subseteq Version
    BY DEF PublishedTags
  <1>2. /\ IsFiniteSet(PublishedTags)
        /\ Cardinality(PublishedTags) <= Cardinality(Version)
    BY <1>1, JobAssumption, FS_Subset
  <1>3. Cardinality(PublishedTags) \in Nat /\ Cardinality(Version) \in Nat
    BY <1>2, JobAssumption, FS_CardinalityType
  <1>4. s \in [1 .. Cardinality(PublishedTags) -> PublishedTags]
    BY DEF SetToSeqs
  <1> HIDE DEF PublishedTags
  <1>5. s \in Seq(PublishedTags) /\ Len(s) = Cardinality(PublishedTags)
    BY <1>3, <1>4
  <1>6. s \in Seq(Version)
    BY <1>1, <1>5, SeqMonotonic
  <1> QED
    BY <1>2, <1>3, <1>5, <1>6, JobAssumption

\* The command line of the loop's body is one Release can be given.
LEMMA ReleaseArgsType ==
    ASSUME NEW j \in Job, NEW v \in Version
    PROVE  /\ ReleaseArgs(j, v) \in Args
           /\ ReleaseArgs(j, v).skipExisting \in SkipModes
  BY JobAssumption DEF ReleaseArgs, Args

-----------------------------------------------------------------------------

\* The steps of a job that do not touch a release.
JobStep(j) ==
    \/ StartReleaseOne(j) \/ StartReleaseAll(j) \/ PushFiles(j)
    \/ PushFilesUndetected(j) \/ EnterGroup(j) \/ CancelWaiting(j)
    \/ StartRebuild(j) \/ ListUpstream(j) \/ ListUpstreamFails(j)
    \/ ListPublished(j) \/ ListPublishedEmpty(j) \/ Finish(j)

\* They leave the registry, and what is known of the releases, alone.
LEMMA JobStepKeepsVars ==
    ASSUME NEW j \in Job, JobStep(j)
    PROVE  UNCHANGED vars /\ UNCHANGED begun
  BY DEF JobStep, StartReleaseOne, StartReleaseAll, PushFiles,
         PushFilesUndetected, EnterGroup, CancelWaiting, StartRebuild,
         ListUpstream, ListUpstreamFails, ListPublished, ListPublishedEmpty,
         Finish, SetList

\* Killing a job ends at most its last release.
LEMMA KillEndsOne ==
    ASSUME WFInv, NEW j \in Job, Kill(j)
    PROVE  \/ UNCHANGED vars
           \/ \E r \in Run : Fail(r)
  <1>1. /\ pc' = [r \in Run |-> IF r[1] = j /\ pc[r] \in Live THEN "failed"
                                ELSE pc[r]]
        /\ UNCHANGED << store, tags, run >>
    BY DEF Kill, StopRuns
  <1>2. pc = [r \in Run |-> pc[r]]
    BY DEF WFInv, Inv, TypeOK
  <1>3. CASE \A r \in Run : r[1] = j => pc[r] \notin Live
    <2>1. pc' = pc
      BY <1>1, <1>2, <1>3
    <2> QED
      BY <1>1, <2>1 DEF vars
  <1>4. CASE \E r \in Run : r[1] = j /\ pc[r] \in Live
    <2>1. PICK r \in Run : r[1] = j /\ pc[r] \in Live
      BY <1>4
    <2>2. \A q \in Run : q[1] = j /\ pc[q] \in Live => q = << j, begun[j] >>
      <3> SUFFICES ASSUME NEW q \in Run, q[1] = j, pc[q] \in Live
                   PROVE  q = << j, begun[j] >>
        OBVIOUS
      <3>1. PICK n \in 1 .. MaxListed : q = << j, n >>
        BY JobAssumption
      <3>2. n \in Int /\ begun[j] \in Int
        BY JobAssumption DEF WFInv, WFTypeOK
      <3>3. ~ (n > begun[j]) /\ ~ (n < begun[j])
        BY <3>1 DEF WFInv, JobRuns, Live
      <3> QED
        BY <3>1, <3>2, <3>3
    <2>3. pc' = [pc EXCEPT ![r] = "failed"]
      BY <1>1, <1>2, <2>1, <2>2
    <2> QED
      BY <1>1, <2>1, <2>3 DEF Fail
  <1> QED
    BY <1>3, <1>4

\* Every step of the workflows is a step of Release, or none.
LEMMA StepIsReleaseStep == WFInv /\ [WFNext]_wfVars => [Next]_vars
  <1> SUFFICES ASSUME WFInv, [WFNext]_wfVars PROVE [Next]_vars
    OBVIOUS
  <1>1. CASE UNCHANGED wfVars
    BY <1>1 DEF wfVars
  <1>2. ASSUME NEW j \in Job, JobStep(j)
        PROVE  [Next]_vars
    BY <1>2, JobStepKeepsVars
  <1>3. ASSUME NEW j \in Job, NextVersion(j)
        PROVE  [Next]_vars
    <2> DEFINE n == begun[j] + 1
               x == ReleaseArgs(j, listed[j][n])
    <2>1. /\ n \in 1 .. MaxListed
          /\ n \in 1 .. Len(listed[j])
          /\ listed[j] \in Seq(Version)
      BY <1>3, JobAssumption DEF WFInv, WFTypeOK, NextVersion
    <2>2. x \in Args /\ x.skipExisting \in SkipModes
      BY <2>1, ReleaseArgsType, ElementOfSeq
    <2>3. StartRelease(<< j, n >>)
      BY <1>3, <2>2 DEF NextVersion, StartRelease
    <2> QED
      BY <2>1, <2>3, RunOfJob DEF Next
  <1>4. ASSUME NEW j \in Job, ReleaseStep(j)
        PROVE  [Next]_vars
    BY <1>4, RunOfJob DEF ReleaseStep, Next
  <1>5. ASSUME NEW j \in Job, Kill(j)
        PROVE  [Next]_vars
    BY <1>5, KillEndsOne DEF Next
  <1> QED
    BY <1>1, <1>2, <1>3, <1>4, <1>5 DEF WFNext, JobStep

-----------------------------------------------------------------------------

\* The invariant holds before any job has started.
LEMMA WFInvInit == WFInit => WFInv
  <1> SUFFICES ASSUME WFInit PROVE WFInv
    OBVIOUS
  <1>1. Inv
    BY InvInit DEF WFInit
  <1>2. WFTypeOK
    BY JobAssumption DEF WFInit, WFTypeOK
  <1>3. JobRuns
    <2> SUFFICES ASSUME NEW j \in Job, NEW n \in 1 .. MaxListed
                 PROVE  /\ n > begun[j] => pc[<< j, n >>] = "idle"
                        /\ n < begun[j] => pc[<< j, n >>] \notin Live
      BY DEF JobRuns
    <2>1. << j, n >> \in Run
      BY RunOfJob
    <2>2. pc[<< j, n >>] = "idle"
      BY <2>1 DEF WFInit, Init
    <2>3. "idle" \notin Live
      BY DEF Live
    <2> QED
      BY <2>2, <2>3
  <1>4. NotBegun
    BY DEF WFInit, NotBegun
  <1> QED
    BY <1>1, <1>2, <1>3, <1>4 DEF WFInv

\* The types of the workflow's own variables.
LEMMA WFTypeStep ==
    ASSUME WFInv, [WFNext]_wfVars
    PROVE  WFTypeOK'
  <1> USE DEF WFInv, WFTypeOK
  <1>1. CASE UNCHANGED wfVars
    BY <1>1 DEF wfVars, workflow
  <1>2. ASSUME RecordOverlap
        PROVE  overlap' \in [Job -> SUBSET Job]
    BY <1>2 DEF RecordOverlap
  <1>3. ASSUME NEW j \in Job, NEW s \in Seq(Version), Len(s) <= MaxListed,
               phase[j] \in {"idle", "listing"},
               listed' = [listed EXCEPT ![j] = s], UNCHANGED begun
        PROVE  /\ listed' \in [Job -> Seq(Version)]
               /\ begun' \in [Job -> Nat]
               /\ \A k \in Job : Len(listed'[k]) <= MaxListed
                                /\ begun'[k] <= Len(listed'[k])
    <2>1. begun[j] = 0 /\ Len(s) >= 0
      BY <1>3 DEF NotBegun
    <2> QED
      BY <1>3, <2>1
  <1>4. ASSUME NEW j \in Job, StartReleaseOne(j)
        PROVE  WFTypeOK'
    <2>1. PICK v \in Version : listed' = [listed EXCEPT ![j] = << v >>]
      BY <1>4 DEF StartReleaseOne
    <2>2. << v >> \in Seq(Version) /\ Len(<< v >>) = 1 /\ 1 <= MaxListed
      BY JobAssumption
    <2>3. /\ phase[j] = "idle"
          /\ phase' = [phase EXCEPT ![j] = "releasing"]
          /\ files' = [files EXCEPT ![j] = head]
          /\ RecordOverlap /\ head' = head /\ begun' = begun
      BY <1>4 DEF StartReleaseOne
    <2>4. /\ listed' \in [Job -> Seq(Version)]
          /\ begun' \in [Job -> Nat]
          /\ \A k \in Job : Len(listed'[k]) <= MaxListed
                           /\ begun'[k] <= Len(listed'[k])
      <3>1. Len(<< v >>) <= MaxListed /\ phase[j] \in {"idle", "listing"}
        BY <2>2, <2>3
      <3> QED
        BY <1>3, <2>1, <2>2, <2>3, <3>1
    <2>5. phase' \in [Job -> {"idle"} \cup Waiting \cup AtWork \cup Over]
      BY <2>3 DEF AtWork
    <2>6. head' \in Nat /\ files' \in [Job -> 0 .. head']
      BY <2>3
    <2>7. overlap' \in [Job -> SUBSET Job]
      BY <1>2, <2>3
    <2> QED
      BY <2>4, <2>5, <2>6, <2>7
  <1>5. ASSUME NEW j \in Job, StartReleaseAll(j)
        PROVE  WFTypeOK'
    BY <1>2, <1>5 DEF StartReleaseAll, AtWork
  <1>6. ASSUME NEW j \in Job, PushFiles(j)
        PROVE  WFTypeOK'
    BY <1>2, <1>6 DEF PushFiles, Waiting
  <1>7. ASSUME NEW j \in Job, PushFilesUndetected(j)
        PROVE  WFTypeOK'
    BY <1>2, <1>7 DEF PushFilesUndetected, Over
  <1>8. ASSUME NEW j \in Job, EnterGroup(j) \/ CancelWaiting(j)
        PROVE  WFTypeOK'
    BY <1>2, <1>8 DEF EnterGroup, CancelWaiting, Waiting, Over
  <1>9. ASSUME NEW j \in Job,
               \/ StartRebuild(j) \/ ListUpstreamFails(j)
               \/ ListPublishedEmpty(j) \/ Finish(j)
        PROVE  WFTypeOK'
    BY <1>2, <1>9
    DEF StartRebuild, ListUpstreamFails, ListPublishedEmpty, Finish,
        AtWork, Over
  <1>10. ASSUME NEW j \in Job, NEW s \in Seq(Version), Len(s) <= MaxListed,
                phase[j] = "listing", SetList(j, s)
         PROVE  WFTypeOK'
    BY <1>2, <1>3, <1>10 DEF SetList, AtWork
  <1>11. ASSUME NEW j \in Job, ListUpstream(j) \/ ListPublished(j)
         PROVE  WFTypeOK'
    BY <1>10, <1>11, ListedType, JobAssumption
    DEF ListUpstream, ListPublished
  <1>12. ASSUME NEW j \in Job, NextVersion(j)
         PROVE  WFTypeOK'
    BY <1>12 DEF NextVersion
  <1>13. ASSUME NEW j \in Job, ReleaseStep(j)
         PROVE  WFTypeOK'
    BY <1>13 DEF ReleaseStep
  <1>14. ASSUME NEW j \in Job, Kill(j)
         PROVE  WFTypeOK'
    BY <1>2, <1>14 DEF Kill, Over
  <1> QED
    BY <1>1, <1>4, <1>5, <1>6, <1>7, <1>8, <1>9, <1>11, <1>12, <1>13, <1>14
    DEF WFNext

\* A job that has no list yet has begun no release.
LEMMA NotBegunStep ==
    ASSUME WFInv, [WFNext]_wfVars
    PROVE  NotBegun'
  <1> USE DEF WFInv, WFTypeOK, NotBegun
  <1>1. CASE UNCHANGED wfVars
    BY <1>1 DEF wfVars, workflow
  <1>2. ASSUME NEW j \in Job, NextVersion(j)
        PROVE  NotBegun'
    BY <1>2 DEF NextVersion, Waiting
  <1>3. ASSUME NEW j \in Job, ReleaseStep(j)
        PROVE  NotBegun'
    BY <1>3 DEF ReleaseStep
  <1>4. ASSUME NEW j \in Job, Kill(j)
        PROVE  NotBegun'
    BY <1>4 DEF Kill, Waiting
  <1>5. ASSUME NEW j \in Job, EnterGroup(j) \/ CancelWaiting(j)
        PROVE  NotBegun'
    BY <1>5 DEF EnterGroup, CancelWaiting, Waiting
  <1>6. ASSUME NEW j \in Job, ListUpstream(j) \/ ListPublished(j)
        PROVE  NotBegun'
    BY <1>6 DEF ListUpstream, ListPublished, SetList, Waiting
  <1>7. ASSUME NEW j \in Job,
               \/ StartReleaseOne(j) \/ StartReleaseAll(j) \/ PushFiles(j)
               \/ PushFilesUndetected(j)
        PROVE  NotBegun'
    BY <1>7 DEF StartReleaseOne, StartReleaseAll, PushFiles,
                PushFilesUndetected, Waiting
  <1>8. ASSUME NEW j \in Job,
               \/ StartRebuild(j) \/ ListUpstreamFails(j)
               \/ ListPublishedEmpty(j) \/ Finish(j)
        PROVE  NotBegun'
    BY <1>8 DEF StartRebuild, ListUpstreamFails, ListPublishedEmpty, Finish,
                Waiting
  <1> QED
    BY <1>1, <1>2, <1>3, <1>4, <1>5, <1>6, <1>7, <1>8 DEF WFNext

\* It moves that release only, and only while it is alive.
LEMMA RunStepMovesOne ==
    ASSUME Inv, NEW r \in Run, RunStep(r)
    PROVE  /\ pc[r] \in Live
           /\ \E step : pc' = [pc EXCEPT ![r] = step]
  <1>1. CASE CheckTag(r) \/ BuildArch(r) \/ PushVariant(r)
    BY <1>1 DEF CheckTag, BuildArch, PushVariant, Live
  <1>2. CASE PushIndexTag(r) \/ PushOnly(r) \/ Fail(r)
    BY <1>2 DEF PushIndexTag, PushOnly, Fail, Live
  <1>3. CASE PushVariantUnanswered(r) \/ PushIndexTagUnanswered(r)
    <2>1. pc = [pc EXCEPT ![r] = pc[r]]
      BY DEF Inv, TypeOK
    <2> QED
      BY <1>3, <2>1 DEF PushVariantUnanswered, PushIndexTagUnanswered, Live
  <1> QED
    BY <1>1, <1>2, <1>3 DEF RunStep

\* A job begins its releases one after the other.
LEMMA JobRunsStep ==
    ASSUME WFInv, [WFNext]_wfVars
    PROVE  JobRuns'
  <1> USE DEF WFInv, WFTypeOK
  <1>1. CASE UNCHANGED wfVars
    BY <1>1 DEF wfVars, workflow, vars, JobRuns
  <1>2. ASSUME NEW j \in Job, JobStep(j)
        PROVE  JobRuns'
    BY <1>2, JobStepKeepsVars DEF vars, JobRuns
  <1>3. \A j, k \in Job : \A n, m \in 1 .. MaxListed :
            << j, n >> = << k, m >> <=> j = k /\ n = m
    OBVIOUS
  <1>4. ASSUME NEW j \in Job, NextVersion(j)
        PROVE  JobRuns'
    <2>1. begun' = [begun EXCEPT ![j] = begun[j] + 1]
      BY <1>4 DEF NextVersion
    <2>2. PICK step : pc' = [pc EXCEPT ![<< j, begun[j] + 1 >>] = step]
      BY <1>4 DEF NextVersion, Begin
    <2>3. \A n \in 1 .. MaxListed : pc[<< j, n >>] \notin Live
      BY <1>4 DEF NextVersion, Busy
    <2>4. pc \in [Run -> {"idle"} \cup Live \cup Ended]
      BY DEF Inv, TypeOK
    <2> SUFFICES ASSUME NEW k \in Job, NEW n \in 1 .. MaxListed
                 PROVE  /\ n > begun'[k] => pc'[<< k, n >>] = "idle"
                        /\ n < begun'[k] => pc'[<< k, n >>] \notin Live
      BY DEF JobRuns
    <2>5. << k, n >> \in Run /\ n \in Int /\ begun[k] \in Int
      BY RunOfJob, JobAssumption
    <2>6. CASE k # j
      BY <2>1, <2>2, <2>4, <2>5, <2>6 DEF JobRuns
    <2>7. CASE k = j
      <3>1. begun'[k] = begun[k] + 1
        BY <2>1, <2>7
      <3>2. n # begun[j] + 1 => pc'[<< k, n >>] = pc[<< k, n >>]
        BY <2>2, <2>4, <2>5
      <3> QED
        BY <2>3, <2>5, <2>7, <3>1, <3>2 DEF JobRuns
    <2> QED
      BY <2>6, <2>7
  <1>5. ASSUME NEW j \in Job, ReleaseStep(j)
        PROVE  JobRuns'
    <2>1. UNCHANGED begun
      BY <1>5 DEF ReleaseStep
    <2>2. PICK m \in 1 .. MaxListed :
              /\ pc[<< j, m >>] \in Live
              /\ \E step : pc' = [pc EXCEPT ![<< j, m >>] = step]
      <3>1. PICK m \in 1 .. MaxListed : RunStep(<< j, m >>)
        BY <1>5 DEF ReleaseStep, RunStep
      <3>2. << j, m >> \in Run
        BY RunOfJob
      <3>3. /\ pc[<< j, m >>] \in Live
            /\ \E step : pc' = [pc EXCEPT ![<< j, m >>] = step]
        BY <3>1, <3>2, RunStepMovesOne DEF WFInv
      <3> QED
        BY <3>3
    <2>3. PICK step : pc' = [pc EXCEPT ![<< j, m >>] = step]
      BY <2>2
    <2>4. pc \in [Run -> {"idle"} \cup Live \cup Ended]
      BY DEF Inv, TypeOK
    <2>5. m = begun[j]
      <3>1. m \in Int /\ begun[j] \in Int /\ "idle" \notin Live
        BY JobAssumption DEF Live
      <3> QED
        BY <2>2, <3>1 DEF JobRuns
    <2> SUFFICES ASSUME NEW k \in Job, NEW n \in 1 .. MaxListed
                 PROVE  /\ n > begun[k] => pc'[<< k, n >>] = "idle"
                        /\ n < begun[k] => pc'[<< k, n >>] \notin Live
      BY <2>1 DEF JobRuns
    <2>6. << k, n >> \in Run /\ n \in Int /\ begun[k] \in Int
      BY RunOfJob, JobAssumption
    <2>7. CASE k = j /\ n = m
      BY <2>5, <2>6, <2>7
    <2>8. CASE ~ (k = j /\ n = m)
      <3>1. pc'[<< k, n >>] = pc[<< k, n >>]
        BY <1>3, <2>3, <2>4, <2>6, <2>8
      <3> QED
        BY <3>1 DEF JobRuns
    <2> QED
      BY <2>7, <2>8
  <1>6. ASSUME NEW j \in Job, Kill(j)
        PROVE  JobRuns'
    <2>1. /\ UNCHANGED begun
          /\ pc' = [r \in Run |-> IF r[1] = j /\ pc[r] \in Live THEN "failed"
                                  ELSE pc[r]]
      BY <1>6 DEF Kill, StopRuns
    <2>2. "idle" \notin Live /\ "failed" \notin Live
      BY DEF Live
    <2>3. \A r \in Run : \/ pc'[r] = pc[r]
                         \/ pc[r] \in Live /\ pc'[r] = "failed"
      BY <2>1
    <2> SUFFICES ASSUME NEW k \in Job, NEW n \in 1 .. MaxListed
                 PROVE  /\ n > begun[k] => pc'[<< k, n >>] = "idle"
                        /\ n < begun[k] => pc'[<< k, n >>] \notin Live
      BY <2>1 DEF JobRuns
    <2>4. << k, n >> \in Run
      BY RunOfJob
    <2>5. /\ n > begun[k] => pc[<< k, n >>] = "idle"
          /\ n < begun[k] => pc[<< k, n >>] \notin Live
      BY DEF JobRuns
    <2>6. CASE pc'[<< k, n >>] = pc[<< k, n >>]
      BY <2>5, <2>6
    <2>7. CASE pc[<< k, n >>] \in Live /\ pc'[<< k, n >>] = "failed"
      BY <2>2, <2>5, <2>7
    <2> QED
      BY <2>3, <2>4, <2>6, <2>7
  <1> QED
    BY <1>1, <1>2, <1>4, <1>5, <1>6 DEF WFNext, JobStep

\* Every step of every job keeps the invariant.
LEMMA WFInvNext == WFInv /\ [WFNext]_wfVars => WFInv'
  <1> SUFFICES ASSUME WFInv, [WFNext]_wfVars PROVE WFInv'
    OBVIOUS
  <1>1. Inv'
    BY StepIsReleaseStep, InvNext DEF WFInv
  <1> QED
    BY <1>1, WFTypeStep, NotBegunStep, JobRunsStep DEF WFInv

\* The types, for every set of jobs.
THEOREM WorkflowsTypeOK == WFSpec => []WFTypeOK
  <1>1. WFInv => WFTypeOK
    BY DEF WFInv
  <1> QED
    BY <1>1, WFInvInit, WFInvNext, PTL DEF WFSpec

\* The workflows use the repository as runs of Release do.
THEOREM WorkflowsImplementRelease == WFSpec => RunsAreReleases
  <1>1. WFInit => Init
    BY DEF WFInit
  <1> QED
    BY <1>1, WFInvInit, WFInvNext, StepIsReleaseStep, PTL
    DEF WFSpec, RunsAreReleases, Spec

\* So an index the workflows leave under a tag can be pulled whole, and the
\* version of what an alias resolves to can be pulled by its own tag.
COROLLARY WorkflowsTagsResolve == WFSpec => []TagsResolve
  BY WorkflowsImplementRelease, ReleaseTagsResolve, PTL DEF RunsAreReleases

\* Whatever the jobs do, the version behind a minor alias can be pulled.
COROLLARY WorkflowsAliasFollowsVersion == WFSpec => []AliasFollowsVersion
  BY WorkflowsImplementRelease, ReleaseAliasFollowsVersion, PTL
  DEF RunsAreReleases
-----------------------------------------------------------------------------
(* A step of one run *)

\* Where a run can be after a step.
LEMMA RunStepEnds ==
    ASSUME Inv, NEW r \in Run, RunStep(r), pc[r] # "pushOnly"
    PROVE  \/ pc'[r] \in {"build", "push", "index", "failed"}
           \/ /\ pc[r] = "check" /\ pc'[r] = "skipped"
              /\ tags'[args[r].version] # Absent
           \/ pc[r] = "index" /\ pc'[r] = "released"
  <1> USE DEF Inv, TypeOK
  <1>1. \A n : NextArch(args[r], n) \in {"build", "push", "index"}
    BY DEF NextArch
  <1>2. CASE CheckTag(r)
    <2>1. PICK err \in Resolve(args[r].version) :
              pc' = [pc EXCEPT ![r] =
                        IF err = "none" THEN "skipped"
                        ELSE IF isNotFound(err) THEN NextArch(args[r], 0)
                        ELSE "failed"]
      BY <1>2 DEF CheckTag
    <2>2. err = "none" => tags[args[r].version] # Absent
      BY <2>1, TransportErrorsAssumption DEF Resolve
    <2>3. pc[r] = "check" /\ tags' = tags
      BY <1>2 DEF CheckTag
    <2> QED
      BY <1>1, <2>1, <2>2, <2>3
  <1>3. CASE BuildArch(r) \/ Fail(r)
    BY <1>3 DEF BuildArch, Fail
  <1>4. CASE PushVariant(r) \/ PushVariantUnanswered(r)
    BY <1>1, <1>4 DEF PushVariant, PushVariantUnanswered
  <1>5. CASE PushIndexTag(r) \/ PushIndexTagUnanswered(r)
    BY <1>5 DEF PushIndexTag, PushIndexTagUnanswered
  <1> QED
    BY <1>2, <1>3, <1>4, <1>5 DEF RunStep, PushOnly

\* The index of the release of a run.
IndexOf(r) == IndexManifest(ReleaseImages(args[r].version, args[r].arches, r))

\* Every image it lists was packed by the run.
LEMMA IndexOfIsByRun ==
    ASSUME Inv, NEW r \in Run
    PROVE  \A i \in 1 .. Len(IndexOf(r).manifests) :
               IndexOf(r).manifests[i].by = r
  <1>1. args[r].version \in Version /\ args[r].arches \in ArchList
    BY ArgsType DEF Inv, TypeOK
  <1>2. IndexOf(r).manifests
            = ReleaseImages(args[r].version, args[r].arches, r)
    BY DEF IndexOf, IndexManifest
  <1>3. \A a : ImageManifest(args[r].version, a, r).by = r
    BY DEF ImageManifest
  <1>4. /\ Len(IndexOf(r).manifests) = Len(args[r].arches)
        /\ \A i \in 1 .. Len(args[r].arches) :
               IndexOf(r).manifests[i]
                   = ImageManifest(args[r].version, args[r].arches[i], r)
    BY <1>1, <1>2, IndexType
  <1> QED
    BY <1>3, <1>4

\* A run that is past the version's tag has just put its index there; a run
\* that is released has just put it under the alias.
LEMMA IndexStepTags ==
    ASSUME Inv, NEW r \in Run, RunStep(r)
    PROVE  /\ pc'[r] = "released" =>
                  /\ pc[r] = "index" /\ pushed[r] = 1
                  /\ tags[args[r].version] # Absent
                  /\ tags'[k8sMajorMinor(args[r].version)] = IndexOf(r)
           /\ pc'[r] = "index" /\ pushed'[r] = 1 =>
                  \/ pc[r] = "index" /\ pushed[r] = 1
                  \/ tags'[args[r].version] = IndexOf(r)
  <1> USE DEF Inv, TypeOK
  <1>1. \A n : NextArch(args[r], n) # "released"
    BY DEF NextArch
  <1>2. CASE CheckTag(r) \/ BuildArch(r) \/ Fail(r)
    BY <1>1, <1>2 DEF CheckTag, BuildArch, Fail, run, LoopState
  <1>3. CASE PushVariant(r)
    BY <1>1, <1>3 DEF PushVariant, LoopState
  <1>4. CASE PushVariantUnanswered(r) \/ PushOnly(r)
    BY <1>4 DEF PushVariantUnanswered, PushOnly, run
  <1>5. CASE PushIndexTagUnanswered(r)
    BY <1>5 DEF PushIndexTagUnanswered, run
  <1>6. CASE PushIndexTag(r)
    <2>1. /\ PutIndex(r) /\ pc[r] = "index"
          /\ pushed' = [pushed EXCEPT ![r] = pushed[r] + 1]
          /\ pc' = [pc EXCEPT ![r] = IF MoreIndexTags(r) THEN "index"
                                     ELSE "released"]
      BY <1>6 DEF PushIndexTag
    <2>2. Len(IndexTags(args[r].version)) = 2
      BY ArgsType, IndexTagsFacts
    <2>3. pushed[r] \in {0, 1} /\ (MoreIndexTags(r) <=> pushed[r] = 0)
      BY <2>1, <2>2 DEF LoopState, MoreIndexTags
    <2>4. \/ pushed[r] = 0 /\ tags'[args[r].version] = IndexOf(r)
          \/ /\ pushed[r] = 1 /\ tags[args[r].version] # Absent
             /\ tags'[k8sMajorMinor(args[r].version)] = IndexOf(r)
      <3> DEFINE t == IndexTags(args[r].version)[pushed[r] + 1]
      <3>1. /\ Put(IndexOf(r), t) /\ t \in TagName
            /\ IndexOf(r) \in Image \cup Index
            /\ \/ pushed[r] = 0 /\ t = args[r].version
               \/ /\ pushed[r] = 1 /\ t = k8sMajorMinor(args[r].version)
                  /\ tags[args[r].version] # Absent
        BY <2>1, PutIndexPuts DEF IndexOf
      <3> HIDE DEF t
      <3>2. tags'[t] = IndexOf(r)
        BY <3>1, PutMonotonic
      <3> QED
        BY <3>1, <3>2
    <2> QED
      BY <2>1, <2>3, <2>4
  <1> QED
    BY <1>2, <1>3, <1>4, <1>5, <1>6 DEF RunStep

-----------------------------------------------------------------------------
(* The invariant *)

\* A run that ends well leaves its version published.
Published ==
    \A r \in Run :
        pc[r] \in {"skipped", "released"} => tags[args[r].version] # Absent

\* The runs of a job are releases of the versions of its list, in order.
ListedRuns ==
    \A j \in Job : \A n \in 1 .. begun[j] :
        /\ args[<< j, n >>].version = listed[j][n]
        /\ pc[<< j, n >>] \notin {"idle", "pushOnly", "pushed"}

\* Those of a rebuild never skip.
RebuildsPush ==
    \A j \in Rebuilds : \A n \in 1 .. begun[j] :
        pc[<< j, n >>] \notin {"check", "skipped"}

\* A run lives while its job is in its loop.
LiveAtWork ==
    \A j \in Job : \A n \in 1 .. MaxListed :
        pc[<< j, n >>] \in Live => phase[j] = "releasing"

\* A job that is done has been through its list.
DoneBegun == \A j \in Job : phase[j] = "done" => begun[j] = Len(listed[j])

\* A job whose success can still be told, or has been.
Counts(j) == phase[j] \in AtWork \cup {"done"}

\* A job at work knows who else exists; who has come after a job that is done
\* has checked out files as new.
Overlaps ==
    \A j, k \in Job :
        Counts(j) /\ phase[k] \in Waiting \cup AtWork =>
            \/ k \in overlap[j]
            \/ phase[j] = "done" /\ files[j] <= files[k]

\* All images of an index are as new as a job's, or of a job it knows.
Covered(j, m) ==
    m.kind = "index" => \A i \in 1 .. Len(m.manifests) :
        \/ m.manifests[i].by[1] \in overlap[j]
        \/ files[j] <= FilesOf(m.manifests[i])

\* A rebuild has pushed an index of its own, or it was replaced since.
Refreshed ==
    \A j \in Rebuilds : \A n \in 1 .. begun[j] :
        /\ Counts(j)
        /\ \/ pc[<< j, n >>] = "released"
           \/ pc[<< j, n >>] = "index" /\ pushed[<< j, n >>] = 1
        => Covered(j, tags[listed[j][n]])

LoopInv ==
    Published /\ ListedRuns /\ RebuildsPush /\ LiveAtWork /\ DoneBegun
JobsInv == WFInv /\ LoopInv /\ Overlaps /\ Refreshed /\ AliasIsLastReleased

-----------------------------------------------------------------------------
(* The four kinds of step *)

\* The n-th release a job has begun is a run.
LEMMA BegunRun ==
    ASSUME WFInv, NEW j \in Job, NEW n \in 1 .. begun[j]
    PROVE  /\ n \in 1 .. MaxListed
           /\ << j, n >> \in Run
           /\ n \in 1 .. Len(listed[j])
           /\ listed[j][n] \in Version
           /\ phase[j] \in {"releasing"} \cup Over
  <1>1. /\ begun[j] \in Nat /\ Len(listed[j]) \in Nat
        /\ begun[j] <= Len(listed[j]) /\ Len(listed[j]) <= MaxListed
        /\ listed[j] \in Seq(Version)
        /\ phase[j] \in {"idle"} \cup Waiting \cup AtWork \cup Over
    BY DEF WFInv, WFTypeOK
  <1>2. n \in 1 .. MaxListed /\ n \in 1 .. Len(listed[j])
    BY <1>1, JobAssumption
  <1>3. phase[j] \notin {"idle", "listing"} \cup Waiting
    BY <1>1 DEF WFInv, NotBegun
  <1> QED
    BY <1>1, <1>2, <1>3, RunOfJob, ElementOfSeq DEF AtWork

\* A job that changes phase leaves what has begun as it is, and is done only
\* when its loop is over and waits for no release.
LEMMA JobStepFacts ==
    ASSUME WFInv, NEW j \in Job, JobStep(j)
    PROVE  /\ \A k \in Job : 0 < begun[k] => /\ listed'[k] = listed[k]
                                             /\ files'[k] = files[k]
           /\ \A k \in Job : phase[k] = "releasing" /\ phase'[k] # "releasing"
                                 => ~ Busy(k)
           /\ \A k \in Job : phase'[k] = "done" =>
                  \/ phase[k] = "done" /\ listed'[k] = listed[k]
                  \/ /\ phase[k] = "releasing" /\ begun[k] = Len(listed[k])
                     /\ listed'[k] = listed[k]
  <1> USE DEF WFInv, WFTypeOK, NotBegun
  <1>1. CASE StartReleaseOne(j)
    BY <1>1 DEF StartReleaseOne
  <1>2. CASE StartReleaseAll(j)
    BY <1>2 DEF StartReleaseAll
  <1>3. CASE PushFiles(j)
    BY <1>3 DEF PushFiles
  <1>4. CASE PushFilesUndetected(j)
    BY <1>4 DEF PushFilesUndetected
  <1>5. CASE EnterGroup(j)
    BY <1>5 DEF EnterGroup
  <1>6. CASE CancelWaiting(j) \/ StartRebuild(j)
    BY <1>6 DEF CancelWaiting, StartRebuild, Waiting
  <1>7. CASE ListUpstream(j) \/ ListPublished(j)
    BY <1>7 DEF ListUpstream, ListPublished, SetList
  <1>8. CASE ListUpstreamFails(j) \/ ListPublishedEmpty(j)
    BY <1>8 DEF ListUpstreamFails, ListPublishedEmpty
  <1>9. CASE Finish(j)
    BY <1>9 DEF Finish, LoopIsOver
  <1> QED
    BY <1>1, <1>2, <1>3, <1>4, <1>5, <1>6, <1>7, <1>8, <1>9 DEF JobStep

\* A job's next release is that of the next version of its list.
LEMMA NextVersionFacts ==
    ASSUME WFInv, NEW j \in Job, NextVersion(j)
    PROVE  LET n == begun[j] + 1
               x == ReleaseArgs(j, listed[j][n])
           IN  /\ n \in 1 .. MaxListed /\ << j, n >> \in Run
               /\ phase[j] = "releasing"
               /\ listed[j][n] \in Version
               /\ begun' = [begun EXCEPT ![j] = n]
               /\ pc[<< j, n >>] = "idle" /\ pushed[<< j, n >>] = 0
               /\ args' = [args EXCEPT ![<< j, n >>] = x]
               /\ pc' = [pc EXCEPT ![<< j, n >>] = FirstStep(x)]
               /\ FirstStep(x) \in {"check", "build", "push", "index"}
               /\ j \in Rebuilds => FirstStep(x) # "check"
               /\ UNCHANGED << store, tags, descs, pushed >>
               /\ UNCHANGED << head, phase, files, listed, overlap >>
  <1> DEFINE n == begun[j] + 1
             x == ReleaseArgs(j, listed[j][n])
  <1>1. /\ begun[j] \in Nat /\ Len(listed[j]) <= MaxListed
        /\ listed[j] \in Seq(Version) /\ n <= Len(listed[j])
    BY DEF NextVersion, WFInv, WFTypeOK
  <1>2. n \in 1 .. MaxListed /\ n \in 1 .. Len(listed[j])
    BY <1>1, JobAssumption
  <1>3. /\ listed[j][n] \in Version /\ << j, n >> \in Run
    BY <1>1, <1>2, ElementOfSeq, RunOfJob
  <1>4. Begin(<< j, n >>, x, FirstStep(x))
    BY DEF NextVersion
  <1>5. /\ FirstStep(x) \in {"check", "build", "push", "index"}
        /\ j \in Rebuilds => FirstStep(x) # "check"
    BY DEF FirstStep, NextArch, ReleaseArgs
  <1>6. pushed[<< j, n >>] = 0
    BY <1>3, <1>4 DEF Begin, WFInv, Inv, LoopState
  <1> QED
    BY <1>2, <1>3, <1>4, <1>5, <1>6 DEF NextVersion, Begin

\* The release that moves is the last its job has begun.
LEMMA ReleaseStepFacts ==
    ASSUME WFInv, NEW j \in Job, ReleaseStep(j)
    PROVE  /\ begun[j] \in 1 .. MaxListed
           /\ << j, begun[j] >> \in Run
           /\ pc[<< j, begun[j] >>] \in Live
           /\ RunStep(<< j, begun[j] >>)
           /\ UNCHANGED << head, phase, files, listed, begun, overlap >>
  <1>1. PICK n \in 1 .. MaxListed : RunStep(<< j, n >>)
    BY DEF ReleaseStep, RunStep
  <1>2. << j, n >> \in Run
    BY RunOfJob
  <1>3. pc[<< j, n >>] \in Live
    BY <1>1, <1>2, RunStepIsLocal DEF WFInv
  <1>4. n \in Int /\ begun[j] \in Int /\ "idle" \notin Live
    BY JobAssumption DEF WFInv, WFTypeOK, Live
  <1>5. n = begun[j]
    BY <1>3, <1>4 DEF WFInv, JobRuns
  <1> QED
    BY <1>1, <1>2, <1>3, <1>5 DEF ReleaseStep

\* What is killed has failed.
LEMMA KillFacts ==
    ASSUME WFInv, NEW j \in Job, Kill(j)
    PROVE  /\ \A r \in Run : \/ pc'[r] = pc[r]
                             \/ pc'[r] = "failed" /\ pc[r] \in Live
           /\ \A n \in 1 .. MaxListed : pc'[<< j, n >>] \notin Live
           /\ phase' = [phase EXCEPT ![j] = "failed"]
           /\ phase[j] \in AtWork
           /\ RecordOverlap
           /\ UNCHANGED << store, tags, args, descs, pushed >>
           /\ UNCHANGED << head, files, listed, begun >>
  <1>1. \A n \in 1 .. MaxListed : << j, n >> \in Run
    BY RunOfJob
  <1> QED
    BY <1>1 DEF Kill, StopRuns, run, Live

-----------------------------------------------------------------------------
(* Every step keeps the parts of the invariant                              *)

\* Who has ended well stays so, and its version published.
LEMMA PublishedStep ==
    ASSUME WFInv, LoopInv, [WFNext]_wfVars
    PROVE  Published'
  <1> USE DEF LoopInv, Published
  <1>1. \A r \in Run : /\ args[r].version \in TagName
                       /\ tags[args[r].version] # Absent
                              => tags'[args[r].version] # Absent
    <2>1. \A r \in Run : args[r].version \in TagName
      BY ArgsType DEF WFInv, Inv, TypeOK, TagName
    <2>2. RepoTypeOK /\ [RepoNext]_repository
      BY StepIsReleaseStep, StepIsContractStep DEF WFInv, Inv, TypeOK
    <2> QED
      BY <2>1, <2>2, TagsStay
  <1>2. CASE UNCHANGED vars
    BY <1>2 DEF vars, run
  <1>3. ASSUME NEW j \in Job, NextVersion(j)
        PROVE  Published'
    <2> DEFINE q == << j, begun[j] + 1 >>
               x == ReleaseArgs(j, listed[j][begun[j] + 1])
               step == FirstStep(x)
    <2>1. /\ q \in Run /\ UNCHANGED tags
          /\ args' = [args EXCEPT ![q] = x] /\ pc' = [pc EXCEPT ![q] = step]
          /\ step \notin {"skipped", "released"}
      BY <1>3, NextVersionFacts
    <2> HIDE DEF q, x, step
    <2>2. /\ pc'[q] = step
          /\ \A r \in Run \ {q} : pc'[r] = pc[r] /\ args'[r] = args[r]
      BY <2>1 DEF WFInv, Inv, TypeOK
    <2> QED
      BY <2>1, <2>2
  <1>4. ASSUME NEW j \in Job, ReleaseStep(j)
        PROVE  Published'
    <2> DEFINE q == << j, begun[j] >>
    <2>1. q \in Run /\ RunStep(q) /\ pc[q] \in Live
      BY <1>4, ReleaseStepFacts
    <2>2. /\ args' = args
          /\ \A r \in Run \ {q} : pc'[r] = pc[r]
      BY <2>1, RunStepIsLocal DEF WFInv
    <2>3. pc[q] # "pushOnly"
      BY <1>4, ReleaseStepFacts DEF WFInv, WFTypeOK, ListedRuns
    <2>4. pc'[q] \in {"skipped", "released"}
              => tags'[args[q].version] # Absent
      BY <1>1, <2>1, <2>3, RunStepEnds, IndexStepTags DEF WFInv
    <2> QED
      BY <1>1, <2>1, <2>2, <2>4
  <1>5. ASSUME NEW j \in Job, Kill(j)
        PROVE  Published'
    BY <1>5, KillFacts
  <1> QED
    BY <1>2, <1>3, <1>4, <1>5, JobStepKeepsVars
    DEF WFNext, JobStep, wfVars

\* A release keeps its place in its job's list.
LEMMA ListedRunsStep ==
    ASSUME WFInv, LoopInv, [WFNext]_wfVars
    PROVE  ListedRuns'
  <1> USE DEF LoopInv, ListedRuns
  <1>1. CASE UNCHANGED wfVars
    BY <1>1 DEF wfVars, vars, run, workflow
  <1>2. ASSUME NEW j \in Job, JobStep(j)
        PROVE  ListedRuns'
    <2>1. \A k \in Job : 0 < begun[k] => listed'[k] = listed[k]
      BY <1>2, JobStepFacts
    <2>2. UNCHANGED << pc, args, begun >>
      BY <1>2, JobStepKeepsVars DEF vars, run
    <2> SUFFICES ASSUME NEW k \in Job, NEW m \in 1 .. begun'[k]
                 PROVE  /\ args'[<< k, m >>].version = listed'[k][m]
                        /\ pc'[<< k, m >>] \notin {"idle", "pushOnly", "pushed"}
      OBVIOUS
    <2>3. begun[k] \in Nat /\ m \in 1 .. begun[k] /\ 0 < begun[k]
      BY <2>2 DEF WFInv, WFTypeOK
    <2> QED
      BY <2>1, <2>2, <2>3
  <1>3. ASSUME NEW j \in Job, NextVersion(j)
        PROVE  ListedRuns'
    <2> DEFINE n == begun[j] + 1
               x == ReleaseArgs(j, listed[j][n])
    <2>1. /\ << j, n >> \in Run
          /\ begun' = [begun EXCEPT ![j] = n] /\ UNCHANGED listed
          /\ args' = [args EXCEPT ![<< j, n >>] = x]
          /\ pc' = [pc EXCEPT ![<< j, n >>] = FirstStep(x)]
          /\ FirstStep(x) \in {"check", "build", "push", "index"}
      BY <1>3, NextVersionFacts
    <2>2. x.version = listed[j][n]
      BY DEF ReleaseArgs
    <2> HIDE DEF x
    <2> SUFFICES ASSUME NEW k \in Job, NEW m \in 1 .. begun'[k]
                 PROVE  /\ args'[<< k, m >>].version = listed'[k][m]
                        /\ pc'[<< k, m >>] \notin {"idle", "pushOnly", "pushed"}
      OBVIOUS
    <2>3. begun \in [Job -> Nat]
      BY DEF WFInv, WFTypeOK
    <2>4. CASE k = j /\ m = n
      BY <2>1, <2>2, <2>4 DEF WFInv, Inv, TypeOK
    <2>5. CASE ~ (k = j /\ m = n)
      <3>1. m \in 1 .. begun[k]
        BY <2>1, <2>3, <2>5
      <3>2. << k, m >> # << j, n >> /\ << k, m >> \in Run
        BY <2>5, <3>1, BegunRun
      <3>3. args'[<< k, m >>] = args[<< k, m >>] /\ pc'[<< k, m >>] = pc[<< k, m >>]
        BY <2>1, <3>2 DEF WFInv, Inv, TypeOK
      <3>4. listed' = listed
        BY <2>1
      <3> QED
        BY <3>1, <3>3, <3>4
    <2> QED
      BY <2>4, <2>5
  <1>4. ASSUME NEW j \in Job, ReleaseStep(j)
        PROVE  ListedRuns'
    <2> DEFINE q == << j, begun[j] >>
    <2>1. /\ q \in Run /\ RunStep(q)
          /\ begun[j] \in 1 .. begun[j]
          /\ UNCHANGED << listed, begun >>
      BY <1>4, ReleaseStepFacts DEF WFInv, WFTypeOK
    <2>2. args' = args /\ \A r \in Run \ {q} : pc'[r] = pc[r]
      BY <2>1, RunStepIsLocal DEF WFInv
    <2>3. pc'[q] \notin {"idle", "pushOnly", "pushed"}
      BY <2>1, RunStepEnds DEF WFInv
    <2> QED
      BY <2>1, <2>2, <2>3, BegunRun
  <1>5. ASSUME NEW j \in Job, Kill(j)
        PROVE  ListedRuns'
    <2> SUFFICES ASSUME NEW k \in Job, NEW m \in 1 .. begun'[k]
                 PROVE  /\ args'[<< k, m >>].version = listed'[k][m]
                        /\ pc'[<< k, m >>] \notin {"idle", "pushOnly", "pushed"}
      OBVIOUS
    <2>1. UNCHANGED << args, listed, begun >>
      BY <1>5, KillFacts
    <2>2. m \in 1 .. begun[k] /\ << k, m >> \in Run
      BY <2>1, BegunRun
    <2>3. pc'[<< k, m >>] \in {pc[<< k, m >>], "failed"}
      BY <1>5, <2>2, KillFacts
    <2> QED
      BY <2>1, <2>2, <2>3
  <1> QED
    BY <1>1, <1>2, <1>3, <1>4, <1>5 DEF WFNext, JobStep

\* A rebuild passes no --skip-existing.
LEMMA RebuildsPushStep ==
    ASSUME WFInv, LoopInv, [WFNext]_wfVars
    PROVE  RebuildsPush'
  <1> USE DEF LoopInv, RebuildsPush
  <1>1. CASE UNCHANGED wfVars
    BY <1>1 DEF wfVars, vars, run, workflow
  <1>2. ASSUME NEW j \in Job, JobStep(j)
        PROVE  RebuildsPush'
    BY <1>2, JobStepKeepsVars DEF vars
  <1>3. ASSUME NEW j \in Job, NextVersion(j)
        PROVE  RebuildsPush'
    <2> DEFINE n == begun[j] + 1
               step == FirstStep(ReleaseArgs(j, listed[j][n]))
    <2>1. /\ << j, n >> \in Run
          /\ begun' = [begun EXCEPT ![j] = n]
          /\ pc' = [pc EXCEPT ![<< j, n >>] = step]
          /\ j \in Rebuilds => step \notin {"check", "skipped"}
      BY <1>3, NextVersionFacts
    <2> HIDE DEF step
    <2>2. begun \in [Job -> Nat] /\ Rebuilds \subseteq Job
      BY DEF WFInv, WFTypeOK, Rebuilds
    <2> SUFFICES ASSUME NEW k \in Rebuilds, NEW m \in 1 .. begun'[k]
                 PROVE  pc'[<< k, m >>] \notin {"check", "skipped"}
      OBVIOUS
    <2>3. CASE k = j /\ m = n
      BY <2>1, <2>3 DEF WFInv, Inv, TypeOK
    <2>4. CASE ~ (k = j /\ m = n)
      <3>1. k \in Job /\ m \in 1 .. begun[k]
        BY <2>1, <2>2, <2>4
      <3>2. << k, m >> # << j, n >> /\ << k, m >> \in Run
        BY <2>4, <3>1, BegunRun
      <3>3. pc'[<< k, m >>] = pc[<< k, m >>]
        BY <2>1, <3>2 DEF WFInv, Inv, TypeOK
      <3> QED
        BY <3>1, <3>3
    <2> QED
      BY <2>3, <2>4
  <1>4. ASSUME NEW j \in Job, ReleaseStep(j)
        PROVE  RebuildsPush'
    <2> DEFINE q == << j, begun[j] >>
    <2>1. /\ q \in Run /\ RunStep(q)
          /\ begun[j] \in 1 .. begun[j] /\ UNCHANGED begun
      BY <1>4, ReleaseStepFacts DEF WFInv, WFTypeOK
    <2>2. \A r \in Run \ {q} : pc'[r] = pc[r]
      BY <2>1, RunStepIsLocal DEF WFInv
    <2>3. j \in Rebuilds => pc'[q] \notin {"check", "skipped"}
      BY <2>1, RunStepEnds DEF WFInv, ListedRuns
    <2>4. Rebuilds \subseteq Job
      BY DEF Rebuilds
    <2> QED
      BY <2>1, <2>2, <2>3, <2>4, BegunRun
  <1>5. ASSUME NEW j \in Job, Kill(j)
        PROVE  RebuildsPush'
    <2>1. Rebuilds \subseteq Job
      BY DEF Rebuilds
    <2> QED
      BY <1>5, <2>1, BegunRun, KillFacts
  <1> QED
    BY <1>1, <1>2, <1>3, <1>4, <1>5 DEF WFNext, JobStep

\* A job does not leave its loop while a release is alive, unless it is killed.
LEMMA LiveAtWorkStep ==
    ASSUME WFInv, LoopInv, [WFNext]_wfVars
    PROVE  LiveAtWork'
  <1> USE DEF LoopInv, LiveAtWork, Live
  <1>1. CASE UNCHANGED wfVars
    BY <1>1 DEF wfVars, vars, workflow
  <1>2. ASSUME NEW j \in Job, JobStep(j)
        PROVE  LiveAtWork'
    BY <1>2, JobStepFacts, JobStepKeepsVars DEF vars, Busy
  <1>3. ASSUME NEW j \in Job, NextVersion(j)
        PROVE  LiveAtWork'
    <2>1. /\ << j, begun[j] + 1 >> \in Run
          /\ phase[j] = "releasing" /\ UNCHANGED phase
          /\ \A r \in Run \ {<< j, begun[j] + 1 >>} : pc'[r] = pc[r]
      BY <1>3, NextVersionFacts DEF WFInv, Inv, TypeOK
    <2> QED
      BY <2>1, RunOfJob
  <1>4. ASSUME NEW j \in Job, ReleaseStep(j)
        PROVE  LiveAtWork'
    <2> DEFINE q == << j, begun[j] >>
    <2>1. /\ q \in Run /\ RunStep(q) /\ pc[q] \in Live
          /\ begun[j] \in 1 .. MaxListed
          /\ UNCHANGED phase
      BY <1>4, ReleaseStepFacts
    <2>2. \A r \in Run \ {q} : pc'[r] = pc[r]
      BY <2>1, RunStepIsLocal DEF WFInv
    <2> QED
      BY <2>1, <2>2, RunOfJob
  <1>5. ASSUME NEW j \in Job, Kill(j)
        PROVE  LiveAtWork'
    <2>1. "failed" \notin Live
      BY DEF Live
    <2> QED
      BY <1>5, <2>1, RunOfJob, KillFacts DEF WFInv, WFTypeOK
  <1> QED
    BY <1>1, <1>2, <1>3, <1>4, <1>5 DEF WFNext, JobStep

\* A job is done at the end of its list, and begins nothing any more.
LEMMA DoneBegunStep ==
    ASSUME WFInv, LoopInv, [WFNext]_wfVars
    PROVE  DoneBegun'
  <1> USE DEF LoopInv, DoneBegun
  <1>1. CASE UNCHANGED wfVars
    BY <1>1 DEF wfVars, workflow
  <1>2. ASSUME NEW j \in Job, JobStep(j)
        PROVE  DoneBegun'
    BY <1>2, JobStepFacts, JobStepKeepsVars
  <1>3. ASSUME NEW j \in Job, NextVersion(j)
        PROVE  DoneBegun'
    BY <1>3, NextVersionFacts DEF WFInv, WFTypeOK
  <1>4. ASSUME NEW j \in Job, ReleaseStep(j)
        PROVE  DoneBegun'
    BY <1>4, ReleaseStepFacts
  <1>5. ASSUME NEW j \in Job, Kill(j)
        PROVE  DoneBegun'
    BY <1>5, KillFacts DEF WFInv, WFTypeOK
  <1> QED
    BY <1>1, <1>2, <1>3, <1>4, <1>5 DEF WFNext, JobStep

\* What the jobs and their releases make of the repository and of each other,
\* without the parts that compare static files.
LEMMA LoopInvStep ==
    ASSUME WFInv, LoopInv, [WFNext]_wfVars
    PROVE  LoopInv'
  BY PublishedStep, ListedRunsStep, RebuildsPushStep, LiveAtWorkStep,
     DoneBegunStep
  DEF LoopInv

\* A job records who exists whenever somebody starts, until it is done; whoever
\* starts then checks out the newest files.
LEMMA OverlapsStep ==
    ASSUME WFInv, Overlaps, [WFNext]_wfVars
    PROVE  Overlaps'
  <1> USE DEF WFInv, WFTypeOK, Overlaps, Counts, AtWork, Waiting, Over
  <1>1. CASE UNCHANGED wfVars
    BY <1>1 DEF wfVars, workflow
  <1>2. ASSUME NEW j \in Job, NextVersion(j) \/ ReleaseStep(j)
        PROVE  Overlaps'
    BY <1>2, NextVersionFacts, ReleaseStepFacts
  \* Nobody who was not there appears.
  <1>3. ASSUME RecordOverlap, UNCHANGED files,
               \A k \in Job : phase'[k] \in Waiting \cup AtWork
                                 => phase[k] \in Waiting \cup AtWork,
               \A k \in Job : phase'[k] = "done"
                                 => phase[k] \in AtWork \cup {"done"}
        PROVE  Overlaps'
    BY <1>3 DEF RecordOverlap
  \* Somebody starts.
  <1>4. ASSUME RecordOverlap, NEW j \in Job, phase[j] = "idle",
               NEW new \in Nat, head <= new,
               files' = [files EXCEPT ![j] = new],
               phase'[j] # "done",
               \A k \in Job \ {j} : phase'[k] = phase[k]
        PROVE  Overlaps'
    BY <1>4 DEF RecordOverlap
  <1>5. ASSUME NEW j \in Job,
               StartReleaseOne(j) \/ StartReleaseAll(j) \/ PushFiles(j)
        PROVE  Overlaps'
    <2>1. CASE StartReleaseOne(j) \/ StartReleaseAll(j)
      <3>1. head \in Nat /\ head <= head
        OBVIOUS
      <3>2. /\ RecordOverlap /\ phase[j] = "idle"
            /\ files' = [files EXCEPT ![j] = head]
            /\ phase'[j] # "done"
            /\ \A k \in Job \ {j} : phase'[k] = phase[k]
        BY <2>1 DEF StartReleaseOne, StartReleaseAll
      <3> QED
        BY <1>4, <3>1, <3>2
    <2>2. CASE PushFiles(j)
      <3>1. head + 1 \in Nat /\ head <= head + 1
        OBVIOUS
      <3> QED
        BY <1>4, <2>2, <3>1 DEF PushFiles
    <2> QED
      BY <1>5, <2>1, <2>2
  <1>6. ASSUME NEW j \in Job,
               \/ PushFilesUndetected(j) \/ EnterGroup(j) \/ CancelWaiting(j)
               \/ StartRebuild(j)
        PROVE  Overlaps'
    BY <1>3, <1>6
    DEF PushFilesUndetected, EnterGroup, CancelWaiting, StartRebuild
  <1>7. ASSUME NEW j \in Job,
               \/ ListUpstream(j) \/ ListUpstreamFails(j) \/ ListPublished(j)
               \/ ListPublishedEmpty(j) \/ Finish(j)
        PROVE  Overlaps'
    BY <1>3, <1>7
    DEF ListUpstream, ListUpstreamFails, ListPublished, ListPublishedEmpty,
        SetList, Finish
  <1>8. ASSUME NEW j \in Job, Kill(j)
        PROVE  Overlaps'
    BY <1>3, <1>8, KillFacts
  <1> QED
    BY <1>1, <1>2, <1>5, <1>6, <1>7, <1>8 DEF WFNext

\* Checkouts get newer, what a job knows grows, and a job that has ended
\* otherwise than with success does not come back.
LEMMA JobsGrow ==
    ASSUME WFInv, [WFNext]_wfVars, NEW k \in Job
    PROVE  /\ files[k] <= files'[k]
           /\ overlap[k] \subseteq overlap'[k]
           /\ 0 < begun[k] /\ Counts(k)' => Counts(k) /\ files'[k] = files[k]
  <1> USE DEF WFInv, WFTypeOK, NotBegun, Counts, AtWork, Waiting, Over
  <1>1. CASE UNCHANGED wfVars
    BY <1>1 DEF wfVars, workflow
  <1>2. RecordOverlap => overlap[k] \subseteq overlap'[k]
    BY DEF RecordOverlap
  <1>3. ASSUME NEW j \in Job,
               StartReleaseOne(j) \/ StartReleaseAll(j) \/ PushFiles(j)
        PROVE  /\ files[k] <= files'[k] /\ RecordOverlap
               /\ 0 < begun[k] => phase'[k] = phase[k] /\ files'[k] = files[k]
    BY <1>3 DEF StartReleaseOne, StartReleaseAll, PushFiles
  <1>4. ASSUME NEW j \in Job,
               \/ PushFilesUndetected(j) \/ EnterGroup(j) \/ CancelWaiting(j)
               \/ StartRebuild(j) \/ ListUpstream(j) \/ ListUpstreamFails(j)
               \/ ListPublished(j) \/ ListPublishedEmpty(j) \/ Finish(j)
        PROVE  /\ files' = files /\ RecordOverlap
               /\ 0 < begun[k] /\ Counts(k)' => Counts(k)
    BY <1>4
    DEF PushFilesUndetected, EnterGroup, CancelWaiting, StartRebuild,
        ListUpstream, ListUpstreamFails, ListPublished, ListPublishedEmpty,
        SetList, Finish
  <1>5. ASSUME NEW j \in Job, NextVersion(j) \/ ReleaseStep(j)
        PROVE  UNCHANGED << phase, files, overlap >>
    BY <1>5, NextVersionFacts, ReleaseStepFacts
  <1>6. ASSUME NEW j \in Job, Kill(j)
        PROVE  /\ files' = files /\ RecordOverlap
               /\ Counts(k)' => Counts(k)
    BY <1>6, KillFacts
  <1> QED
    BY <1>1, <1>2, <1>3, <1>4, <1>5, <1>6 DEF WFNext

\* What covers a rebuild goes on to do so.
LEMMA CoveredStays ==
    ASSUME WFInv, [WFNext]_wfVars, NEW j \in Job, files'[j] = files[j],
           NEW m \in Image \cup Index \cup {Absent}, Covered(j, m)
    PROVE  Covered(j, m)'
  <1> SUFFICES ASSUME m.kind = "index", NEW i \in 1 .. Len(m.manifests)
               PROVE  \/ m.manifests[i].by[1] \in overlap'[j]
                      \/ files'[j] <= files'[m.manifests[i].by[1]]
    BY DEF Covered, FilesOf
  <1>1. m.manifests \in Seq(Image)
    BY DEF Image, Index, Absent
  <1>2. m.manifests[i].by \in Job \X (1 .. MaxListed)
    <2>1. m.manifests[i] \in Image
      BY <1>1, ElementOfSeq
    <2> QED
      BY <2>1, JobAssumption DEF Image
  <1>3. PICK k \in Job : k = m.manifests[i].by[1]
    BY <1>2
  <1>4. /\ files[k] \in Int /\ files'[k] \in Int /\ files[j] \in Int
        /\ files[k] <= files'[k] /\ overlap[j] \subseteq overlap'[j]
    <2>1. WFTypeOK /\ WFTypeOK'
      BY WFTypeStep DEF WFInv
    <2>2. files \in [Job -> 0 .. head] /\ files' \in [Job -> 0 .. head']
      BY <2>1 DEF WFTypeOK
    <2>3. head \in Nat /\ head' \in Nat
      BY <2>1 DEF WFTypeOK
    <2>4. files[k] <= files'[k] /\ overlap[j] \subseteq overlap'[j]
      BY JobsGrow
    <2> QED
      BY <2>2, <2>3, <2>4
  <1>5. k \in overlap[j] \/ files[j] <= files[k]
    BY <1>3 DEF Covered, FilesOf
  <1> QED
    BY <1>3, <1>4, <1>5

\* The index of a run covers every rebuild that counts while its job is at work.
LEMMA IndexOfCovers ==
    ASSUME WFInv, Overlaps, NEW j \in Job, Counts(j),
           NEW k \in Job, phase[k] = "releasing",
           NEW n \in 1 .. MaxListed
    PROVE  Covered(j, IndexOf(<< k, n >>))
  <1>1. << k, n >> \in Run
    BY RunOfJob
  <1>2. k \in overlap[j] \/ files[j] <= files[k]
    BY DEF Overlaps, AtWork
  <1>3. \A i \in 1 .. Len(IndexOf(<< k, n >>).manifests) :
            IndexOf(<< k, n >>).manifests[i].by = << k, n >>
    BY <1>1, IndexOfIsByRun DEF WFInv
  <1>4. \A i \in 1 .. Len(IndexOf(<< k, n >>).manifests) :
            IndexOf(<< k, n >>).manifests[i].by[1] = k
    BY <1>3
  <1> QED
    BY <1>2, <1>4 DEF Covered, FilesOf

\* Nothing but an index as new, or of a job it knows, replaces what a rebuild
\* has pushed.
LEMMA RefreshedStep ==
    ASSUME WFInv, LoopInv, Overlaps, Refreshed, [WFNext]_wfVars
    PROVE  Refreshed'
  <1> SUFFICES ASSUME NEW j \in Rebuilds, NEW n \in 1 .. begun'[j],
                      Counts(j)',
                      \/ pc'[<< j, n >>] = "released"
                      \/ /\ pc'[<< j, n >>] = "index"
                         /\ pushed'[<< j, n >>] = 1
               PROVE  Covered(j, tags[listed[j][n]])'
    BY DEF Refreshed, Rebuilds
  <1> DEFINE r == << j, n >>
             t == listed[j][n]
             At(p, q) == p[r] = "released" \/ (p[r] = "index" /\ q[r] = 1)
  <1>1. j \in Job
    BY DEF Rebuilds
  <1>2. begun \in [Job -> Nat]
    BY DEF WFInv, WFTypeOK
  \* It is enough to look at a release that had begun, and at its tag.
  <1>3. ASSUME n \in 1 .. begun[j], listed' = listed \/ listed'[j] = listed[j],
               At(pc, pushed), tags'[t] = tags[t]
        PROVE  Covered(j, tags[listed[j][n]])'
    <2>1. Counts(j) /\ files'[j] = files[j]
      BY <1>1, <1>2, <1>3, JobsGrow
    <2>2. t \in TagName /\ t = listed'[j][n]
      BY <1>1, <1>3, BegunRun DEF TagName
    <2>3. PICK m : m = tags[t]
      OBVIOUS
    <2>4. m \in Image \cup Index \cup {Absent}
      BY <2>2, <2>3 DEF WFInv, Inv, TypeOK, RepoTypeOK
    <2>5. Covered(j, m)
      BY <1>3, <2>1, <2>3 DEF Refreshed
    <2>6. Covered(j, m)'
      BY <1>1, <2>1, <2>4, <2>5, CoveredStays
    <2> QED
      BY <1>3, <2>2, <2>3, <2>6
  <1>4. CASE UNCHANGED wfVars
    BY <1>3, <1>4 DEF wfVars, vars, run, workflow
  <1>5. ASSUME NEW k \in Job, JobStep(k)
        PROVE  Covered(j, tags[listed[j][n]])'
    <2>1. UNCHANGED << tags, pc, pushed, begun >>
      BY <1>5, JobStepKeepsVars DEF vars, run
    <2>2. listed'[j] = listed[j]
      BY <1>1, <1>2, <1>5, <2>1, JobStepFacts
    <2> QED
      BY <1>3, <2>1, <2>2
  <1>6. ASSUME NEW k \in Job, NextVersion(k)
        PROVE  Covered(j, tags[listed[j][n]])'
    <2> DEFINE step == FirstStep(ReleaseArgs(k, listed[k][begun[k] + 1]))
    <2>1. /\ UNCHANGED << tags, pushed, listed >>
          /\ << k, begun[k] + 1 >> \in Run
          /\ pushed[<< k, begun[k] + 1 >>] = 0
          /\ begun' = [begun EXCEPT ![k] = begun[k] + 1]
          /\ pc' = [pc EXCEPT ![<< k, begun[k] + 1 >>] = step]
          /\ step # "released"
      BY <1>6, NextVersionFacts
    <2> HIDE DEF step
    <2>2. r # << k, begun[k] + 1 >>
      <3> SUFFICES ASSUME r = << k, begun[k] + 1 >> PROVE FALSE
        OBVIOUS
      <3>1. pc'[r] = step /\ pushed'[r] = 0
        BY <2>1 DEF WFInv, Inv, TypeOK
      <3> QED
        BY <2>1, <3>1
    <2>3. n \in 1 .. begun[j]
      BY <1>1, <1>2, <2>1, <2>2
    <2>4. pc'[r] = pc[r]
      BY <1>1, <2>1, <2>2, <2>3, BegunRun DEF WFInv, Inv, TypeOK
    <2> QED
      BY <1>3, <2>1, <2>3, <2>4
  <1>7. ASSUME NEW k \in Job, ReleaseStep(k)
        PROVE  Covered(j, tags[listed[j][n]])'
    <2> DEFINE q == << k, begun[k] >>
    <2>1. /\ q \in Run /\ RunStep(q) /\ pc[q] \in Live
          /\ begun[k] \in 1 .. MaxListed
          /\ UNCHANGED << phase, files, listed, begun, overlap >>
      BY <1>7, ReleaseStepFacts
    <2>2. n \in 1 .. begun[j] /\ r \in Run /\ t \in TagName
      BY <1>1, <2>1, BegunRun DEF TagName
    <2>3. args[r].version = t
      BY <1>1, <2>2 DEF LoopInv, ListedRuns
    <2>4. phase[k] = "releasing" /\ Counts(j)
      BY <2>1 DEF LoopInv, LiveAtWork, Counts
    <2>5. CASE tags'[t] = IndexOf(q)
      <3>1. Covered(j, IndexOf(q))
        BY <1>1, <2>1, <2>4, IndexOfCovers
      <3>2. PICK m : m = IndexOf(q)
        OBVIOUS
      <3>3. Covered(j, m)'
        BY <2>1, <3>1, <3>2 DEF Covered, FilesOf
      <3> QED
        BY <2>1, <2>5, <3>2, <3>3
    <2>6. CASE tags'[t].kind = "image"
      BY <2>1, <2>6 DEF Covered
    <2>7. CASE tags'[t] = tags[t] /\ tags'[t] # IndexOf(q)
      <3>1. At(pc, pushed)
        <4>1. CASE r = q
          BY <2>1, <2>3, <2>7, <4>1, IndexStepTags DEF WFInv
        <4>2. CASE r # q
          <5>1. pc'[r] = pc[r] /\ pushed'[r] = pushed[r]
            BY <2>1, <2>2, <4>2, RunStepIsLocal DEF WFInv
          <5> QED
            BY <5>1
        <4> QED
          BY <4>1, <4>2
      <3> QED
        BY <1>3, <2>1, <2>2, <2>7, <3>1
    <2>8. \/ tags'[t] = tags[t] \/ tags'[t].kind = "image"
          \/ tags'[t] = IndexOf(q)
      BY <2>1, <2>2, RunStepTags DEF WFInv, IndexOf
    <2> QED
      BY <2>5, <2>6, <2>7, <2>8
  <1>8. ASSUME NEW k \in Job, Kill(k)
        PROVE  Covered(j, tags[listed[j][n]])'
    <2>1. UNCHANGED << tags, pushed, listed, begun >>
      BY <1>8, KillFacts
    <2>2. n \in 1 .. begun[j] /\ r \in Run
      BY <1>1, <2>1, BegunRun
    <2>3. pc'[r] = pc[r]
      BY <1>8, <2>2, KillFacts
    <2> QED
      BY <1>3, <2>1, <2>2, <2>3
  <1> QED
    BY <1>4, <1>5, <1>6, <1>7, <1>8 DEF WFNext, JobStep

\* A job's later release of a minor replaces its earlier one under the alias.
LEMMA AliasIsLastReleasedStep ==
    ASSUME WFInv, LoopInv, AliasIsLastReleased, [WFNext]_wfVars
    PROVE  AliasIsLastReleased'
  <1> SUFFICES ASSUME NEW j \in Job, NEW i \in 1 .. begun'[j],
                      NEW k \in 1 .. begun'[j], i < k,
                      pc'[<< j, k >>] = "released",
                      tags'[k8sMajorMinor(listed'[j][k])].kind = "index",
                      NEW m \in 1 .. Len(tags'[k8sMajorMinor(listed'[j][k])]
                                             .manifests)
               PROVE  tags'[k8sMajorMinor(listed'[j][k])].manifests[m].by
                          # << j, i >>
    BY DEF AliasIsLastReleased
  <1> DEFINE r == << j, k >>
             t == k8sMajorMinor(listed[j][k])
  <1>1. begun \in [Job -> Nat]
    BY DEF WFInv, WFTypeOK
  <1>2. ASSUME k \in 1 .. begun[j], listed'[j] = listed[j],
               pc[r] = "released", tags'[t] = tags[t]
        PROVE  tags'[k8sMajorMinor(listed'[j][k])].manifests[m].by # << j, i >>
    <2>1. i \in 1 .. begun[j]
      BY <1>1, <1>2
    <2> QED
      BY <1>2, <2>1 DEF AliasIsLastReleased
  <1>3. CASE UNCHANGED wfVars
    BY <1>2, <1>3 DEF wfVars, vars, run, workflow
  <1>4. ASSUME NEW l \in Job, JobStep(l)
        PROVE  tags'[k8sMajorMinor(listed'[j][k])].manifests[m].by # << j, i >>
    <2>1. UNCHANGED << tags, pc, begun >>
      BY <1>4, JobStepKeepsVars DEF vars
    <2>2. listed'[j] = listed[j]
      BY <1>1, <1>4, <2>1, JobStepFacts
    <2> QED
      BY <1>2, <2>1, <2>2
  <1>5. ASSUME NEW l \in Job, NextVersion(l)
        PROVE  tags'[k8sMajorMinor(listed'[j][k])].manifests[m].by # << j, i >>
    <2> DEFINE step == FirstStep(ReleaseArgs(l, listed[l][begun[l] + 1]))
    <2>1. /\ UNCHANGED << tags, listed >>
          /\ << l, begun[l] + 1 >> \in Run
          /\ begun' = [begun EXCEPT ![l] = begun[l] + 1]
          /\ pc' = [pc EXCEPT ![<< l, begun[l] + 1 >>] = step]
          /\ step # "released"
      BY <1>5, NextVersionFacts
    <2> HIDE DEF step
    <2>2. r # << l, begun[l] + 1 >>
      BY <2>1 DEF WFInv, Inv, TypeOK
    <2>3. k \in 1 .. begun[j]
      BY <1>1, <2>1, <2>2
    <2>4. pc'[r] = pc[r]
      BY <2>1, <2>2, <2>3, BegunRun DEF WFInv, Inv, TypeOK
    <2> QED
      BY <1>2, <2>1, <2>3, <2>4
  <1>6. ASSUME NEW l \in Job, ReleaseStep(l)
        PROVE  tags'[k8sMajorMinor(listed'[j][k])].manifests[m].by # << j, i >>
    <2> DEFINE q == << l, begun[l] >>
    <2>1. /\ q \in Run /\ RunStep(q) /\ pc[q] \in Live
          /\ UNCHANGED << listed, begun >>
      BY <1>6, ReleaseStepFacts
    <2>2. /\ k \in 1 .. begun[j] /\ r \in Run
          /\ listed[j][k] \in Version /\ t \in TagName
      BY <2>1, BegunRun, IndexTagsFacts
    <2>3. args[r].version = listed[j][k]
      BY <2>2 DEF LoopInv, ListedRuns
    <2>4. q # << j, i >>
      BY <1>1, <2>2
    <2>5. CASE tags'[t] = IndexOf(q)
      BY <2>1, <2>4, <2>5, IndexOfIsByRun DEF WFInv
    <2>6. CASE tags'[t] = tags[t] /\ tags'[t] # IndexOf(q)
      <3>1. r # q
        BY <2>1, <2>3, <2>6, IndexStepTags DEF WFInv
      <3>2. pc[r] = "released"
        BY <2>1, <2>2, <3>1, RunStepIsLocal DEF WFInv
      <3> QED
        BY <1>2, <2>1, <2>2, <2>6, <3>2
    <2>7. CASE tags'[t].kind = "image"
      BY <2>1, <2>7
    <2>8. \/ tags'[t] = tags[t] \/ tags'[t].kind = "image"
          \/ tags'[t] = IndexOf(q)
      BY <2>1, <2>2, RunStepTags DEF WFInv, IndexOf
    <2> QED
      BY <2>5, <2>6, <2>7, <2>8
  <1>7. ASSUME NEW l \in Job, Kill(l)
        PROVE  tags'[k8sMajorMinor(listed'[j][k])].manifests[m].by # << j, i >>
    <2>1. UNCHANGED << tags, listed, begun >>
      BY <1>7, KillFacts
    <2>2. k \in 1 .. begun[j] /\ r \in Run
      BY <2>1, BegunRun
    <2>3. pc[r] = "released"
      BY <1>7, <2>2, KillFacts
    <2> QED
      BY <1>2, <2>1, <2>2, <2>3
  <1> QED
    BY <1>3, <1>4, <1>5, <1>6, <1>7 DEF WFNext, JobStep

-----------------------------------------------------------------------------

\* Nothing has begun, so nothing has to be shown of what has.
LEMMA JobsInvInit == WFInit => JobsInv
  <1> SUFFICES ASSUME WFInit PROVE JobsInv
    OBVIOUS
  <1>1. \A r \in Run : pc[r] = "idle"
    BY DEF WFInit, Init
  <1>2. \A j \in Job : phase[j] = "idle" /\ begun[j] = 0
    BY DEF WFInit
  <1>3. LoopInv
    <2>1. Published
      BY <1>1 DEF Published
    <2>2. ListedRuns
      BY <1>2 DEF ListedRuns
    <2>3. RebuildsPush
      BY <1>2 DEF RebuildsPush, Rebuilds
    <2>4. LiveAtWork
      BY <1>1, RunOfJob DEF LiveAtWork, Live
    <2>5. DoneBegun
      BY <1>2 DEF DoneBegun
    <2> QED
      BY <2>1, <2>2, <2>3, <2>4, <2>5 DEF LoopInv
  <1>4. Overlaps
    BY <1>2 DEF Overlaps, Counts, AtWork
  <1>5. Refreshed
    BY <1>2 DEF Refreshed, Rebuilds
  <1>6. AliasIsLastReleased
    BY <1>2 DEF AliasIsLastReleased
  <1> QED
    BY <1>3, <1>4, <1>5, <1>6, WFInvInit DEF JobsInv

\* Every step of every job keeps the invariant.
LEMMA JobsInvNext == JobsInv /\ [WFNext]_wfVars => JobsInv'
  BY WFInvNext, LoopInvStep, OverlapsStep, RefreshedStep,
     AliasIsLastReleasedStep
  DEF JobsInv

\* So it holds of all workflows.
LEMMA JobsInvariant == WFSpec => []JobsInv
  BY JobsInvInit, JobsInvNext, PTL DEF WFSpec

\* A job that reports success has published every version of its list, but for
\* those whose release it saw fail.
THEOREM JobsDoneMeansReleased == WFSpec => []DoneMeansReleased
  <1>1. JobsInv => DoneMeansReleased
    <2> SUFFICES ASSUME JobsInv, NEW j \in Job, phase[j] = "done",
                        NEW i \in 1 .. Len(listed[j])
                 PROVE  \/ tags[listed[j][i]] # Absent
                        \/ pc[<< j, i >>] = "failed"
      BY DEF DoneMeansReleased
    <2>1. i \in 1 .. begun[j]
      BY DEF JobsInv, LoopInv, DoneBegun
    <2>2. i \in 1 .. MaxListed /\ << j, i >> \in Run
      BY <2>1, BegunRun DEF JobsInv
    <2>3. /\ args[<< j, i >>].version = listed[j][i]
          /\ pc[<< j, i >>] \notin {"idle", "pushed"}
      BY <2>1 DEF JobsInv, LoopInv, ListedRuns
    <2>4. pc[<< j, i >>] \notin Live
      BY <2>2 DEF JobsInv, LoopInv, LiveAtWork
    <2>5. pc[<< j, i >>] \in {"skipped", "released", "failed"}
      BY <2>2, <2>3, <2>4 DEF JobsInv, WFInv, Inv, TypeOK, Ended
    <2> QED
      BY <2>2, <2>3, <2>5 DEF JobsInv, LoopInv, Published
  <1> QED
    BY <1>1, JobsInvariant, PTL

\* A rebuild that reports success has replaced the static files of the versions
\* it listed, but for those a job that existed meanwhile released.
THEOREM JobsRebuildRefreshes == WFSpec => []RebuildRefreshes
  <1>1. JobsInv => RebuildRefreshes
    <2> SUFFICES ASSUME JobsInv, NEW j \in Rebuilds, phase[j] = "done",
                        NEW i \in 1 .. Len(listed[j]),
                        tags[listed[j][i]].kind = "index",
                        pc[<< j, i >>] # "failed",
                        NEW k \in 1 .. Len(tags[listed[j][i]].manifests)
                 PROVE  \/ FilesOf(tags[listed[j][i]].manifests[k]) >= files[j]
                        \/ tags[listed[j][i]].manifests[k].by[1] \in overlap[j]
      BY DEF RebuildRefreshes
    <2>1. j \in Job
      BY DEF Rebuilds
    <2>2. i \in 1 .. begun[j]
      BY <2>1 DEF JobsInv, LoopInv, DoneBegun
    <2>3. i \in 1 .. MaxListed /\ << j, i >> \in Run /\ listed[j][i] \in Version
      BY <2>1, <2>2, BegunRun DEF JobsInv
    <2>4. pc[<< j, i >>] \notin {"idle", "pushed", "skipped"}
      BY <2>1, <2>2 DEF JobsInv, LoopInv, ListedRuns, RebuildsPush
    <2>5. pc[<< j, i >>] \notin Live
      BY <2>1, <2>3 DEF JobsInv, LoopInv, LiveAtWork
    <2>6. pc[<< j, i >>] = "released"
      BY <2>3, <2>4, <2>5 DEF JobsInv, WFInv, Inv, TypeOK, Ended
    <2>7. Covered(j, tags[listed[j][i]])
      BY <2>2, <2>6 DEF JobsInv, Refreshed, Counts
    <2> QED
      BY <2>7 DEF Covered
  <1> QED
    BY <1>1, JobsInvariant, PTL

\* The alias of a minor is never left at a version when its job has released
\* another of the minor after it.
THEOREM JobsAliasIsLastReleased == WFSpec => []AliasIsLastReleased
  <1>1. JobsInv => AliasIsLastReleased
    BY DEF JobsInv
  <1> QED
    BY <1>1, JobsInvariant, PTL
=============================================================================
