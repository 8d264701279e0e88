---------------------------- MODULE MCWorkflows -----------------------------
(***************************************************************************)
(* Small instances of Workflows for TLC.  Upstream has two patches of one  *)
(* minor, or one EKS-D release; --arches is cut down to one architecture.  *)
(***************************************************************************)
EXTENDS Workflows

dotted(minor, patch) ==
    [form |-> "dotted", minor |-> minor, patch |-> patch, arches |-> << >>]

eksd(minor, release) ==
    [form |-> "eksd", minor |-> minor, patch |-> release, arches |-> << >>]

MCDefaultArches == << "amd64" >>
MCArchList == { MCDefaultArches }

kindOf == [one |-> "release-one", all |-> "release-all",
           files1 |-> "rebuild", files2 |-> "rebuild"]

\* The nightly job and a push that changes static files; two versions.
NightlyVersion == { dotted(33, 1), dotted(33, 2) }
NightlyUpstream == << dotted(33, 2), dotted(33, 1) >>
NightlyKind == [j \in {"all", "files1"} |-> kindOf[j]]
NightlyRun == {"all", "files1"} \X (1 .. 2)

\* A manual release and two pushes; one version.
GroupVersion == { dotted(33, 1) }
GroupUpstream == << dotted(33, 1) >>
GroupKind == [j \in {"one", "files1", "files2"} |-> kindOf[j]]
GroupRun == {"one", "files1", "files2"} \X {1}

\* The nightly job and a push; one EKS-D release and its variant tag, which a
\* rebuild finds among the published tags.
EksdVersion == { eksd(35, 9), variantTag(eksd(35, 9), "amd64") }
EksdUpstream == << eksd(35, 9) >>
=============================================================================
